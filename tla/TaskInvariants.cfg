SPECIFICATION FairSpec
CONSTANTS
    Tasks = {t1}
    Bots = {b1, b2}
    Props = {idem, once}
    IdempotentProps = {idem}
    ExitCodes = {0, 1}
    NoBot = NoBot
    NoTask = NoTask
    NoProps = NoProps
    NoExit = NoExit
    idem = idem
    once = once
    t1 = t1
    b1 = b1
    b2 = b2
INVARIANTS
    QueuedIsFree
    RetryIsElsewhere
    PendingIsQueued
    SummaryShowsLastTry
    
PROPERTIES
    ImplementsOwnership
    SilenceIsFinite
\* Tasks may all be over, bots idle and the clock past every date.
CHECK_DEADLOCK FALSE
