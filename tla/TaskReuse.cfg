SPECIFICATION Spec
CONSTANTS
    Tasks = {t1, t2}
    Bots = {b1}
    Props = {idem, once}
    IdempotentProps = {idem}
    ExitCodes = {0, 1}
    NoBot = NoBot
    NoTask = NoTask
    NoProps = NoProps
    NoExit = NoExit
    idem = idem
    once = once
    t1 = t1
    t2 = t2
    b1 = b1
CONSTRAINT ReuseOnly
INVARIANT ReusedResultIsReal
\* Tasks may all be over, bots idle and the clock past every date.
CHECK_DEADLOCK FALSE
