SPECIFICATION SpecBots
CONSTANTS
    Tasks = {t1}
    Bots = {b1, b2}
    Props = {once}
    IdempotentProps = {}
    ExitCodes = {0}
    NoBot = NoBot
    NoTask = NoTask
    NoProps = NoProps
    NoExit = NoExit
    once = once
    t1 = t1
    b1 = b1
    b2 = b2
SYMMETRY BotSymmetry
VIEW ViewBots
INVARIANT NotIdempotentRunsOnce
\* Tasks may all be over, bots idle and the clock past every date.
CHECK_DEADLOCK FALSE
