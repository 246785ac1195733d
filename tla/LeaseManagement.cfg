SPECIFICATION FairSpec
CONSTANTS
    Workers = {w1, w2}
    Shapes = {s1, s2}
    EarlyRelease = FALSE
    MaxRequests = 2
    Capacity = 1
    MaxTerms = 3
    MaxEvents = 2
INVARIANTS
    
    RequestIsStable
    BotIsOfMachine
    

    
\* There may be nothing left to lease.
CHECK_DEADLOCK FALSE
