SPECIFICATION FairSpec
CONSTANTS
    Bots = {b1}
    Kinds = {k1}
    Lives = {2}
    Advance = 1
    Jitters = {1}
    MaxQueue = 1
    MaxJobs = 2
    MaxEvents = 2
INVARIANTS
    KindIsKnown
    

    
