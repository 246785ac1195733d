SPECIFICATION FairSpec
CONSTANTS
    r1 = r1
    r2 = r2
    m1 = m1
    m2 = m2
    Requests = {r1, r2}
    Machines = {m1, m2}
    Fits <- FitsSome
    NoRequest = NoRequest
    NoMachine = NoMachine
    MaxStores <- SentTwice
    MaxAdds <- ComesBack
    MaxHandlers = 1
INVARIANTS
    LeaseAgreement
    RightMachineIsReclaimed
    InstructionIsItsOwn
PROPERTIES
    LeaseRunsItsTime
    ReleasedIsReclaimed
\* Requests may all be served and leases over.
CHECK_DEADLOCK FALSE
