SPECIFICATION FairSpec
CONSTANTS
    good = good
    cut = cut
    garbled = garbled
    Clients = {c1, c2}
    InlineClients = {c2}
    Contents = {good, cut, garbled}
    Good = {good}
    SizeOf <- SomeSizes
    NoContent = NoContent
    Workers = {w1, w2}
    MaxFaults = 1
INVARIANTS
    AnswerIsRight
    
PROPERTIES
    
    ExpiredGoes
\* Clients may be done, and everything deleted.
CHECK_DEADLOCK FALSE
