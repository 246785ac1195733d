SPECIFICATION FairSpec
CONSTANTS
    NoWorker = NoWorker
    Replicas = {a}
    Groups = {g1, g2}
    OwnGroups = {g1}
    Workers = {w1,w2}
    MaxRev = 2
    MaxLinks = 2
    MaxFaults = 1
INVARIANTS
    ReplicaHasItsRevision
    KnownWasReached
PROPERTIES
    Settles
\* Changes, links and faults are bounded: the system comes to rest.
CHECK_DEADLOCK FALSE
