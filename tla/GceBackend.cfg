SPECIFICATION FairSpec
CONSTANTS
    Revisions = {r1}
    NoRevision = NoRevision
    Workers = {w1, w2}
    Overlapping = {"catalog", "remove", "update", "fetch", "resize", "deleteManager", "deleteTemplate", "cleanup"}
    MinSize = 1
    MaxSize = 1
    ResizeLimit = 1
    MaxVms = 1
    MaxChanges = 2
    MaxFaults = 1
INVARIANTS
    OfferedIsThere
    
PROPERTY
    OldGoes
\* Changes and faults are bounded: the system comes to rest.
CHECK_DEADLOCK FALSE
