SPECIFICATION FairSpec
CONSTANTS
    root = root
    child = child
    file1 = file1
    other = other
    Isolateds = {root, child}
    Files = {file1, other}
    NoDigest = NoDigest
    Root = root
    Includes <- SomeIncludes
    Holds <- SomeHolds
    Size <- SomeSizes
    Disk = 4
    MinFree = 1
    MaxSize = 3
    Threads = 2
    Retries = 1
    MaxErrors = 1
    MaxRuns = 2
INVARIANTS
    
    UsedGoLast
    ClosedIsOver
PROPERTIES
    FetchEnds
\* The last process may have ended.
CHECK_DEADLOCK FALSE
