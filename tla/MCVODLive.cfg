\* Liveness: a download, or a conversion of an earlier download, and a crash.
CONSTANTS
    Op = {o1}
    Earlier = Earlier
    None = None
    MaxCrashes = 1
SPECIFICATION FairSpec
PROPERTIES
    WorkEnds
    LeftoversAreResolved
CHECK_DEADLOCK FALSE
