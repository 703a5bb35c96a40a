\* The metadata of a VOD goes last.
CONSTANTS
    Op = {o1}
    Earlier = Earlier
    None = None
    MaxCrashes = 1
SPECIFICATION Spec
INVARIANT
    MetadataGoesLast
CHECK_DEADLOCK FALSE
