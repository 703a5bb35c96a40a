\* A file that is not expired stays until it is deleted.
CONSTANTS
    Op = {o1}
    Earlier = Earlier
    None = None
    MaxCrashes = 1
SPECIFICATION Spec
INVARIANT
    FreshIsKept
CHECK_DEADLOCK FALSE
