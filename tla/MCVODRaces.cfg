\* Two operations on a VOD that may have been downloaded before, with deletes,
\* removals, prunes, the cleanup and a crash at any step.
CONSTANTS
    Op = {o1, o2}
    Earlier = Earlier
    None = None
    MaxCrashes = 1
SPECIFICATION Spec
SYMMETRY Symmetry
INVARIANTS
    WorkIsExclusive
    TempIsKept
    NameStaysAsRegistered
PROPERTIES
    LostOnlyByExpiry
    ImplementsShelf
CHECK_DEADLOCK FALSE
