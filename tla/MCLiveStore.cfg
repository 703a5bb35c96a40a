\* Two channels that share the total capacity; two segments and a playlist.
CONSTANTS
    Channel = {c1, c2}
    Name = {s1, s2, index}
    Segment = {s1, s2}
    Sizes = {0, 1, 2}
    MaxChannelBytes = 3
    MaxTotalBytes = 4
    Grace = 2
    MaxNow = 3
SPECIFICATION Spec
SYMMETRY Symmetry
INVARIANTS
    TypeOK
    AccountingIsExact
    PutIsServed
PROPERTIES
    GraceIsExact
    ImplementsEagerStore
CHECK_DEADLOCK FALSE
