\* Two requests and the synchronisation on one channel and one VOD, and a crash.
CONSTANTS
    Channel = {n1}
    Vod = {v1}
    Duration = {d1, d2}
    Request = {r1, r2}
    Sync = Sync
    None = None
    MaxCrashes = 1
SPECIFICATION FairSpec
INVARIANTS
    MemoryIsTheDatabase
    NamesAreTheChannels
    AcknowledgedStands
PROPERTIES
    ImplementsAtomicConfig
    ChangeEnds
