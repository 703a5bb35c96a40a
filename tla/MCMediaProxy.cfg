\* Two requests on two keys that share a cache with room for one of them.
CONSTANTS
    Key = {k1, k2}
    Caller = {c1, c2}
    Upstream = {u1, u2}
    Media = {m1, m2}
    Token = {t1, t2}
    None = None
    MaxEntries = 1
    MaxTokens = 2
    CacheTTL = 1
    TokenTTL = 2
SPECIFICATION Spec
SYMMETRY Symmetry
INVARIANTS
    OneResolution
    TokensAgree
    TokenInUseStays
PROPERTY
    FreshIsSpared
