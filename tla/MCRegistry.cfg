\* One channel, two starts, two media requests, and a StopChannel racing a Stop.
CONSTANTS
    Channel = {c1}
    Gen = {g1, g2}
    Stopper = {s1}
    StopAll = {a1}
    Writer = {w1, w2}
    None = None
SPECIFICATION Spec
SYMMETRY Symmetry
INVARIANTS
    OnlyTheOwnerIsServed
    ProcessIsRegistered
    NilMeansReleased
    StopFlagIsHeld
PROPERTIES
    StopLeavesNothing
    ImplementsLiveSlot
