\* Liveness: one start, two stoppers, two requests.
CONSTANTS
    Channel = {c1}
    Gen = {g1}
    Stopper = {s1, s2}
    StopAll = {}
    Writer = {w1, w2}
    None = None
SPECIFICATION FairSpec
PROPERTIES
    StopReturns
    ExitFreesTheChannel
    CancelledStartEnds
