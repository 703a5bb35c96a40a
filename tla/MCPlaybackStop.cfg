\* One channel with room for one of its two sessions, and a webhook start.
CONSTANTS
    Channel = {c1}
    Session = {s1, s2}
    Webhook = {w1}
    MaxSessions = 1
    SessionTTL = 1
    IdleTTL = 2
    MaxAge = 3
SPECIFICATION Spec
PROPERTIES
    StopRemovesMark
CHECK_DEADLOCK FALSE
