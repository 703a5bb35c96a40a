\* Two panes, two logins, and a socket of each pane that is closing while the next
\* one opens.
CONSTANTS
    Channel = {a, b}
    Identity = {i1, i2}
    Primary = primary
    Dynamic = {dynamic}
    Sockets = 2
    MaxForgotten = 1
    None = None
SPECIFICATION FairSpec
INVARIANTS
    NeverStranded
    SpeaksAsShown
    PanesAgree
PROPERTIES
    OneConnection
    RefusedRecovers
