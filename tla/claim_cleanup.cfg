\* Ends in a counterexample to DisconnectCleansUp.
SPECIFICATION FairSpec
CONSTANTS
    Clients = {c1}
    NoClient = NoClient
    Panes = {p1}
    MaxClients = 1
    QueueCap = 1
    SubCap = 1
    MaxSubs = 1
    MaxFrames = 1
PROPERTY
    DisconnectCleansUp
CHECK_DEADLOCK FALSE
