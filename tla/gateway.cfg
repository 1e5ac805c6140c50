\* A client attaches twice while output arrives and its connection breaks.
SPECIFICATION FairSpec
CONSTANTS
    Clients = {c1}
    NoClient = NoClient
    Panes = {p1, p2}
    MaxClients = 1
    QueueCap = 2
    SubCap = 1
    MaxSubs = 2
    MaxFrames = 2
INVARIANTS
    SlotsAreAccountedFor
    SubscriptionsAreOwned
    FramesKeepTheirOrder
    FramesFollowTheSnapshot
PROPERTIES
    KeepsStream
    StopEndsEverything
CHECK_DEADLOCK FALSE
