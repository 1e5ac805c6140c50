\* Two sessions that come and go while output fills the channels.
SPECIFICATION FairSpec
CONSTANTS
    Names = {s1, s2}
    NoName = none
    StreamCap = 2
    EventCap = 2
    MaxChanges = 6
INVARIANTS
    RegistryFollowsTmux
PROPERTIES
    RegistryConverges
    StopReturns
CHECK_DEADLOCK FALSE
