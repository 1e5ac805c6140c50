\* Two notifications of one profile, two attempts; a pass takes one row of two.
SPECIFICATION FairSpec
CONSTANTS
    MaxPushes = 2
    Profiles = {p1}
    NoProfile = none
    DrainLimit = 1
    PushMaxAttempts = 2
    MaxAmbiguous = 1
    MaxLost = 1
INVARIANTS
    OneDigestPerWindow
    CopiesAreAccountedFor
    DeathIsDeserved
PROPERTIES
    KeepsPromise
    EveryPushSettles
CHECK_DEADLOCK FALSE
