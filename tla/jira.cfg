\* Two transitions of two issues, pages of one issue, two attempts, one fault.
SPECIFICATION FairSpec
CONSTANTS
    Events = {1, 2}
    NoEvent = none
    MaxIssue = 2
    IssueOf <- MCIssueOf
    PageSize = 1
    DrainBatch = 2
    MaxAttempts = 2
    MaxFaults = 1
INVARIANTS
    SeenIsStored
    CopiesAreAccountedFor
    DeathIsDeserved
PROPERTIES
    SearchIsComplete
    KeepsPromise
    EveryTransitionSettles
CHECK_DEADLOCK FALSE
