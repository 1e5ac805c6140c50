\* One share of every kind but captures: handler, replay loop, goroutines,
\* watchdog, calls and a restart race on its row.
SPECIFICATION Spec
CONSTANTS
    Names = {u1}
    NoName = none
    Kinds = {"url", "file", "launch", "auto"}
    Feeds = {"prefilter", "source", "firehose"}
    Workers = {w1, w2}
    MaxShares = 1
    MaxRows = 2
    MaxCalls = 1
    MaxFaults = 1
SYMMETRY WorkerSymmetry
INVARIANTS
    TimeoutsAreOverdue
    RetriesAreSpent
PROPERTIES
    SettledIsFinal
    PrefilteredIsFinal
CHECK_DEADLOCK FALSE
