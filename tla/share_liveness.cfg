\* Every share settles, whatever two goroutines, the handler, the replay loop
\* and the watchdog do to its row, although the server restarts or a write fails.
SPECIFICATION FairSpec
CONSTANTS
    Names = {u1}
    NoName = none
    Kinds = {"url", "file", "launch", "capture"}
    Feeds = {"firehose"}
    Workers = {w1, w2}
    MaxShares = 1
    MaxRows = 2
    MaxCalls = 0
    MaxFaults = 1
PROPERTIES
    EveryShareSettles
CHECK_DEADLOCK FALSE
