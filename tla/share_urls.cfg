\* Two shares, of one URL or of two: whose row does a score reach?
SPECIFICATION Spec
CONSTANTS
    Names = {u1, u2}
    NoName = none
    Kinds = {}
    Feeds = {"source", "firehose"}
    Workers = {w1}
    MaxShares = 2
    MaxRows = 2
    MaxCalls = 0
    MaxFaults = 0
INVARIANTS
    ScoresAreOwn
CHECK_DEADLOCK FALSE
