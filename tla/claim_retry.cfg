\* Ends in a counterexample to RetryIsLeftToReplay.
SPECIFICATION Spec
CONSTANTS
    Names = {u1}
    NoName = none
    Kinds = {"url"}
    Feeds = {}
    Workers = {w1, w2}
    MaxShares = 1
    MaxRows = 1
    MaxCalls = 0
    MaxFaults = 0
PROPERTY RetryIsLeftToReplay
CHECK_DEADLOCK FALSE
