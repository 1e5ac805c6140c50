\* Two overlapping syncs of one item, one crash or lost commit, three updates.
SPECIFICATION FairSpec
CONSTANTS
  Items = {i1}
  Txns = {t1, t2}
  Linked = {t1}
  Runs = {r1, r2}
  MaxPages = 2
  MaxRetries = 2
  PageSize = 2
  MaxFeed = 3
  MaxFaults = 1
INVARIANTS
  CommittedIsStored
  StatusIsEarned
PROPERTIES
  RemovedStaysRemoved
  KeepsCopy
  EveryItemSettles
CHECK_DEADLOCK FALSE
