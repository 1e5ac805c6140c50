\* Two calls, the idle timer, Close and a crash race on one pane.
SPECIFICATION FairSpec
CONSTANTS
  Calls = {c1, c2}
  Panes = {p1}
  None = none
  MaxCrashes = 1
INVARIANTS
  SettledOnce
  WaitersAreKnown
PROPERTIES
  EveryCallReturns
  RestartRestoresPanes
CHECK_DEADLOCK FALSE
