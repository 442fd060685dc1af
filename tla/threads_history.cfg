SPECIFICATION Spec
CONSTANTS
  Anchors = {a1}
  Bodies = {b1, b2}
  MaxRuns = 2
  MaxThreads = 1
  MaxWaiting = 1
  MaxHuman = 1
  MaxReplays = 0
  Faults = {}
  Resurface = FALSE
CHECK_DEADLOCK FALSE
INVARIANTS
  HistoryTellsState
