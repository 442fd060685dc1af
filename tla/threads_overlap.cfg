SPECIFICATION Spec
CONSTANTS
  Anchors = {a1}
  Bodies = {b1}
  MaxRuns = 2
  MaxThreads = 1
  MaxWaiting = 2
  MaxHuman = 0
  MaxReplays = 0
  Faults = {}
  Resurface = FALSE
CHECK_DEADLOCK FALSE
PROPERTIES
  AutoResolvedMeansGone
