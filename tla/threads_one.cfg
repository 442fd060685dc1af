SPECIFICATION Spec
CONSTANTS
  Anchors = {a1}
  Bodies = {b1, b2}
  MaxRuns = 4
  MaxThreads = 2
  MaxWaiting = 2
  MaxHuman = 3
  MaxReplays = 1
  Faults = {"refused", "phase_error"}
  Resurface = FALSE
CHECK_DEADLOCK FALSE
INVARIANTS
  OneDiscussion
  NothingGoesUnreported
