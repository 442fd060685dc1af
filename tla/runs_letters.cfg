SPECIFICATION Spec
CONSTANTS
  Handlers = {h1}
  Workers = {w1}
  Modes = {"manual"}
  Heads = {1}
  MaxRuns = 1
  MaxRequests = 1
  MaxReplays = 0
  Faults = {"enqueue_error"}
  DeadLetterEnabled = TRUE
  Requests <- OneRequest
CHECK_DEADLOCK FALSE
INVARIANTS
  EveryFailureLeavesLetter
