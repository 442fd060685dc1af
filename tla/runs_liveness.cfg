SPECIFICATION FairSpec
CONSTANTS
  Handlers = {h1, h2}
  Workers = {w1, w2}
  Modes = {"manual"}
  Heads = {1}
  MaxRuns = 1
  MaxRequests = 2
  MaxReplays = 0
  Faults = {"api_dies", "enqueue_error", "enqueue_ambiguous", "phase_error"}
  DeadLetterEnabled = TRUE
  Requests <- OneRequest
CHECK_DEADLOCK FALSE
PROPERTIES
  AcceptedRunsEnd
