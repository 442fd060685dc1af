SPECIFICATION Spec
CONSTANTS
  Handlers = {h1, h2}
  Workers = {w1}
  Modes = {"manual"}
  Heads = {1}
  MaxRuns = 2
  MaxRequests = 2
  MaxReplays = 1
  Faults = {"api_dies", "worker_dies", "enqueue_error", "enqueue_ambiguous", "phase_error"}
  DeadLetterEnabled = TRUE
  Requests <- OneRequest
SYMMETRY ActorSymmetry
CHECK_DEADLOCK FALSE
INVARIANTS
  TypeOK
  PendingRunHasJob
  SuccessMeansPublished
  WorkerFailuresLeaveLetter
