SPECIFICATION Spec
CONSTANTS
  Handlers = {h1}
  Workers = {w1, w2}
  Modes = {"manual"}
  Heads = {1, 2}
  MaxRuns = 2
  MaxRequests = 3
  MaxReplays = 0
  Faults = {"worker_dies", "enqueue_error", "phase_error", "days_pass"}
  DeadLetterEnabled = TRUE
  Requests <- NoteRequests
SYMMETRY ActorSymmetry
CHECK_DEADLOCK FALSE
INVARIANTS
  OneJobPerRun
  NoTwinQueuedRuns
PROPERTIES
  RunsFollowLifecycle
