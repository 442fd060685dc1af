SPECIFICATION Spec
CONSTANTS
  Anchors = {a1, a2}
  Bodies = {b1, b2}
  MaxRuns = 3
  MaxThreads = 2
  MaxWaiting = 2
  MaxHuman = 2
  MaxReplays = 1
  Faults = {"phase_error", "refused", "lost_reply", "resolve_error", "worker_dies"}
  Resurface = TRUE
CHECK_DEADLOCK FALSE
INVARIANTS
  TypeOK
  PublishedIsTracked
  ResolutionsRecorded
PROPERTIES
  SyncMirrorsRemote
