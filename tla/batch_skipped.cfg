SPECIFICATION Spec
CONSTANTS
  NumFindings = 1
  Files = {f1}
  Rules = {r1}
  Lines = {}
  Titles = {t1}
  Histories <- AnchorMoved
  BatchSize = 1
  FileCap = 2
  RuleCap = 1
  Resurface = FALSE
  MaxRuns = 1
  MaxSetbacks = 0
CHECK_DEADLOCK FALSE
INVARIANTS
  SkippedTakesNoSlot
