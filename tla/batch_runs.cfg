SPECIFICATION Spec
CONSTANTS
  NumFindings = 3
  Files = {f1, f2}
  Rules = {r1, r2}
  Lines = {l1}
  Titles = {t1, t2}
  Histories <- NothingMoved
  BatchSize = 2
  FileCap = 2
  RuleCap = 1
  Resurface = FALSE
  MaxRuns = 4
  MaxSetbacks = 1
SYMMETRY Symmetry
CHECK_DEADLOCK FALSE
INVARIANTS
  OneCommentPerSpot
  BacklogDrains
