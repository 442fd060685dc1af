SPECIFICATION Spec
CONSTANTS
  NumFindings = 4
  Files = {f1, f2, f3}
  Rules = {r1, r2, r3}
  Lines = {}
  Titles = {t1}
  Histories <- OpenOrNew
  BatchSize = 3
  FileCap = 2
  RuleCap = 2
  Resurface = FALSE
  MaxRuns = 1
  MaxSetbacks = 0
SYMMETRY Symmetry
CHECK_DEADLOCK FALSE
INVARIANTS
  TypeOK
  CapsHold
  NoSlotWasted
  NoFileMonopolises
