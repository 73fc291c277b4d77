CONSTANTS
  Messages = {m1, m2, m3}
  None = none
  Tasks = {t1, t2}
  Jobs = {j1}
  MaxCrashes = 1
  MaxDrops = 1
  LateJoin = TRUE
  SecondCollector = TRUE
SPECIFICATION Spec
SYMMETRY Symmetry
INVARIANTS TypeOK OnlyForWantOfKey
CHECK_DEADLOCK FALSE
