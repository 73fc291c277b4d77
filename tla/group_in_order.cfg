CONSTANTS
  Messages = {m1, m2, m3}
  None = none
  Tasks = {t1}
  Jobs = {j1, j2}
  MaxCrashes = 1
  MaxDrops = 0
  LateJoin = FALSE
  SecondCollector = FALSE
SPECIFICATION FairSpec
INVARIANT KeyBeforeUse
PROPERTIES InOrder AllRead
CHECK_DEADLOCK FALSE
