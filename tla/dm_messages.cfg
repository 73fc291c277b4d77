CONSTANTS
  Peers = {p1, p2}
  Messages = {m1, m2}
  None = none
  Tasks = {t1, t2}
  MaxDrops = 1
  MaxEchoes = 1
  PeersInitiate = TRUE
SPECIFICATION FairSpec
INVARIANTS TypeOK AtMostOnce WaitsForAnAnswer
PROPERTY PendingDrains
CHECK_DEADLOCK FALSE
