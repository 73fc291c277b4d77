CONSTANTS
  Starts = {c1, c2}
  Buffer = 1
  MaxChats = 1
  MaxDrops = 1
  ServerMayRefuse = TRUE
SPECIFICATION Spec
SYMMETRY Symmetry
INVARIANTS TypeOK FirstLoginInOrder OncePerCollector FirstLogin
CHECK_DEADLOCK FALSE
