CONSTANTS
  Starts = {c1}
  Buffer = 1
  MaxChats = 1
  MaxDrops = 2
  ServerMayRefuse = FALSE
SPECIFICATION FairSpec
PROPERTY HelloOnEveryConnection
CHECK_DEADLOCK FALSE
