CONSTANTS
  Tasks = {t1, t2, t3}
  Sockets = {s1, s2}
  NoSocket = null
  MaxAttempts = 2
  Tls = TRUE
  Entries = {"start", "connect", "leave", "disconnect", "send"}
SPECIFICATION Spec
SYMMETRY Symmetry
VIEW View
INVARIANTS TypeOK DialIsOwned
PROPERTY StopIsFinal
