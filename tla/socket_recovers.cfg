CONSTANTS
  Tasks = {t1, t2}
  Sockets = {s1, s2}
  NoSocket = null
  MaxAttempts = 2
  Tls = FALSE
  Entries = {"start", "connect", "leave", "send"}
SPECIFICATION FairSpec
VIEW View
INVARIANT RetryIsPlanned
PROPERTY Recovers
