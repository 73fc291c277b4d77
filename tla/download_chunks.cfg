CONSTANTS
  None = none
  Chunks = 2
  Collectors = {c1, c2}
  Buffer = 1
  Jobs = {j1, j2}
  MaxFaults = 1
  MaxExtras = 1
SPECIFICATION FairSpec
INVARIANTS TypeOK FileIsPrefix CompletedHasEnd
PROPERTY DownloadEnds
VIEW View
CHECK_DEADLOCK FALSE
