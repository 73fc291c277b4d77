CONSTANTS
  None = none
  Collectors = {c1, c2}
  FileSize = 2
  ChunkSize = 2
  MaxPayload = 1
  MaxUpdates = 1
  MaxFaults = 1
  MaxReplies = 2
SPECIFICATION FairSpec
INVARIANTS TypeOK GapsShow RefusalIsFailure
PROPERTIES CompletedIsKept UploadEnds
CHECK_DEADLOCK FALSE
