CONSTANTS
  Mode = "ticks"
  Minute = 2
  Values = {1}
  PredIds = {1}
  MaxProofs = 1
  SegmentSize = 1
  ReplaySize = 2
  ReplayAge = 0
  MaxIndex = 4
  MaxBatch = 2
  WriteBack = TRUE
  MaxStarts = 2
  FaultKinds = {"kill", "power", "io", "venue", "consumer"}
  MaxFaults = 2
SPECIFICATION Spec
INVARIANTS
  TypeOK
  PublishedIsDurable
  NeverRefused
  ProtectedWindowIsRetained
  ExpiryIsExact
  LookupIsComplete
PROPERTY ImplementsStream
\* the stream goes quiet, and the bounds end it
CHECK_DEADLOCK FALSE
