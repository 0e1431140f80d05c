CONSTANTS
  Mode = "bars"
  Minute = 1
  Values = {1}
  PredIds = {1}
  MaxProofs = 2
  SegmentSize = 2
  ReplaySize = 4
  ReplayAge = 2
  MaxIndex = 6
  MaxBatch = 2
  WriteBack = TRUE
  MaxStarts = 3
  FaultKinds = {"kill", "power", "io", "venue", "consumer"}
  MaxFaults = 3
SPECIFICATION FairSpec
INVARIANTS
  RetainedIsReadable
PROPERTY CommittedIsDelivered
\* the stream goes quiet, and the bounds end it
CHECK_DEADLOCK FALSE
