CONSTANTS
  Mode = "bars"
  Minute = 1
  Values = {1}
  PredIds = {1}
  MaxProofs = 1
  SegmentSize = 2
  ReplaySize = 4
  ReplayAge = 0
  MaxIndex = 2
  MaxBatch = 1
  WriteBack = FALSE
  MaxStarts = 2
  FaultKinds = {"kill"}
  MaxFaults = 1
SPECIFICATION Spec
INVARIANT PublishedIsDurable
\* the stream goes quiet, and the bounds end it
CHECK_DEADLOCK FALSE
