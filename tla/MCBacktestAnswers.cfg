SPECIFICATION FairSpec
CONSTANTS
  A = A
  B = B
  Request = {r1, r2, r3}
  Key = {A, B}
  Size <- Sizes
  MaxEntries = 1
  MaxBytes = 2
  MaxConcurrency = 2
  MaxQueue = 1
  QueueTimeout = 1
  ExecutionTimeout = 2
  MaxArrival = 0
PROPERTIES
  EveryRequestEnds
\* Every request has been answered.
CHECK_DEADLOCK FALSE
