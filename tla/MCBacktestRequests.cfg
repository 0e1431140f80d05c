SPECIFICATION Spec
CONSTANTS
  A = A
  B = B
  Request = {r1, r2, r3, r4}
  Key = {A, B}
  Size <- Sizes
  MaxEntries = 1
  MaxBytes = 2
  MaxConcurrency = 2
  MaxQueue = 1
  QueueTimeout = 1
  ExecutionTimeout = 2
  MaxArrival = 1
INVARIANTS
  SlotsAreAccounted
  OneCompilerPerKey
  InUseIsKept
  NothingIsLeftBehind
  EndsWithinTwiceTheTimeout
PROPERTIES
  TrimIsLRU
SYMMETRY Symmetry
\* Every request has been answered.
CHECK_DEADLOCK FALSE
