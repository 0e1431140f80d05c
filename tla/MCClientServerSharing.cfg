SPECIFICATION Spec
CONSTANTS
  Client = {c1, c2}
  QueueLimit = 1
  MaxClients = 2
  SnapshotLimit = 2
  MaxIndex = 3
  MaxBatch = 2
  MaxVisits = 1
  MaxStarts = 0
INVARIANTS
  TypeOK
  LedgersAreContiguous
  QueueIsTheRest
  SnapshotIsComplete
PROPERTIES
  GoodbyeIsComplete
SYMMETRY Symmetry
\* Nothing is left to produce, and nobody asks.
CHECK_DEADLOCK FALSE
