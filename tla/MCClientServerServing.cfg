SPECIFICATION FairSpec
CONSTANTS
  Client = {c1}
  QueueLimit = 2
  MaxClients = 1
  SnapshotLimit = 2
  MaxIndex = 4
  MaxBatch = 3
  MaxVisits = 2
  MaxStarts = 1
INVARIANTS
  ExpiryIsHonest
PROPERTIES
  EveryClientIsServed
\* Nothing is left to produce, and nobody asks.
CHECK_DEADLOCK FALSE
