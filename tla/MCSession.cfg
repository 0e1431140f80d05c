SPECIFICATION FairSpec
CONSTANTS
  Tapes <- SmallTapes
  Minute = 2
  Start = 1
  LastMinute = 2
  PageLimit = 2
  Modes = {"bars", "range", "fence", "aggregate"}
  MaxPending = 2
  MaxProofs = 1
  QueueLimit = 2
  MaxFailures = 2
INVARIANTS
  LogIsTheTape
  AlarmsAreTrue
  EachConnectionIsVerified
PROPERTY SilenceEndsTheStream
