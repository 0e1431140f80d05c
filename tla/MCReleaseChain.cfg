SPECIFICATION Spec
CONSTANTS
  Requests = {"bump", "rollback"}
  MaxHub = 2
  MaxPackage = 3
  MaxPrs = 2
  MaxPushes = 1
  MaxFaults = 1
INVARIANTS
  PublishedIsTested
  RejectedStaysOut
  VerifiedIsServed
  OneProposal
  KeptReceiptsHold
PROPERTIES
  LatestAdvances
\* Nothing is left to release, and nobody asks.
CHECK_DEADLOCK FALSE
