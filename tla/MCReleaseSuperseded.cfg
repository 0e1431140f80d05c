SPECIFICATION FairSpec
CONSTANTS
  Requests = {}
  MaxHub = 2
  MaxPackage = 2
  MaxPrs = 2
  MaxPushes = 0
  MaxFaults = 0
PROPERTIES
  EveryReleaseIsPublished
\* Nothing is left to release, and nobody asks.
CHECK_DEADLOCK FALSE
