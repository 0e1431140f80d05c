SPECIFICATION Spec
CONSTANTS
  Periods = {0, 1}
  Starts = {0, 1}
  Ends = {2}
  Values = {1, 2}
  PageLimit = 2
  MaxRetries = 1
  MaxPages = {1, 2}
  MaxNow = 2
  MaxReleases = 3
  MaxEntries = 3
INVARIANTS
  VintagesAreTrue
  EveryChangeIsTold
\* A fetch ends.
CHECK_DEADLOCK FALSE
