SPECIFICATION FairSpec
CONSTANTS
  Frame = 2
  PageLimit = 2
  DedupWindow = 2
  Lateness = 1
  MaxNow = 6
  MaxTrades = 4
  Warmups = {0, 1, 2}
  Limits = {0, 1, 2}
INVARIANTS
  BarsAreExact
  NoStrayContainer
  StreamIsExact
  NothingIsPassedOver
PROPERTIES
  EveryTradeArrives
\* A backtest ends, and an exchange may have nothing more to list.
CHECK_DEADLOCK FALSE
