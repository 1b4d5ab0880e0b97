\* One close more than the bounded history can hold.
SPECIFICATION Spec
CONSTANTS
  Uninitialised = {0, 7}
  FastPeriod = 4
  SlowPeriod = 1
  HistoryMargin = 2
  Prices = {100, 150}
  DataSets <- MCDataSets
  MaxBars = 7
  InitialCapital = 100000
  CommissionRate = 10
  SlippageRate = 20
  RateScale = 1000
  EPSILON = 2500
  PositionSize = 500
  MaxRuns = 1
  ReuseStrategy = FALSE
INVARIANTS
  SilentWhenWindowTooShort
CHECK_DEADLOCK FALSE
