\* A BUY against a position_size of the whole capital.
SPECIFICATION Spec
CONSTANTS
  Uninitialised = {0, 7}
  FastPeriod = 1
  SlowPeriod = 2
  HistoryMargin = 1
  Prices = {100, 150}
  DataSets <- MCDataSets
  MaxBars = 5
  InitialCapital = 100000
  CommissionRate = 10
  SlippageRate = 20
  RateScale = 1000
  EPSILON = 2500
  PositionSize = 1000
  MaxRuns = 1
  ReuseStrategy = FALSE
PROPERTY PositionSizeIsHonoured
CHECK_DEADLOCK FALSE
