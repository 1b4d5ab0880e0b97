\* Two runs of one engine, each with its own strategy and data, at the longest fast
\* average the bounded history can hold (fast = slow + margin).
SPECIFICATION Spec
CONSTANTS
  Uninitialised = {0, 7}
  FastPeriod = 3
  SlowPeriod = 1
  HistoryMargin = 2
  Prices = {100, 150}
  DataSets <- MCDataSets
  MaxBars = 6
  InitialCapital = 100000
  CommissionRate = 10
  SlippageRate = 20
  RateScale = 1000
  EPSILON = 2500
  PositionSize = 500
  MaxRuns = 2
  ReuseStrategy = FALSE
INVARIANTS
  SignalMatchesPosition LedgerReplays CurveIsMarkedToClose SummaryAgrees
PROPERTY ImplementsMACross
CHECK_DEADLOCK FALSE
