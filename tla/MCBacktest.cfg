\* One run over every data set of at most 4 bars and 5 closes, and over every one of
\* at most 7 bars that begins with two equal closes.
SPECIFICATION Spec
CONSTANTS
  Uninitialised = {0, 7}
  FastPeriod = 1
  SlowPeriod = 2
  HistoryMargin = 1
  Prices = {100, 130, 137, 170, 200}
  DataSets <- MCFlatStarts
  MaxBars = 4
  InitialCapital = 100000
  CommissionRate = 10
  SlippageRate = 20
  RateScale = 1000
  EPSILON = 2500
  PositionSize = 500
  MaxRuns = 1
  ReuseStrategy = FALSE
INVARIANTS
  TypeOK SignalIsExecutable SignalMatchesPosition TradesAlternate
  LedgerReplays CurveIsMarkedToClose SummaryAgrees NeverOverdrawn
  DrawdownIsWorstLoss RiskIsSeen StreaksAreRuns HoldingPeriodsAreRoundTrips
  AnalysisAgreesWithSummary MacdComparesSameBar RsiFollowsTheClose
PROPERTY ImplementsMACross
CHECK_DEADLOCK FALSE
