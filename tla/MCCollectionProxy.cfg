\* A configuration file that disables its proxy.
SPECIFICATION Spec
CONSTANTS
  p1 = p1
  p2 = p2
  Procs = {p1, p2}
  Paths <- MCPaths
  Bars <- MCBars
  CreatableDirs = {"out", "data"}
  MaxFaults = 1
  Absent = Absent
  Uninitialised <- MCUninitialised
  SchemeUrls = {"https://api.binance.com"}
  Malformed = Malformed
  IntRange = 8
  JumpPercent = 30
  VolumeThreshold = 1
  MinVolumes = 2
  HISTORY_SIZE = 2
  Setups <- MCSetups
  Answers <- MCAnswers
  MaxLimit = 3
  MaxStarts = 2
INVARIANT DisabledProxyIsNotUsed
CHECK_DEADLOCK FALSE
