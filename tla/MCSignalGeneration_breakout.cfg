SPECIFICATION Spec
CONSTANTS
  s1 = s1
  s2 = s2
  cl = cl
  bz = bz
  SignalIds <- MCSignalIds
  Statuses = {"active", "entered", "cancelled", "expired"}
  Confidences = {60, 70}
  MinConfidence = 65
  MaxHistory = 1
  MaxBlocked = 1
  SweepSymbols <- MCSymbols
  SweepPrices = {1993, 2000, 2006}
  BarRanges <- MCBarRanges
  Lookback = 1
  MinBars = 1
  ReclaimTimeout = 1
  BarLength = 1
  MaxSweepTime = 3
  Markets = {"BZ=F", "DX-Y.NYB"}
  Weight <- MCWeight
  MinHistory = 2
  MaxMoves = 2
  MaxLag = 1
  MaxMoveTime = 3
  BarSet <- MCBars
  ConsolidationBars = 2
  AcceptanceBars = 2
  MaxBarVolumes = 3
  EventIds = {"eia", "manual"}
  ManualIds = {"manual"}
  Schedule <- MCSchedule
  MediumImpact = {"eia", "manual"}
  Horizon = 4
  KeptFor = 2
  MaxObjects = 2
  EndOfTime = 7
PROPERTY BreakoutsAreSeen
