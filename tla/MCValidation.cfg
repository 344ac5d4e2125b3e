SPECIFICATION MCSpec
CONSTANTS
  InitialBalance = 1000
  RiskPerMille = 10
  PayoutPercent = 87
  MaxConsecutiveLosses = 3
  DailyLossPerMille = 50
  MinConfidence = 58
  MinCandles = 2
  LateralThreshold = 18
  RecentRows = 3
  EnoughRows = 2
  VolatilityFactor = 3
  MaxDrawdownPerMille = 150
  TrainWindow = 3
  TestWindow = 4
  StepSize = 2
  MinTestRows = 3
  GateTrades = 200
  MaxRows = 11
CHECK_DEADLOCK FALSE
INVARIANT DemoBeatsBreakeven
