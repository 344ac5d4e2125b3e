SPECIFICATION MCSpec
CONSTANTS
  InitialFiles <- MCInitialFiles
  Incoming <- MCIncoming
  OtherFile <- MCOtherFile
  Window = 1
  LiveMaxSteps = 2
  StartIndex = 1
  Modes = {"resume", "random", "reset", "index"}
  MaxSessions = 3
  MaxCommands = 2
  InitialBalance = 1000
  RiskPerMille = 10
  PayoutPercent = 51
  MaxConsecutiveLosses = 2
  DailyLossPerMille = 12
  MinConfidence = 58
  MinCandles = 2
  LateralThreshold = 18
  RecentRows = 3
  EnoughRows = 2
  VolatilityFactor = 3
  MaxDrawdownPerMille = 15
  TrainWindow = 1
  TestWindow = 3
  StepSize = 1
  MinTestRows = 2
  GateTrades = 2
  MinFactorPerMille = 500
  MinTradesBeforeLive = 5
  DriftTrades = 2
  DriftWinPerMille = 50
  DriftFactorPerMille = 200
  MaxRows = 5
  MaxTrades = 5
CHECK_DEADLOCK FALSE
INVARIANTS
  FeedTypeOK
  ReplayContinues
  PlannedIsRecorded
  NoWindowTwice
  LookAheadBounded
  MetricsAgree
  SimulationAgrees
  SplitsAreTemporal
  DemoMeans
  ReportsAgree
  TableServesItsCreator
