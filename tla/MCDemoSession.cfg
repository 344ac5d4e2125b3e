SPECIFICATION Spec
CONSTANTS
  InitialBalance = 3000
  RiskPerMille = 10
  PayoutPercent = 87
  MaxConsecutiveLosses = 2
  DailyLossPerMille = 50
  Total = 6
  Window = 3
  MinCandles = 2
  FeatureWarmUp = 0
  LiveMaxSteps = 4
  Flatable <- MCFlatable
  DemoInitialBalance = 2000
  PaperPending = 0
  MaxSessions = 3
  MaxCrashes = 2
  MaxResets = 1
  MaxReconciles = 0
CHECK_DEADLOCK FALSE
INVARIANTS
  TypeOK
  OneDemoOrderPerCandle
  KillSwitchHolds
  DemoBooksAgree
