SPECIFICATION FairSpec
CONSTANTS
  InitialBalance = 3000
  RiskPerMille = 10
  PayoutPercent = 87
  MaxConsecutiveLosses = 2
  DailyLossPerMille = 50
  Total = 4
  Window = 3
  MinCandles = 2
  FeatureWarmUp = 0
  LiveMaxSteps = 4
  Flatable <- MCFlatable
  DemoInitialBalance = 2000
  PaperPending = 1
  MaxSessions = 2
  MaxCrashes = 1
  MaxResets = 0
  MaxReconciles = 1
CHECK_DEADLOCK FALSE
INVARIANTS
  LedgerMatchesLog
  ReconcileClosesOrders
PROPERTY
  OrdersClose
