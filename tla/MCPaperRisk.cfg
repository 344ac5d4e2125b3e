SPECIFICATION FairSpec
CONSTANTS
  InitialBalance = 3000
  RiskPerMille = 20
  PayoutPercent = 87
  MaxConsecutiveLosses = 3
  DailyLossPerMille = 15
  Total = 7
  Window = 2
  FeatureWarmUp = 1
  LiveMaxSteps = 6
  Expiration = 1
  Gaps <- NoCandles
  Flatable <- NoCandles
  Predictions <- LowOrTrade
  TornWrites = TRUE
  MaxSessions = 2
  MaxCrashes = 1
  MaxResets = 0
CHECK_DEADLOCK FALSE
INVARIANT
  DailyLossBounded
PROPERTIES
  SessionEnds
  OrdersSettle
