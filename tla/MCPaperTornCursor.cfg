SPECIFICATION Spec
CONSTANTS
  InitialBalance = 3000
  RiskPerMille = 10
  PayoutPercent = 87
  MaxConsecutiveLosses = 3
  DailyLossPerMille = 50
  Total = 8
  Window = 3
  FeatureWarmUp = 0
  LiveMaxSteps = 5
  Expiration = 1
  Gaps <- NoCandles
  Flatable <- NoCandles
  Predictions <- TradeOrHold
  TornWrites = TRUE
  MaxSessions = 3
  MaxCrashes = 1
  MaxResets = 0
CHECK_DEADLOCK FALSE
INVARIANT
  NoCandleReplayed
