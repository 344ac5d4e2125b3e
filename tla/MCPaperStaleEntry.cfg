SPECIFICATION Spec
CONSTANTS
  InitialBalance = 3000
  RiskPerMille = 10
  PayoutPercent = 87
  MaxConsecutiveLosses = 3
  DailyLossPerMille = 50
  Total = 8
  Window = 3
  FeatureWarmUp = 0
  LiveMaxSteps = 4
  Expiration = 1
  Gaps <- NoCandles
  Flatable <- MCFlatable
  Predictions <- TradeOrHold
  TornWrites = FALSE
  MaxSessions = 3
  MaxCrashes = 0
  MaxResets = 0
CHECK_DEADLOCK FALSE
INVARIANT
  OneOrderPerCandle
