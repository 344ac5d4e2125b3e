SPECIFICATION Spec
CONSTANTS
  InitialBalance = 3000
  RiskPerMille = 10
  PayoutPercent = 87
  MaxConsecutiveLosses = 2
  DailyLossPerMille = 50
  Total = 8
  Window = 3
  FeatureWarmUp = 0
  LiveMaxSteps = 6
  Expiration = 1
  Gaps <- MCGaps
  Flatable <- MCFlatable
  Predictions <- TradeOrHold
  TornWrites = FALSE
  MaxSessions = 3
  MaxCrashes = 1
  MaxResets = 1
CHECK_DEADLOCK FALSE
INVARIANTS
  TypeOK
  BooksAgree
  LogLeadsTable
  NoCandleReplayed
  OneOrderPerCandleInSession
  LossStreakEndsTrading
  WindowsDistinct
  HolesOnlyFromCrashes
PROPERTY
  StoresImplementJournal
