SPECIFICATION Spec
CONSTANTS
  MaxCommands = 2
  MaxRunning = 2
  MaxCrashes = 1
  Torn = Torn
  None = None
CHECK_DEADLOCK FALSE
INVARIANTS
  TypeOK
  HistoryTellsOutcome
  NoPrematureEnd
  CriticalArmsSwitch
  StatusFollowsCommand
  ReportNamesItsSession
