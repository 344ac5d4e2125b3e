SPECIFICATION Spec
CONSTANTS
  MaxModels = 2
  MaxEntries = 2
  MaxCrashes = 0
  Torn = Torn
  None = None
CHECK_DEADLOCK FALSE
PROPERTY
  PromoteInstalls
