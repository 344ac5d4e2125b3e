SPECIFICATION Spec
CONSTANTS
  MaxModels = 3
  MaxEntries = 3
  MaxCrashes = 2
  Torn = Torn
  None = None
CHECK_DEADLOCK FALSE
INVARIANTS
  TypeOK
  OneProduction
  ProductionIsInstalled
PROPERTY
  ImplementsModelSlot
