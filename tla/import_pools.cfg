SPECIFICATION ImportSpec
CONSTANTS
  MaxFaults = 1
  MaxEdits = 0
  MaxRows = 2
  MaxPools = 3
  Wants <- AllWants
PROPERTY ImportedPoolsStay
CHECK_DEADLOCK FALSE
CONSTANT NewWants <- SmallWants
