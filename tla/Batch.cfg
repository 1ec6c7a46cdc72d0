CONSTANTS
  None = None
  Cases = {"scan", "pull"}
  MaxCalls = 4
  Lines <- MCLines
  Inputs <- MCInputs
SPECIFICATION FairSpec
CHECK_DEADLOCK FALSE
INVARIANTS
  ScanExact KeyedRowsKept InOrder SliceFinishes 
PROPERTIES ScanReturns NeverRewinds
