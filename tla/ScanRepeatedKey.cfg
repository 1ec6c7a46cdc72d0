CONSTANTS
  None = None
  Cases = {"repeated"}
  MaxInflight = 1
  Lines <- MCLines
  Scans <- MCScans
SPECIFICATION Spec
CHECK_DEADLOCK FALSE
INVARIANT RowsNotMixed
