CONSTANTS
  None = None
  Cases = {"zero_column"}
  MaxInflight = 2
  Lines <- MCLines
  Scans <- MCScans
SPECIFICATION Spec
CHECK_DEADLOCK FALSE
INVARIANT ZeroColumnFrameFallsBack
