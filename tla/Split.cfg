CONSTANTS
  MaxFrame = 3
  CheckSize = 2
  MaxTotal = 9
  Faults = {"size", "read"}
SPECIFICATION FairSpec
CHECK_DEADLOCK FALSE
INVARIANTS Tiled CutsBehindDelims LinesWhole CutAsDefined
PROPERTY Terminates
