CONSTANTS
  None = None
  Values = {"dur"}
  MaxRows = 2
  Callers = {"frame"}
  Declared = {None}
  Lengths = {1}
  Asked = {None}
  Batches = {2}
  Worker = {1, 2}
  Texts <- MCTexts
  Options <- MCOptions
SPECIFICATION Spec
CHECK_DEADLOCK FALSE
INVARIANT DurationsAreIntegers
