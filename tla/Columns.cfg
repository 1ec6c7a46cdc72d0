CONSTANTS
  None = None
  Values = {"time", "int", "dur", "float", "bool", "word"}
  MaxRows = 3
  Callers = {"frame", "direct", "pull"}
  Declared = {None, "Integer", "Float", "Boolean", "DateTime", "Duration", "String", "Auto", "Unlisted"}
  Lengths = {0, 1, 3}
  Asked = {None, 2}
  Batches = {1, 2}
  Worker = {1, 2}
  Texts <- MCTexts
  Options <- MCOptions
SPECIFICATION Spec
CHECK_DEADLOCK FALSE
INVARIANTS PromiseKept  ProbedValuesKept PathsAgree
