CONSTANTS
  None = None
  Sources = {"ssh", "handles"}
  Given = {TRUE, FALSE}
  Lengths = {1, 3}
  Collects = {c1, c2}
  MaxPulls = 1
  MaxBatch = 1
  MaxLines = 3
  Faults = {"open", "read"}
  Texts <- MCTexts
SYMMETRY Symmetry
SPECIFICATION Spec
CHECK_DEADLOCK FALSE
INVARIANTS CollectsWhole OneReader OneConnectionEach SchemaNarrowest
