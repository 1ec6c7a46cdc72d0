CONSTANTS
  None = None
  Cases = {"uniform", "longer", "ragged", "filtered", "broken"}
  MaxInflight = 3
  Lines <- MCLines
  Scans <- MCScans
SPECIFICATION FairSpec
CHECK_DEADLOCK FALSE
INVARIANTS
  SliceRespected StopsOnlyWhenFull ExactOnUniformText FileOrder
  UnalignedDeclines RowsNotMixedOnDistinctKeys
PROPERTIES KeepsPromise Returns
