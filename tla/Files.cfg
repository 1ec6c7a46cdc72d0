CONSTANTS
  Kinds = {"local", "sftp", "zst", "shared"}
  LineEnds <- MCLineEnds
  Tables <- MCTables
  MaxLen = 4
  MaxFrame = 2
  MaxFiles = 2
  MaxWrites = 2
  MaxInflight = 2
  Faults = {"open"}
SPECIFICATION FairSpec
CHECK_DEADLOCK FALSE
INVARIANTS SnapshotLines PiecesReal StreamLines
PROPERTY ScanEnds
