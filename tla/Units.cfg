CONSTANTS
  MaxUnits = 3
  MaxLen = 3
  MaxChunk = 2
  Callers = {"lines", "chunks"}
  Faults = {"fail"}
  Texts <- MCTexts
SPECIFICATION FairSpec
CHECK_DEADLOCK FALSE
INVARIANTS InOrder LinesOfText NothingLost
PROPERTY Recovers
