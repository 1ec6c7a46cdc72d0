CONSTANTS
  MaxPieces = 5
  Lines <- MCLines
SPECIFICATION FairSpec
CHECK_DEADLOCK FALSE
INVARIANTS SlicesSound PlainLineExact QuoteCloses
PROPERTY Terminates
