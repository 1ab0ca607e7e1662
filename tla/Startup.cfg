SPECIFICATION FairSpec
CONSTANTS
  N = 3
  Size <- MCSize
  Heights = {2, 3, 5}
INVARIANT TypeOK
INVARIANT LinesAreRight
INVARIANT TotalIsSum
INVARIANT ExporterIsShut
PROPERTY ReportIsPrinted
PROPERTY ServesAnyway
CHECK_DEADLOCK FALSE
