CONSTANTS
  RowLimit = 2
  ColumnLimit = 2
  MinorLimit = 2
  Blank = Blank
  Idcode = Idcode
  MaxCuts = 2
  Words <- MCWords
  Parts <- MCParts
  Markers <- MCMarkers
SPECIFICATION Spec
INVARIANTS LandsInPlace
PROPERTIES LoadsAll
\* The device is configured.
CHECK_DEADLOCK FALSE
