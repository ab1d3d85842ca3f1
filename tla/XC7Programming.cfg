CONSTANTS
  RowLimit = 3
  ColumnLimit = 3
  MinorLimit = 3
  Blank = Blank
  design = design
  Idcode = Idcode
  OtherIdcode = OtherIdcode
  Words <- MCWords
  Parts <- MCParts
  FrameKeys <- MCFrameKeys
SPECIFICATION Spec
INVARIANTS TypeOK LoadsDesign NoSecondWrite
PROPERTY LoadsFrameByFrame
\* The device is configured, or has refused.
CHECK_DEADLOCK FALSE
