CONSTANTS
  RowLimit = 3
  ColumnLimit = 3
  MinorLimit = 3
  Blank = Blank
  design = design
  Words <- MCWords
  Parts <- MCGapParts
  FrameKeys <- MCFrameKeys
SPECIFICATION Spec
INVARIANTS AddsMissingFrames
\* The loop ends.
CHECK_DEADLOCK FALSE
