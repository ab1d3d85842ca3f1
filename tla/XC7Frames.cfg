CONSTANTS
  RowLimit = 3
  ColumnLimit = 3
  MinorLimit = 3
  Blank = Blank
  design = design
  Words <- MCWords
  Parts <- MCParts
  FrameKeys <- MCFrameKeys
SPECIFICATION Spec
INVARIANTS TypeOK AssembledKept AddedArePartFrames Swept
PROPERTIES CursorAdvances Termination
\* The loop ends.
CHECK_DEADLOCK FALSE
