CONSTANTS
  Grid <- MCGrid
  TileTypes <- MCTileTypes
  IOBanks <- MCIOBanks
  PackagePins <- MCPackagePins
  WordSizeBits <- MCWordSizeBits
  UnsignedLimit <- MCUnsignedLimit
  Texts <- MCTexts
  SegmentsOf <- MCSegmentsOf
  Iob33 <- MCIob33
  HclkIoi3 <- MCHclkIoi3
  StepDownTags <- MCStepDownTags
  FrameWordCount <- MCFrameWordCount
  ValueBits <- MCValueBits
  RangeLimit <- MCRangeLimit
SPECIFICATION Spec
INVARIANTS TypeOK FramesOfDesign FramesOfText WrittenIsWhole UsedSitesKept BitsInBlocks
PROPERTY Ends
\* The program ends.
CHECK_DEADLOCK FALSE
