CONSTANTS
  TypeOneLimit <- MCTypeOneLimit
  TypeTwoLimit <- MCTypeTwoLimit
  Packages <- MCPackages
  BitHeader <- MCBitHeader
  Header <- MCHeader
SPECIFICATION Spec
INVARIANTS TypeOK LengthOfWhole
PROPERTIES DeliversPackets
\* The reader has come to the end.
CHECK_DEADLOCK FALSE
