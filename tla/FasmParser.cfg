CONSTANTS
  WordBits <- MCWordBits
  RangeLimit <- MCRangeLimit
  Answers = {TRUE, FALSE}
  Contents <- MCContents
SPECIFICATION Spec
INVARIANTS TypeOK ReportsValue AcceptedIsWhole
PROPERTIES SeverityKept Ends
\* The parser returns.
CHECK_DEADLOCK FALSE
