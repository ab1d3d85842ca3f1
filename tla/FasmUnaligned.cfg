CONSTANTS
  WordBits <- MCWordBits
  RangeLimit <- MCRangeLimit
  Answers = {TRUE, FALSE}
  Contents <- MCTwoWords
SPECIFICATION Spec
INVARIANTS ReportsAnyValue
\* The parser returns.
CHECK_DEADLOCK FALSE
