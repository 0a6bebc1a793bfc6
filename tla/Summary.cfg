SPECIFICATION Spec
CONSTANTS
  MaxParts = 2
  MaxItems = 2
INVARIANTS
  AcceptsExactlyFinished
  SummaryIsAllThatWasSaid
  ReasonIsTrue
CHECK_DEADLOCK FALSE
