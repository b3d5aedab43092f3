\* A second run started between the last two statements of the first.
SPECIFICATION FairSpec
CONSTANTS
  Caller = {c1, c2}
  MaxStarts = 2
CHECK_DEADLOCK FALSE
PROPERTY StopReturns
