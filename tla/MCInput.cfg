SPECIFICATION MCSpec
CONSTANTS
  U16 = 65536
  IntLimit = 1000
  Callers = {a, b}
  Operations <- MCOperations
  MaxPipe = 2
  InvalidBitmaps = TRUE
  NoCaller = none
  Inputs <- MCInputs
CHECK_DEADLOCK FALSE
INVARIANTS NothingStaysBehind NumbersAreKept
PROPERTIES ChordIsHeldTogether OperationEnds
