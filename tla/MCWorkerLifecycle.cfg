SPECIFICATION FairSpec
CONSTANTS
  Pixel = {"black"}
  Black = "black"
  MaxDim = 1
  Opener = "open"
  Closers = {"close"}
  Operators = {"input"}
  PipeCap = 1
INVARIANTS
  TypeOK
  NoOrphan
  TerminalEventIsLast
PROPERTIES
  NothingSentAfterClose
  CloseReturns
  OpenReturns
  FailureIsNoticed
CHECK_DEADLOCK FALSE
