SPECIFICATION Spec
CONSTANTS
  dir = dir
  Dir = dir
  Contents <- MCContents
  Chunk = 2
  Environments <- RouteEnvironments
PROPERTY AnswerReachesItsReader
