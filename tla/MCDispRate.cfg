SPECIFICATION Spec
CONSTANTS
  MinSize = 2
  MaxSize = 8
  RateLimit = 2
  Sizes <- MCSizes
  MaxRequests = 3
PROPERTY RateLimited
