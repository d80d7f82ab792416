SPECIFICATION MCSpec
CONSTANTS
  MaxConnections = 3
  Sessions = {s1, s2}
  Closers = {c1, c2}
  Manager = m
CHECK_DEADLOCK FALSE
INVARIANTS WorkersAreOwned OneEnds InstancesAreKept
PROPERTIES NothingOutlivesShutdown ConnectionsDoNotMix NativeSideGoesOn
