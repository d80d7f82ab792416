SPECIFICATION MCSpec
CONSTANTS
  U16 = 4
  Sizes <- MCSizes
  Rects <- MCRects
  Pointers = {p1}
  PointerSizes = {0, 2, 3, 5}
  PointerLimit = 3
  Writers = {main, events, clip}
  MaxWrites = 4
CHECK_DEADLOCK FALSE
INVARIANTS HeadersAreExact ViewIsCurrent
PROPERTY MessagesGetOut
