SPECIFICATION FairSpec
CONSTANTS
  Pixel = {"black", "red"}
  Black = "black"
  MaxDim = 2
  Openers = {o1}
  Shooters = {s1}
  Resizers = {r1}
  Viewers = {}
  Sizes <- MCSizes
  Bitmaps <- MCOneBitmap
  Target <- MCTarget
  MaxVersion = 1
INVARIANTS
  NoMissedWakeup
PROPERTIES
  StatusOnlyAdvances
  CallsReturn
