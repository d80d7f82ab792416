SPECIFICATION Spec
CONSTANTS
  Pixel = {"black", "red", "blue"}
  Black = "black"
  MaxDim = 2
  Openers = {}
  Shooters = {s1}
  Resizers = {}
  Viewers = {v1}
  Sizes <- MCSizes
  Bitmaps <- MCBitmaps
  Target <- MCTarget
  MaxVersion = 3
INVARIANTS
  TypeOK
  NeverPoisoned
  FramebufferMatches
  KeyIdentifiesPixels
  NoBlankScreenshot
PROPERTIES
  SentPartIsCurrent
  StoppedIsFinal
