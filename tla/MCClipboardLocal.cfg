SPECIFICATION MCSpec
CONSTANTS
  fileA = fileA
  fileB = fileB
  NoText = NoText
  Texts = {t, u}
  Files = {fileA, fileB}
  FileLists <- MCFileLists
  MaxLocalFiles = 2
  TextId = 13
  OurId = 49340
  ServerIds = {7}
  LockIds = {1}
  MinInterval = 1
  Backoff = 2
  Roots = {r1}
  MaxPending = 2
  MaxUpdates = 2
  ThreadInTime = FALSE
  Letters = {"a"}
  Builds = {TRUE, FALSE}
  MaxLength = 5
CHECK_DEADLOCK FALSE
INVARIANTS OfferIsConsistent NamesAreSanitized
PROPERTIES EchoPrevented LocalSideGoesOn
