SPECIFICATION FairSpec
CONSTANTS
  dir = dir
  Dir = dir
  Contents <- MCContents
  Chunk = 2
  Environments <- MCEnvironments
INVARIANT
  NoLeakedLock
PROPERTIES
  DownloadsAreFaithful
  DownloadEnds
