SPECIFICATION Spec
CONSTANTS
  fileA = fileA
  fileB = fileB
  NoText = NoText
  Texts = {t, u}
  Files = {fileA, fileB}
  FileLists <- MCFileLists
  MaxLocalFiles = 2
  TextId = 13
  OurId = 49340
  ServerIds = {7}
  LockIds = {1}
  MinInterval = 1
  Backoff = 2
PROPERTY CountsTheFileRead
