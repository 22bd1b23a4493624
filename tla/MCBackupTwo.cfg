SPECIFICATION FairSpec
CONSTANTS
  a = a
  b = b
  NoFolder = NoFolder
  Folders <- TwoFolders
  Noselect <- None
  MaxUid = 1
  MaxEpoch = 1
  FlagsChange = FALSE
  FetchChunk = 1
  Modes <- AnyMode
  Scopes <- AllOrA
INVARIANT ManifestReadable
PROPERTY BackupIsCopy RunEnds
