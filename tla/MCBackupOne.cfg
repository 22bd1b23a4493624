SPECIFICATION Spec
CONSTANTS
  a = a
  b = b
  NoFolder = NoFolder
  Folders <- OneFolder
  Noselect <- None
  MaxUid = 2
  MaxEpoch = 2
  FlagsChange = TRUE
  FetchChunk = 1
  Modes <- AnyMode
  Scopes <- Unscoped
INVARIANTS TypeOK LabelTrusted CoversWhenCalm MirrorIsExact
