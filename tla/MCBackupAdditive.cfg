SPECIFICATION Spec
CONSTANTS
  a = a
  b = b
  NoFolder = NoFolder
  Folders <- OneFolder
  Noselect <- None
  MaxUid = 1
  MaxEpoch = 1
  FlagsChange = FALSE
  FetchChunk = 1
  Modes <- AnyMode
  Scopes <- Unscoped
PROPERTY AdditiveKeeps
