SPECIFICATION BothSpec
CONSTANTS
  a = a
  NoFolder = NoFolder
  Folders <- OneFolder
  Noselect <- None
  MaxUid = 1
  MaxEpoch = 2
  FlagsChange = TRUE
  FetchChunk = 1
  Excludes <- NothingExcluded
INVARIANT HealedAlone
