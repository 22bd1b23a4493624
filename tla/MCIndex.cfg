\* A folder of two messages that comes and goes, changes its UIDVALIDITY and is
\* sometimes excluded; syncs stopped anywhere.
SPECIFICATION FairSpec
CONSTANTS
  a = a
  NoFolder = NoFolder
  Folders <- OneFolder
  Noselect <- None
  MaxUid = 2
  MaxEpoch = 2
  FlagsChange = TRUE
  FetchChunk = 1
  Excludes <- MaybeA
INVARIANTS TypeOK LabelTrusted NoOrphans InLine OnlyWanted
PROPERTY IndexIsCopy SyncEnds
