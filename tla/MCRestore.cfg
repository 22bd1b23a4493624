SPECIFICATION FairSpec
CONSTANTS
  a = a
  b = b
  m = m
  n = n
  NoMid = NoMid
  NoFolder = NoFolder
  Folders <- TwoFolders
  Mids <- TwoMids
  Archives <- Backups
  Scopes <- AllOrB
  Foreign <- OthersPutN
INVARIANTS TypeOK NoDuplicates Complete DryRunHonest
PROPERTY RestoreEnds
