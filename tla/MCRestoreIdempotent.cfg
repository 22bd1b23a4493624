SPECIFICATION Spec
CONSTANTS
  a = a
  b = b
  m = m
  n = n
  NoMid = NoMid
  NoFolder = NoFolder
  Folders <- TwoFolders
  Mids <- TwoMids
  Archives <- OneBackup
  Scopes <- AllOrB
  Foreign <- OthersPutN
INVARIANT Idempotent
