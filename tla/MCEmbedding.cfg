\* Two processes that embed, and syncs that write three times.
SPECIFICATION FairSpec
CONSTANTS
  p1 = p1
  p2 = p2
  k1 = k1
  k2 = k2
  t1 = t1
  t2 = t2
  v1 = v1
  v2 = v2
  Procs <- TwoProcs
  Keys <- TwoKeys
  Texts <- TwoTexts
  Models <- TwoModels
  NoRow = NoRow
  NoVec = NoVec
  Statements = 2
  Batch = 1
  MaxId = 2
  MaxWrites = 3
INVARIANTS TypeOK SchemaWhole VectorsFit FullyEmbedded
PROPERTY EmbedEnds
