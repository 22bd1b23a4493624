\* Each command by itself: it comes to an end, and documents are of bounded
\* depth, so that the system may stop.
SPECIFICATION Spec
CONSTANTS
  a = a
  b = b
  p = p
  q = q
  MaxMail = 3
  MaxId = 3
  MaxWrites = 2
  WordScores = {0, 1, 2}
  Nearnesses = {0, 1}
  hybridPool = 2
  rrfK = 60
  Limits = {2}
  Wanteds <- AllButOne
  Boxes <- TwoBoxes
  MaxMsgUid = 3
  Days = {1, 2}
  Answers <- Some
  ListLimits = {0, 2}
  MaxDepth = 5
  MaxAccount = 2
  People <- TwoPeople
  Settings <- SomeSettings
  Orders <- SomeOrders
  MaxCommands = 2
INVARIANTS TypeOK RightHits NewestShown Tracks LoadedIsUsable SentAsReported
CHECK_DEADLOCK FALSE
