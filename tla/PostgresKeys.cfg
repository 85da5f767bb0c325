SPECIFICATION FairSpec
CONSTANTS
  Sessions = {s1, s2}
  Outcomes = {o1, o2}
  Ids = {i1, i2}
  Epochs = {1}
  None = None
INVARIANT
  TruthfulReply
PROPERTIES
  RowsPermanent
  ImplementsContract
  EveryRequestAnswered
CHECK_DEADLOCK TRUE
