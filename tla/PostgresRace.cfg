SPECIFICATION Spec
CONSTANTS
  Sessions = {s1, s2, s3}
  Outcomes = {o1}
  Ids = {i1, i2}
  Epochs = {0, 1}
  None = None
SYMMETRY Symmetry
INVARIANTS
  TypeOK
  RefusalExcludesEffect
  RefusalPinsFence
  TruthfulReply
PROPERTIES
  FenceMonotone
  ProducedUnderFence
CHECK_DEADLOCK TRUE
