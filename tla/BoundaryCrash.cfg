SPECIFICATION FairSpec
CONSTANTS
  Keys = {c1, c2}
  Effects = {e1, e2}
  Outcomes = {o1}
  RefusalIds = {r1}
  Others = {x1}
  MaxEpoch = 2
  Torn = Torn
  None = None
INVARIANTS
  TypeOK
  WriteAhead
  NoneForgotten
  JournalTrue
  SealedNeverProduced
PROPERTIES
  RecoveryConverges
  AuthorityObeysContract
CHECK_DEADLOCK TRUE
