SPECIFICATION FairSpec
CONSTANTS
  Keys = {c1, c2}
  Effects = {e1}
  Adapters = {"idempotent", "attached"}
  MaxEpoch = 3
  Torn = Torn
  None = None
INVARIANTS
  TypeOK
  IntentAhead
  CommittedTrue
PROPERTIES
  ImplementsLedger
  NothingAskedTooLate
  RecoveryConverges
CHECK_DEADLOCK FALSE
