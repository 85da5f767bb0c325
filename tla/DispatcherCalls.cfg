SPECIFICATION FairSpec
CONSTANTS
  Daemons = {d1, d2}
  Onces = {o1}
  Boots = {b1, b2}
  MaxEpoch = 2
  MaxCalls = 2
  Backlog = 1
  None = None
INVARIANTS
  TypeOK
  OneEffectOneAnswer
  PathLeadsToDaemon
PROPERTIES
  SupersededNeverRuns
  OneGeneration
  NobodyStarves
CHECK_DEADLOCK FALSE
