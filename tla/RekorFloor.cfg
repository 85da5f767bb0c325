SPECIFICATION Spec
CONSTANTS
  Principals = {alice}
  Domains = {docs}
  Actions = {READ, WRITE}
  Governances <- MCGovernances
  None = None
  Caps = {c1, c2}
  Effects = {e1}
  Boots = {b1, b2}
  Durable = FALSE
  MaxSeq = 3
  MaxEpoch = 2
  MaxCrashes = 1
  docs = docs
  root = root
INVARIANTS
  AcceptedIsNewest
