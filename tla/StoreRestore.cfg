SPECIFICATION Spec
CONSTANTS
  Principals = {alice, bob}
  Domains = {docs}
  Actions = {READ, WRITE}
  Governances <- MCGovernances
  None = None
  Caps = {c1, c2}
  Effects = {e1, e2}
  Boots = {b1, b2}
  Durable = TRUE
  MaxSeq = 3
  MaxEpoch = 2
  MaxCrashes = 1
  docs = docs
  root = root
SYMMETRY Symmetry
INVARIANTS
  TypeOK
  AcceptedIsNewest
  AtMostOnce
  VerifiedIsPermitted
PROPERTIES
  RefusedStaysRefused
  AuthorityShrinks
  LossIsOwn
