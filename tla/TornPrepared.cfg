SPECIFICATION Spec
CONSTANTS
  Keys = {c1, c2}
  Effects = {e1}
  Adapters = {"idempotent", "attached"}
  MaxEpoch = 2
  Torn = Torn
  None = None
SYMMETRY Symmetry
INVARIANT
  PreparedDurable
CHECK_DEADLOCK FALSE
