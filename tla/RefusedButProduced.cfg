SPECIFICATION Spec
CONSTANTS
  Keys = {c1, c2}
  Effects = {e1}
  Outcomes = {o1}
  RefusalIds = {r1}
  Others = {x1}
  MaxEpoch = 2
  Torn = Torn
  None = None
SYMMETRY Symmetry
INVARIANT
  RefusedDidNotHappen
CHECK_DEADLOCK TRUE
