SPECIFICATION Spec
CONSTANTS
  Outcomes = {o1, o2}
  Ids = {i1, i2}
  Epochs = {0, 1, 2}
  None = None
  MaxBoots = 2
SYMMETRY Symmetry
INVARIANTS
  TypeOK
  IndexesAgree
PROPERTIES
  RefusalSettles
  ImplementsContract
CHECK_DEADLOCK TRUE
