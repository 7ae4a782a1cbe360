SPECIFICATION Spec
CONSTANTS
  w1 = w1
  m1 = m1
  m2 = m2
  Drivers = {w1, m1, m2}
  MaxTries = 3
  MaxPreferred = 2
CHECK_DEADLOCK FALSE
INVARIANTS
  FallbackBeforeNone
