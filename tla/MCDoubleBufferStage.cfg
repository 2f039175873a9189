CONSTANTS
  c1 = c1
  w1 = w1
  Callers = {c1}
  Words = {w1}
  MaxLoads = 2
  MaxStores = 1
SPECIFICATION Spec
CHECK_DEADLOCK FALSE
INVARIANTS StageNotNull
