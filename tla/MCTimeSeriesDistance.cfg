\* The writer comes round to the slot that find_closest() has settled on.
CONSTANTS
  N = 2
  MaxInserts = 3
  MaxKey = 4
  Distances = {1}
  Tolerance = 1
  MIN_NS = 1
  MAX_NS = 3
SPECIFICATION Spec
INVARIANTS WithinDistance
