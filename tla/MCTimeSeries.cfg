CONSTANTS
  N = 4
  MaxInserts = 6
  MaxKey = 7
  Distances = {1}
  Tolerance = 1
  MIN_NS = 1
  MAX_NS = 5
SPECIFICATION FairSpec
INVARIANTS IndexInRange Recent ClosestExact PairExact SanitizedKeyIsNear
PROPERTIES SearchReturns
