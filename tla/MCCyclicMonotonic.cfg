\* The writer stays alive, as in the test.
CONSTANTS
  r1 = r1
  w1 = w1
  Readers = {r1}
  Words = {w1}
  N = 2
  SeqMod = 8
  MaxWrites = 4
  MaxRetries = 1
  MaxCrashes = 0
SPECIFICATION Spec
PROPERTIES LatestMonotonic
