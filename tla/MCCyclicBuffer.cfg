CONSTANTS
  r1 = r1
  w1 = w1
  w2 = w2
  Readers = {r1}
  Words = {w1, w2}
  N = 2
  SeqMod = 4
  MaxWrites = 5
  MaxRetries = 1
  MaxCrashes = 1
SPECIFICATION FairSpec
INVARIANTS TypeOK ReadsElement FailsOnlyIfLapped NoLostWakeup
PROPERTIES LatestAlmostMonotonic TryGetReturns ReadersReturn
