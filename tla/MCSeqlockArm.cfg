\* ARM64: only acquire and release order the accesses.
CONSTANTS
  r1 = r1
  w1 = w1
  w2 = w2
  Readers = {r1}
  Words = {w1, w2}
  SeqMod = 8
  MaxStores = 2
  MaxCrashes = 0
  InOrder = FALSE
SPECIFICATION Spec
INVARIANTS ConsistentSnapshot
