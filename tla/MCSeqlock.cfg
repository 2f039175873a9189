\* The sequence wraps after two stores; the writer may crash and restart,
\* over an odd sequence too.
CONSTANTS
  r1 = r1
  w1 = w1
  w2 = w2
  Readers = {r1}
  Words = {w1, w2}
  SeqMod = 4
  MaxStores = 3
  MaxCrashes = 2
  InOrder = TRUE
\* A reader spins for ever on the odd sequence of a crashed writer.
CHECK_DEADLOCK FALSE
SPECIFICATION FairSpec
INVARIANTS TypeOK NoLostWakeup ConsistentSnapshot
PROPERTIES AtomicRegister LoadReturns BlockedReaderReturns
