CONSTANTS
  p1 = p1
  p2 = p2
  c1 = c1
  c2 = c2
  c3 = c3
  w1 = w1
  w2 = w2
  Producers = {p1, p2}
  Consumers = {c1, c2, c3}
  Threads = {p2, c2, c3}
  Words = {w1, w2}
  MaxItems = 4
  MaxLosses = 1
SPECIFICATION FairSpec
\* Everybody may end up waiting: nothing is produced any more, the token is
\* lost, or a thread waits with the interpreter lock.
CHECK_DEADLOCK FALSE
INVARIANTS OneToken ImageWhole
PROPERTIES IsChannel Handover
