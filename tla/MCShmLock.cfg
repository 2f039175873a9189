CONSTANTS
  p1 = p1
  p2 = p2
  p3 = p3
  p4 = p4
  Procs = {p1, p2, p3, p4}
  MaxFiles = 2
  MaxCrashes = 1
  DestroyAlone = TRUE
SPECIFICATION FairSpec
\* A process that dies with the lock leaves everybody else asleep.
CHECK_DEADLOCK FALSE
INVARIANTS TypeOK NoLostWakeup
PROPERTIES IsMutex LockProgress
