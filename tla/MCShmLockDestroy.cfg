\* Every user destroys the lock when it is done with it.
CONSTANTS
  p1 = p1
  p2 = p2
  Procs = {p1, p2}
  MaxFiles = 2
  MaxCrashes = 0
  DestroyAlone = FALSE
SPECIFICATION Spec
CHECK_DEADLOCK FALSE
INVARIANTS MutualExclusion
