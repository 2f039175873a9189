CONSTANTS
  Pids = {1, 2}
  Foreign = {2}
  MaxStale = 1
  TimeMod = 16
  Boot = 2
  MaxTime = 4
  MaxFiles = 2
  MaxSpawns = 2
SPECIFICATION Spec
INVARIANTS TypeOK DeathIsNoticed LifeIsNoticed
PROPERTIES HeartbeatForward
\* The clock and the number of processes are bounded.
CHECK_DEADLOCK FALSE
