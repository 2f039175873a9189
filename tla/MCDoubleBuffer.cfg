CONSTANTS
  c1 = c1
  c2 = c2
  w1 = w1
  w2 = w2
  Callers = {c1, c2}
  Words = {w1, w2}
  MaxLoads = 2
  MaxStores = 1
SPECIFICATION FairSpec
\* The system stops once the loader is destroyed.
CHECK_DEADLOCK FALSE
INVARIANTS TypeOK FreshAndConsistent StageLostOnlyByOverlap
PROPERTIES TriggerIsServed WaitReturns StopJoins
