SPECIFICATION Spec
CONSTANTS
  t1 = t1
  t2 = t2
  t3 = t3
  Tasks = {t1, t2, t3}
  Scenarios <- Requests
  FaultBound = 1
  None = None
  Origin = Origin
INVARIANTS
  LifecycleInv
  StatusInv
PROPERTIES
  StartsAreRight
  LifeSettles
CHECK_DEADLOCK FALSE
