\* A worker outlives its run after a database error elsewhere.
SPECIFICATION Spec
CONSTANTS
  Jobs = {j1}
  AccountOrder <- TwoAccounts
  Targets = 2
  Runs = {r1, r2}
  Clients = {c1}
  Ops = {}
  Faults = {"db"}
  JobSlots = 4
  Concurrency = 4
  FloodBound = 1
  None = None
SYMMETRY RunSymmetry
INVARIANTS
  AtMostOnce
\* Jobs end: the sender may have nothing left to do.
CHECK_DEADLOCK FALSE
