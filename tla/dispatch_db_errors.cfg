\* Database errors end workers and tasks at any step.
SPECIFICATION Spec
CONSTANTS
  Jobs = {j1}
  AccountOrder <- TwoAccounts
  Targets = 2
  Runs = {r1, r2}
  Clients = {c1}
  Ops = {}
  Faults = {"db"}
  JobSlots = 4
  Concurrency = 4
  FloodBound = 0
  None = None
SYMMETRY RunSymmetry
INVARIANTS
  OkMeansDelivered
\* Jobs end: the sender may have nothing left to do.
CHECK_DEADLOCK FALSE
