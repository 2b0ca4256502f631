\* A job is cancelled before the runner has taken it.
SPECIFICATION Spec
CONSTANTS
  Jobs = {j1}
  AccountOrder <- OneAccount
  Targets = 1
  Runs = {r1, r2}
  Clients = {c1}
  Ops = {"cancel"}
  Faults = {}
  JobSlots = 4
  Concurrency = 4
  FloodBound = 1
  None = None
PROPERTIES
  CancelsEnd
\* Jobs end: the sender may have nothing left to do.
CHECK_DEADLOCK FALSE
