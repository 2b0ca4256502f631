\* A worker with two items, requests, crashes and lost connections.
SPECIFICATION Spec
CONSTANTS
  Jobs = {j1}
  AccountOrder <- OneAccount
  Targets = 2
  Runs = {r1, r2}
  Clients = {c1}
  Ops = {"pause", "resume", "cancel"}
  Faults = {"crash", "offline"}
  JobSlots = 4
  Concurrency = 4
  FloodBound = 1
  None = None
PROPERTIES
  JobsSettle
  LiveCancelsEnd
\* Jobs end: the sender may have nothing left to do.
CHECK_DEADLOCK FALSE
