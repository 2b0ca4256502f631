\* Two workers, job requests, crashes and graceful stops.
SPECIFICATION Spec
CONSTANTS
  Jobs = {j1}
  AccountOrder <- TwoAccounts
  Targets = 2
  Runs = {r1, r2}
  Clients = {c1}
  Ops = {"pause", "resume", "cancel"}
  Faults = {"crash", "stop"}
  JobSlots = 4
  Concurrency = 4
  FloodBound = 1
  None = None
SYMMETRY RunSymmetry
INVARIANTS
  TypeOK
  AtMostOnce
  HonestReports
  ClaimsAreHeld
  CompletedIsExact
  UnfinishedHasSecret
  DeliveryInv
PROPERTIES
  FinishedItemsStay
  DeliversAsPromised
\* Jobs end: the sender may have nothing left to do.
CHECK_DEADLOCK FALSE
