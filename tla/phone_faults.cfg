\* Two workers, job requests, crashes and graceful stops.
SPECIFICATION Spec
CONSTANTS
  Jobs = {j1}
  AccountOrder <- TwoAccounts
  Phones = 2
  Invalid = {}
  MaxAttempts = 2
  Runs = {r1, r2}
  Clients = {c1}
  Ops = {"pause", "resume", "cancel"}
  Faults = {"crash", "stop"}
  RetryBound = 1
  None = None
INVARIANTS
  TypeOK
  CountsAddUp
  OneChecker
  ClaimsAreHeld
  CheckerInv
PROPERTIES
  FinishedItemsStay
  JobsSettle
  LiveCancelsEnd
\* Jobs end: the checker may have nothing left to do.
CHECK_DEADLOCK FALSE
