\* Accounts come and go, and their items are moved while workers run.
SPECIFICATION Spec
CONSTANTS
  Jobs = {j1}
  AccountOrder <- TwoAccounts
  Phones = 3
  Invalid = {2}
  MaxAttempts = 1
  Runs = {r1}
  Clients = {c1}
  Ops = {"rebalance"}
  Faults = {"offline"}
  RetryBound = 0
  None = None
INVARIANTS
  MovingInv
  CompletedIsExact
\* Jobs end: the checker may have nothing left to do.
CHECK_DEADLOCK FALSE
