\* An account disconnects and its items are moved to one whose worker has returned.
SPECIFICATION Spec
CONSTANTS
  Jobs = {j1}
  AccountOrder <- TwoAccounts
  Phones = 2
  Invalid = {}
  MaxAttempts = 2
  Runs = {r1}
  Clients = {c1}
  Ops = {"rebalance"}
  Faults = {"offline"}
  RetryBound = 0
  None = None
PROPERTIES
  ConnectedAccountsWork
\* Jobs end: the checker may have nothing left to do.
CHECK_DEADLOCK FALSE
