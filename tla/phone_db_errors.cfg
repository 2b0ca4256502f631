\* Database errors end workers and the task at any step.
SPECIFICATION Spec
CONSTANTS
  Jobs = {j1}
  AccountOrder <- TwoAccounts
  Phones = 2
  Invalid = {}
  MaxAttempts = 1
  Runs = {r1, r2}
  Clients = {c1}
  Ops = {}
  Faults = {"db"}
  RetryBound = 0
  None = None
SYMMETRY RunSymmetry
INVARIANTS
  AccountsAddUp
\* Jobs end: the checker may have nothing left to do.
CHECK_DEADLOCK FALSE
