SPECIFICATION Spec
CONSTANTS
  MaxSales = 2
  MaxRefunds = 1
  Amounts = {1}
  Runs = {r1, r2}
  Hooks = {h1}
  OpenedAt = 0
  MaxClock = 3
  MaxFaults = 1
  MaxRetries = 1
  MaxReversals = 1
INVARIANTS
  SettledPosted
  ReversalEarned
  PostedOnTransfer
  NeverOverpaid
  PendingOwned
CHECK_DEADLOCK FALSE
