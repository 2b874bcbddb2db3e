SPECIFICATION Spec
CONSTANTS
  Gross = 100
  Payees = 2
  Nets <- TwoSplits
  Partial = {}
  Admins = {a1}
  MaxRequests = 0
  MaxAttempts = 1
  MaxRefunds = 1
  MaxDeclines = 0
  MaxTwins = 1
  MaxMishaps = 1
INVARIANT AckedSaleRecorded
CHECK_DEADLOCK FALSE
