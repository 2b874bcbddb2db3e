SPECIFICATION Spec
CONSTANTS
  Gross = 100
  Payees = 2
  Nets <- TwoSplits
  Partial = {}
  Admins = {a1}
  MaxRequests = 0
  MaxAttempts = 1
  MaxRefunds = 1
  MaxDeclines = 1
  MaxTwins = 2
  MaxMishaps = 4
PROPERTIES
  EventsDrain
  SaleSettles
CHECK_DEADLOCK FALSE
