SPECIFICATION Spec
SYMMETRY AnyAdmin
CONSTANTS
  Gross = 100
  Payees = 2
  Nets <- TwoSplits
  Partial = {1}
  Admins = {a1, a2}
  MaxRequests = 2
  MaxAttempts = 2
  MaxRefunds = 2
  MaxDeclines = 1
  MaxTwins = 2
  MaxMishaps = 1
INVARIANTS
  MoneyFirst
  BooksNotAheadOfStripe
  ReversalBacked
  LedgerBalanced
  KeyFresh
CHECK_DEADLOCK FALSE
