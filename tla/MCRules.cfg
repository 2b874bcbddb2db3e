SPECIFICATION RulesSpec
CONSTANTS
  Totals <- SmallTotals
  WeightLists <- SmallWeights
  GrossAmounts <- SmallGross
  rule1 = rule1
  rule2 = rule2
  rule3 = rule3
  RuleIds = {rule1, rule2, rule3}
  RuleRows <- SmallRules
  Carts <- SmallCarts
  EventDay = 7
  Payees = {ann, bob}
  Photos = {p1, p2, p3}
  OrderLines <- SmallLines
  MaxLines = 2
  Discounts = {0, 7}
  Percents = {0, 30}
  Nobody = nobody
  Scale = 6
INVARIANTS
  FairSplit
  QuoteSound
  SplitEarned
PROPERTY Returns
CHECK_DEADLOCK FALSE
