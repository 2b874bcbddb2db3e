SPECIFICATION PagesSpec
CONSTANTS
  Lists = {"audit"}
  Rows = {1, 2, 3}
  MaxTick = 2
  TicksPerMs = 1
  Severity = 1
  MaxFlags = 1
  Limits = {1, 2}
INVARIANT TiesPaginate
CHECK_DEADLOCK FALSE
