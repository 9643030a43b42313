SPECIFICATION MCSpec
CONSTANTS
  p1 = p1
  p2 = p2
  Producers <- MCProducers
  Quota <- MCQuota
  Items <- MCItems
  Capacity = 2
  BatchSize = 2
  Budgets = {2}
  Policies = {"DropOldest"}
  Events = {"shutdown", "loader lock"}
  Width = 4
INVARIANTS ShutdownLosesLittle
PROPERTIES WriterFinishes
CHECK_DEADLOCK FALSE
