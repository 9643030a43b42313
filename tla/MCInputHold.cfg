SPECIFICATION FairSpec
CONSTANTS
  g1 = g1
  g2 = g2
  n1 = n1
  n2 = n2
  k1 = k1
  k2 = k2
  Combos = {k1, k2}
  Poller = poll
  Gates = {g1, g2}
  Names = {n1, n2}
  NameOf <- OwnNames
  Callers = {c1, c2}
  Programs <- HoldPrograms
  MaxDepth = 3
  MaxGeneration = 2
  MaxFailures = 0
INVARIANTS HoldsAreExact
PROPERTIES ShutdownEnds
CHECK_DEADLOCK FALSE
