SPECIFICATION Spec
CONSTANTS
  g1 = g1
  g2 = g2
  n1 = n1
  n2 = n2
  k1 = k1
  k2 = k2
  Combos = {k1, k2}
  Poller = poll
  Gates = {g1}
  Names = {n1}
  NameOf <- OwnNames
  Callers = {c1, c2}
  Programs <- ReshapePrograms
  MaxDepth = 3
  MaxGeneration = 2
  MaxFailures = 1
SYMMETRY Symmetry
INVARIANTS ReleaseIsExact
PROPERTIES CallbacksAreOrderly
CHECK_DEADLOCK FALSE
