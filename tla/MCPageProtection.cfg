CONSTANTS
  t1 = t1
  t2 = t2
  g1 = g1
  g2 = g2
  g3 = g3
  None = None
  Threads <- MCThreads
  Guards <- MCGuards
  Pages = {1, 2, 3, 4}
  Scenarios <- MCReassigning
  MaxSegments = 3
  MaxFaults = 0
SPECIFICATION Spec
INVARIANTS ReassignRestores
CHECK_DEADLOCK FALSE
