SPECIFICATION MCSpec
CONSTANTS
  None = None
  u1 = u1
  u2 = u2
  h1 = h1
  h2 = h2
  h3 = h3
  o1 = o1
  o2 = o2
  b1 = b1
  b2 = b2
  b3 = b3
  x = x
  y = y
  Targets = {t1}
  Threads = {a, b, c}
  MaxId = 4
INVARIANTS PatchesAreSound LiveHooksAreReached VtablesAreSound
PROPERTIES EveryoneGetsTheSlot TablesUnwind
CHECK_DEADLOCK FALSE
