SPECIFICATION MCSpec
CONSTANTS
  Nil = Nil
  u1 = u1
  u2 = u2
  a = a
  lb = lb
  rb = rb
  lt = lt
  ctrl = ctrl
  lctrl = lctrl
  wup = wup
  Threads = {t1, t2}
  Dispatchers = {d1, d2}
  Subscriptions = {s1, s2}
  MaxDepth = 2
  MaxClears = 1
  OutOfMemory = TRUE
SYMMETRY Symmetry
INVARIANTS HandlersAreExact InterceptIsSound CaughtStaysHidden
PROPERTIES RemovedStaysRemoved
CHECK_DEADLOCK FALSE
