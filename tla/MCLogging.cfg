SPECIFICATION MCSpec
CONSTANTS
  Threads = {a, b, c}
  Messages = {m1, m2}
  Capacity = 2
  MaxPushes = 3
  Null = Null
  p1 = p1
  p2 = p2
  t1 = t1
  t2 = t2
  t3 = t3
  o1 = o1
  o2 = o2
  o3 = o3
SYMMETRY Symmetry
INVARIANTS SlotExclusion MessagesAreAccounted StringsAreOwned AcceptedIsDelivered SamplesAreWhole
PROPERTIES QueueContract FlushIsTruthful
CHECK_DEADLOCK FALSE
