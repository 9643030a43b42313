SPECIFICATION MCSpec
CONSTANTS
  t1 = t1
  t2 = t2
  g1 = g1
  g2 = g2
  g3 = g3
  None = None
  Threads = {t1, t2}
  Removers = {r1, r2}
  Stripes = {1, 2}
  StripeOf <- OwnStripe
  Pages = {1, 2}
  Fenced = {2}
  MaxCalls = 2
  MaxChanges = 1
INVARIANTS ShardsAreSound AnswersAreFresh AccessIsGuarded ProtectionIsRestored
PROPERTIES EveryCallReturns
CHECK_DEADLOCK FALSE
