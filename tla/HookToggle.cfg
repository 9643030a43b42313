CONSTANTS
  Targets = {t1}
  Threads = {a, b}
  MaxId = 3
SPECIFICATION UnrestrictedSpec
INVARIANT UntrackedIsPristine
CHECK_DEADLOCK FALSE
