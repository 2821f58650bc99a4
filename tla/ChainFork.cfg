SPECIFICATION Spec
CONSTANTS
  Threads = {t1, t2}
  Products = {p1}
  EventTypes = {sold}
  Imports = FALSE
  Restarts = FALSE
  MaxBlocks = 4
  Genesis = Genesis
  Idle = Idle
INVARIANT UntamperedVerifies
CHECK_DEADLOCK FALSE
