SPECIFICATION Spec
CONSTANTS
  Threads = {t1, t2}
  Products = {p1}
  EventTypes = {sold, graded}
  Imports = TRUE
  Restarts = TRUE
  MaxBlocks = 3
  Genesis = Genesis
  Idle = Idle
INVARIANT TypeOK
INVARIANT LineageSound
INVARIANT HistoriesComplete
PROPERTY ImplementsLog
CHECK_DEADLOCK FALSE
