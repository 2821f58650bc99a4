SPECIFICATION Spec
CONSTANTS
  Workers = {w1, w2}
  ListingIds = {lst1}
  PutStatuses = {"advance", "sold"}
  LaggingReads = TRUE
  Retries = TRUE
  FreshIds = FALSE
  NoItem = NoItem
  Idle = Idle
SYMMETRY Symmetry
INVARIANT TypeOK
INVARIANT EscrowFollowsStatus
PROPERTY OnlyStaleAdvancesBreakCycle
PROPERTY FundsHeld
CHECK_DEADLOCK FALSE
