SPECIFICATION Spec
CONSTANTS
  Lambdas = {l1, l2}
  ListingIds = {i1}
  Users = {u1, u2}
  NoUser = NoUser
  OtherStatuses = {"available"}
  ServiceActions = {"inspected"}
  MaxBlocks = 3
  LaggingReads = TRUE
  Retries = TRUE
  NoItem = NoItem
  Idle = Idle
SYMMETRY Symmetry
INVARIANT TypeOK
INVARIANT PassportsSound
PROPERTY OnlyStaleWritesBreakLifecycle
CHECK_DEADLOCK FALSE
