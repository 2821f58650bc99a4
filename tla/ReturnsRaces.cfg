SPECIFICATION Spec
CONSTANTS
  Lambdas = {l1, l2}
  Orders = {o1}
  Users = {u1, u2}
  ReturnIds = {r1}
  Products = {"p-low"}
  Locations = {TRUE}
  QueryPrices = {}
  RouteDistances = {52}
  LockerDistances = {15}
  Retries = TRUE
  OrderRows <- MCOrderRows
  NoId = NoId
  NoQuery = NoQuery
  NoOrder = NoOrder
  NoSeller = NoSeller
  NoReturn = NoReturn
  NoCredit = NoCredit
  Idle = Idle
SYMMETRY Symmetry
INVARIANT TypeOK
INVARIANT PairsAgree
INVARIANT CreditHasReturn
INVARIANT MetricsMatchReturns
CHECK_DEADLOCK FALSE
