SPECIFICATION Spec
CONSTANTS
  Lambdas = {l1}
  Orders = {o1}
  Users = {u1}
  ReturnIds = {r1}
  Products = {"p-low"}
  Locations = {TRUE}
  QueryPrices = {}
  RouteDistances = {52}
  LockerDistances = {15}
  Retries = FALSE
  OrderRows <- MCOrderRows
  NoId = NoId
  NoQuery = NoQuery
  NoOrder = NoOrder
  NoSeller = NoSeller
  NoReturn = NoReturn
  NoCredit = NoCredit
  Idle = Idle
INVARIANT CheapReturnsMatched
CHECK_DEADLOCK FALSE
