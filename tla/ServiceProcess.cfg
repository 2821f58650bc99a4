SPECIFICATION Spec
CONSTANTS
  Orders = {o1}
  Vehicles = {v1}
  Tickers = {t1, t2}
  Levels = {0, 15, 50, 85, 99, 100}
  MaxAlerts = 1
  Idle = Idle
  Readers = {r1, r2}
  Startup = s
  TTL = 2
  MaxClock = 5
  MaxEdits = 2
  MaxOutages = 2
  u1 = u1
  u2 = u2
  d1 = d1
  d2 = d2
  home = home
  unit1 = unit1
  Threads = {q1, q2}
  Users = {u1, u2}
  Tables <- MCTables
  NoMark = NoMark
  ScanLimit = 4
  Fitters = {f1, f2}
  Photos = {ann, noise}
  BadPhotos = {noise}
  Garments = {hoodie, phone}
  Apparel = {hoodie}
  Sizes = {"M", "L"}
  MaxSecond = 1
  MaxDrapes = 1
  Repairers = {w1, w2}
  UnitIds = {unit1}
  Regrades = {"B", "D", "refurbished"}
  TypedGtins <- MCGtins
  Items <- MCItems
  Prices = {4999, 5000, 10000, 10001}
  Scenarios <- MCScenarios
  MaxCapacity = 5
  PopSize = 3
  RandomGenomes <- MCGenomes
  Drifts = {0}
  Mutations <- MCMutations
  Asked = {0, 2}
  Points <- MCPoints
  Chromosomes <- MCChromosomes
  Size = 3
  AskedRounds = {0}
  DefaultGenerations = 2
  MaxMutated = 1
INVARIANTS OnTheWayHasVehicle OnlyOverlapsMisjudge TryOnsOwn RepairsAgree SlipsAreNoCounterfeits OnlyRealTiesCount
INVARIANTS RoutesSound PlanHonest SeedsNeverBeaten SearchSound
PROPERTIES OnlyOverlapsUndo CatalogSettles ExtremesSurvive
CHECK_DEADLOCK FALSE
