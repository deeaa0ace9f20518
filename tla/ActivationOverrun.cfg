SPECIFICATION Spec
CONSTANTS
  o1 = o1
  o2 = o2
  s1 = s1
  u1 = u1
  Operations = {o1, o2}
  Subscriptions = {s1}
  NoSubscription = none
  NoOrder = noOrder
  Existing = {}
  Versions = {1}
  Times = {1, 2}
  Limits = {1}
  Target <- BuyThenExtend
  Duration <- AllOneDay
  RequestedLimit <- AllOneDevice
  Users = {u1}
  UserOf <- AllUserOne
  Activators = {a1}
  Recoverers = {r1}
  Reconciled = {s1}
  MaxTries = 2
  Overrun = TRUE
  MaxClock = 1
  MaxFaults = 1
  MaxEdits = 0
CHECK_DEADLOCK FALSE
INVARIANTS
  OrderInvariant
  BooksAreTrue
PROPERTIES
  MirrorNeverGoesBack
