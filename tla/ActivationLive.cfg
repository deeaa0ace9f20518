SPECIFICATION FairSpec
CONSTANTS
  o1 = o1
  o2 = o2
  s1 = s1
  u1 = u1
  Operations = {o1, o2}
  Subscriptions = {s1}
  NoSubscription = none
  NoOrder = noOrder
  Existing = {}
  Versions = {1}
  Times = {2}
  Limits = {1}
  Target <- BuyThenExtend
  Duration <- AllOneDay
  RequestedLimit <- AllOneDevice
  Users = {u1}
  UserOf <- AllUserOne
  Activators = {a1}
  Recoverers = {r1}
  Reconciled = {s1}
  MaxTries = 2
  Overrun = FALSE
  MaxClock = 0
  MaxFaults = 1
  MaxEdits = 1
CHECK_DEADLOCK FALSE
INVARIANTS
  LeaseExcludes
PROPERTIES
  DeliverySpec
  PaidOrdersEventuallyClosed
  GrantAddsDuration
