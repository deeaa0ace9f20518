SPECIFICATION FairSpec
CONSTANTS
  buy = buy
  extend = extend
  upgrade = upgrade
  s1 = s1
  Orders = {buy, extend, upgrade}
  Purchases = {buy}
  SubOf <- OneSub
  Duration <- BoughtTime
  Limit <- BoughtLimit
  Subscriptions = {s1}
  NoSubscription = none
  Operations <- TwoPerOrder
  Existing = {}
  Versions = {}
  Times = {}
  Limits = {}
  MaxFaults = 1
CHECK_DEADLOCK FALSE
INVARIANTS
  RefundInvariant
  OneProviderRefund
  RefundPlanStaysValid
  OthersKeepTheirTime
PROPERTIES
  RefundsEnd
