SPECIFICATION FairSpec
CONSTANTS
  r1 = r1
  r2 = r2
  s1 = s1
  Rewards = {r1, r2}
  Subscription = s1
  Worth <- OneDay
  Term = 1
  Subscriptions = {s1}
  NoSubscription = none
  Operations <- RewardOperations
  Existing = {s1}
  Versions = {}
  Times = {}
  Limits = {}
  MaxClock = 2
  MaxFaults = 1
  MaxEdits = 1
CHECK_DEADLOCK FALSE
INVARIANTS
  RewardInvariant
PROPERTIES
  ReversalTakesOnlyItsGrant
  RewardsSettle
