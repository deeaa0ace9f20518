SPECIFICATION Spec
CONSTANTS
  main = main
  other = other
  admin = admin
  Updates = {1, 2}
  Bots = {main, other}
  Traffic <- OneChat
  Limit = 2
  MaxAttempts = 1
  Restarts <- OneMissing
  MaxRestarts = 1
  MaxTroubles = 1
  Users = {1, 2}
  Known = {1}
  Reach <- OneBlocked
  BatchSize = 1
  ClaimSize = 2
  MaxDeliveries = 2
CHECK_DEADLOCK FALSE
INVARIANTS
  BroadcastInvariant
  OutboxTellsDeliveries
PROPERTIES
  RecordedOnceSentOnce
  ConfirmedReachesAll
