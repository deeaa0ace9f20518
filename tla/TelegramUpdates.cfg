SPECIFICATION InboxSpec
CONSTANTS
  main = main
  other = other
  alice = alice
  bob = bob
  Updates = {1, 2}
  Bots = {main, other}
  Traffic <- ThreeTraffics
  Limit = 2
  MaxAttempts = 2
  Restarts <- TwoRestarts
  MaxRestarts = 1
  MaxTroubles = 2
CHECK_DEADLOCK FALSE
INVARIANTS
  InboxInvariant
  RepeatedOnlyAfterLapse
PROPERTIES
  TakenInOrder
  EveryUpdateEnds
