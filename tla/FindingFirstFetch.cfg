SPECIFICATION FairSpec
CONSTANTS
  Bots = {b1}
  Sessions = {n1}
  NoSession = noSession
  MaxPresses = 1
  MaxFaults = 0
CHECK_DEADLOCK FALSE
PROPERTIES
  FirstFetchIsShown
