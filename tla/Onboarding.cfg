SPECIFICATION FairSpec
CONSTANTS
  Bots = {b1, b2}
  Sessions = {n1}
  NoSession = noSession
  MaxPresses = 3
  MaxFaults = 1
CHECK_DEADLOCK FALSE
INVARIANTS
  OnboardingInvariant
  RepeatsHaveAReason
PROPERTIES
  CompletedIsTold
