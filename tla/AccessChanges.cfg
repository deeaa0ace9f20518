SPECIFICATION FairSpec
CONSTANTS
  s1 = s1
  e1 = e1
  e2 = e2
  Subscriptions = {s1}
  Existing = {s1}
  Sub = s1
  NoSubscription = none
  Operations <- Changes
  Versions = {2}
  Times = {1}
  Limits = {1}
  Expirers = {e1}
  MaxClock = 2
  MaxFaults = 1
CHECK_DEADLOCK FALSE
INVARIANTS
  AccessInvariant
  JournalIsComplete
PROPERTIES
  ExpirySparesRenewals
  BookingStaysTrue
  VersionTellsPayload
  OverdueEnds
  QuarantineLifts
