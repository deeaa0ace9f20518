SPECIFICATION DeviceSpec
CONSTANTS
  Identities = {d1, d2}
  NoIdentity = nobody
  Keys = {k1, k2}
  NoKey = noKey
  Rows = {r1, r2, r3, l1, l2}
  Links = {l1, l2}
  NoRow = noRow
  Requests = {q1, q2}
  MaxLimit = 2
  AnyKeys = FALSE
SYMMETRY DeviceSymmetry
INVARIANTS
  DeviceInvariant
  DevicesAreDistinct
PROPERTIES
  RevokedNeedsSlot
  LinkKeepsDevice
