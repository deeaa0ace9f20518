SPECIFICATION Spec
CONSTANTS
  Orders = {q1, q2}
  NoOrder = noOrder
  Charges = {c1, c2}
  NoCharge = noCharge
  Free = {q2}
  MaxUses = 1
  QuoteTtl = 1
  OrderTtl = 1
  Grace = 1
  MaxClock = 2
  MaxBusy = 2
CHECK_DEADLOCK FALSE
INVARIANT AcceptedMoneyIsOwed
