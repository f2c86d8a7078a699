CONSTANTS
  Accounts = {a, b}
  Calls = {c, d}
  Places = 1
  MaxTenants = 2
  MaxOrders = 2
SPECIFICATION Spec
INVARIANTS
  CohortKept
  OneCheckoutOpen
  ReservationHasOrder
PROPERTIES
  CleanUpSparesPayers
  OrderSettles
CHECK_DEADLOCK FALSE
