CONSTANTS
  a1 = a1
  o1 = o1
  o2 = o2
  r1 = r1
  r2 = r2
  Accounts = {a1}
  Orders = {o1, o2}
  Requests = {r1, r2}
  Owner <- SingleOwner
  TopUp = 3
  Models <- MCModels
  Reports <- MCReports
  NoUsage = NoUsage
SPECIFICATION Spec
INVARIANTS
  Conservation
  ReservedIsHeld
  ReserveBacked
  QuarantineVisible
  HoldCoversUsage
PROPERTIES
  ChargedOnce
  KeepsPromise
  StaleResolved
