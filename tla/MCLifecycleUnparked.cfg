CONSTANTS
  w1 = w1
  w2 = w2
  Workers = {w1}
  NoWorker = NoWorker
  PeriodEnds = {1}
  Grace = 1
  Retention = 1
  Original = Original
  Parked = Parked
  NoPlan = NoPlan
  Never = 0
  MaxNow = 2
  MaxFaults = 0
SPECIFICATION Spec
PROPERTIES
  UnpaidIsParked
CHECK_DEADLOCK FALSE
