CONSTANTS
  w1 = w1
  w2 = w2
  Workers = {w1, w2}
  NoWorker = NoWorker
  PeriodEnds = {1, 3}
  Grace = 1
  Retention = 1
  Original = Original
  Parked = Parked
  NoPlan = NoPlan
  Never = 0
  MaxNow = 2
  MaxFaults = 1
SPECIFICATION Spec
SYMMETRY Symmetry
INVARIANTS
  PlanIsSaved
  ServesOnItsPlan
  NoRace
PROPERTIES
  RetentionKept
CHECK_DEADLOCK FALSE
