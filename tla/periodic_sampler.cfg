SPECIFICATION Spec
CONSTANTS
  Callers = {c1, c2}
  Requests = {r1, r2}
  SamplingStates = {s1, s2, s3, s4}
  Limit = 1
  Interval = 2
  StartTime = 3
  MaxTime = 8
  None = None
INVARIANTS
  TypeOK
  NoPeriodSwallowed
  OneStatePerCaller
PROPERTIES
  OneGrantPerPeriod
  RefusedForGood
SYMMETRY MCSymmetry
CHECK_DEADLOCK FALSE
