SPECIFICATION Spec
CONSTANTS
  Keys = {k1, k2}
  Callers = {c1, c2}
  Capacity = 4
  Refill = 2
  Cost = 3
  SweepAt = 1
  IdleLimit = 3
  MaxStall = 1
  MaxClock = 5
SYMMETRY MCSymmetry
INVARIANTS RateBound NeverInDebt
PROPERTIES RetryAfterHonest
