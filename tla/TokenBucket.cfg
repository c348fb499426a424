SPECIFICATION TBSpec
CONSTANTS
  Unit = 5
  Rate = 2
  Burst = 3
  MaxTime = 8
INVARIANTS
  AllowanceBound
  NotStarved
