SPECIFICATION SSSpec
CONSTANTS
  Sessions = {s1, s2, s3}
  RoomIds = {r1, r2}
  None = None
  MaxViewers = 1
  OneRole = FALSE
SYMMETRY Symmetry
CHECK_DEADLOCK FALSE
INVARIANTS
  IndexSound
  ViewerCap
