SPECIFICATION Spec
CONSTANTS
  Apps = {a, b}
  CanShare = {a}
  CanWatch = {a, b}
  Sessions = {s1, s2}
  RoomIds = {r1}
  None = None
  MaxViewers = 1
  MaxStarts = 2
  MaxJoins = 2
  MaxLeaves = 1
  Mishaps = {"both roles"}
  MaxMishaps = 1
CHECK_DEADLOCK FALSE
INVARIANTS
  ShareOutlivesScreens
