SPECIFICATION FairSpec
CONSTANTS
  Apps = {a, b, c}
  CanShare = {a}
  CanWatch = {b, c}
  Sessions = {s1, s2, s3}
  RoomIds = {r1}
  None = None
  MaxViewers = 2
  MaxStarts = 1
  MaxJoins = 1
  MaxLeaves = 1
  Mishaps = {"connection fails"}
  MaxMishaps = 1
CHECK_DEADLOCK FALSE
INVARIANTS
  ConnectionsMatchRoom
PROPERTIES
  EveryJoinSettles
