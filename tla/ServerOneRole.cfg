SPECIFICATION SSFairSpec
CONSTANTS
  Sessions = {s1, s2, s3}
  RoomIds = {r1, r2}
  None = None
  MaxViewers = 2
  OneRole = TRUE
CHECK_DEADLOCK FALSE
INVARIANTS
  IndexComplete
  MembershipAgrees
  SignalsBetweenAcquainted
PROPERTIES
  EndedRoomIsTold
  ImplementsLobby
  VanishedIsForgotten
