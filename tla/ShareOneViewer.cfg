SPECIFICATION Spec
CONSTANTS
  Apps = {a, b}
  CanShare = {a}
  CanWatch = {b}
  Sessions = {s1, s2, s3}
  RoomIds = {r1, r2}
  None = None
  MaxViewers = 1
  MaxStarts = 2
  MaxJoins = 2
  MaxLeaves = 1
  Mishaps = {"drop", "start over error", "stop in picker", "early end", "connection fails", "offer refused", "quick rejoin"}
  MaxMishaps = 1
SYMMETRY Symmetry
CHECK_DEADLOCK FALSE
INVARIANTS
  LiveMeansCapturing
  NoOrphanCapture
  StoppedMeansStopped
  ConnectionsMatchRoom
  WaitingMeansConnecting
  AwayMeansOut
  AnswersMeetTheirOffers
  HeardOnce
