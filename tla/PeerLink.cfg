SPECIFICATION PLSpec
CONSTANTS
  Unmeasured = Unmeasured
  MaxConnections = 2
  MaxCandidates = 2
  MaxUnderway = 2
  Arrivals = {97, 99}
  MaxLost = 3
  MaxPackets = 100
  OtherRatings = {"excellent"}
  MishapKinds = {"offer refused", "quick rejoin", "connection fails", "poll outlives connection"}
  MaxMishaps = 1
CHECK_DEADLOCK FALSE
INVARIANTS
  NoStrayCandidate
  CandidatesArrive
  LossIsOfThisConnection
  WordFitsTheNumbers
