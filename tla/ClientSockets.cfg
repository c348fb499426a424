SPECIFICATION SCFairSpec
CONSTANTS
  Sockets = {k1, k2, k3}
  Timers = {t1, t2, t3}
  None = None
  MaxAttempts = 3
  MaxConnects = 3
  MishapKinds = {"connect while closing", "connect while reconnecting"}
  MaxMishaps = 2
INVARIANTS
  OneConnection
  ConnectedCanSend
  OneWayBack
PROPERTIES
  Settles
