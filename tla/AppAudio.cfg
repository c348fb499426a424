SPECIFICATION AAFairSpec
CONSTANTS
  MaxStarts = 3
  MishapKinds = {"start over error", "stop in picker", "worklet fails"}
  MaxMishaps = 1
CHECK_DEADLOCK FALSE
INVARIANTS
  NoStrayCapture
  SoundIsHeld
PROPERTIES
  EveryStartAnswered
