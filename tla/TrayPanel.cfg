SPECIFICATION TPSpec
CONSTANTS
  MaxStarts = 3
  MaxInvoked = 2
  MishapKinds = {"second start", "start from watch", "watch during start", "watch while sharing", "stop while watching", "stop in picker", "geometry unknown"}
  MaxMishaps = 2
INVARIANTS
  PickerIsUsable
  PinnedWhileWatching
  GeometryComesBack
  TrayTellsOfTheShare
