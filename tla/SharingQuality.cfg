SPECIFICATION SQFairSpec
CONSTANTS
  Viewers = {v1, v2}
  Presets = {auto, game}
  DefaultPreset = auto
  None = None
  MaxShares = 2
  MaxConnections = 2
  MaxPolls = 2
  MishapKinds = {"stop during poll", "preset in picker", "ceiling refused", "size refused"}
  MaxMishaps = 1
INVARIANTS
  ReadingsOfThisShare
  PresetReachesTheShare
PROPERTIES
  StaleReadingsGo
