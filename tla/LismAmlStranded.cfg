CONSTANTS
  LayerIndices = {0, 1, 2}
  AmlLayers = {1}
  UserLayers = {2}
  index_to_id <- Identity
  ExcludedPositions = {1}
  Positions = {1, 2}
  PriorIdle = 1
  IdleValues = {1, 2}
  MaxActions = 2
  LastMotion = 3
  MaxTime = 7
SPECIFICATION FairSpec
PROPERTIES
  LayerGoesOff
CHECK_DEADLOCK FALSE
