CONSTANTS
  LayerIndices = {0, 1, 2}
  AmlLayers = {1}
  UserLayers = {1, 2}
  index_to_id <- Identity
  ExcludedPositions = {1}
  Positions = {1, 2}
  PriorIdle = 1
  IdleValues = {0, 1, 2}
  MaxActions = 2
  LastMotion = 4
  MaxTime = 4
SPECIFICATION Spec
INVARIANTS
  TypeOK
  ActiveLayerIsOn
  NoLayerLeftBehind
  NoStaleActivation
  ActionsAreServed
