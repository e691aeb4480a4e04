CONSTANTS
  Positions = {1, 2, 3, 4}
  NumSlots = 3
  MaxKeys = 2
  MaxPressed = 1
  BehaviorIds = {0, 1}
  ResolvedIds = {1}
  ZeroId = 0
  TapPositions = {}
  LayerPositions = {}
  LayerBehaviors = {}
  OtherLayers = {0}
  OtherKeycodes = TRUE
  InitialTables <- FullTables
  NewRecords <- NewKeys
  PressGap = 0
  LastPress = 0
  MaxTime = 2
  MaxEdits = 1
SPECIFICATION Spec
INVARIANTS
  TypeOK
  PressesConserved
  KeysAccountedFor
  RecursionBounded
PROPERTIES
  PressesLeaveInOrder
CHECK_DEADLOCK FALSE
