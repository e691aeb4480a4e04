CONSTANTS
  Positions = {1, 2, 3, 4}
  NumSlots = 3
  MaxKeys = 2
  MaxPressed = 3
  BehaviorIds = {0, 1}
  ResolvedIds = {1}
  ZeroId = 0
  TapPositions = {}
  LayerPositions = {}
  LayerBehaviors = {}
  OtherLayers = {0}
  OtherKeycodes = FALSE
  InitialTables <- PairTables
  NewRecords = {}
  PressGap = 1
  LastPress = 4
  MaxTime = 7
  MaxEdits = 0
SPECIFICATION FairSpec
PROPERTIES
  HandlersReturn
  CapturedKeysLeave
CHECK_DEADLOCK FALSE
