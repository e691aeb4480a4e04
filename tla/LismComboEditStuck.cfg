CONSTANTS
  Positions = {1, 2, 3, 4}
  NumSlots = 3
  MaxKeys = 4
  MaxPressed = 3
  BehaviorIds = {0, 1}
  ResolvedIds = {1}
  ZeroId = 0
  TapPositions = {}
  LayerPositions = {}
  LayerBehaviors = {}
  OtherLayers = {0}
  OtherKeycodes = FALSE
  InitialTables <- NestedTables
  NewRecords <- NestedRecords
  PressGap = 0
  LastPress = 0
  MaxTime = 0
  MaxEdits = 1
SPECIFICATION Spec
INVARIANTS
  NothingEndsUpStuck
