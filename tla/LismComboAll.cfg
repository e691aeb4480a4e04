CONSTANTS
  Positions = {1, 2, 3, 4}
  NumSlots = 3
  MaxKeys = 3
  MaxPressed = 2
  BehaviorIds = {0, 1, 2}
  ResolvedIds = {1, 2}
  ZeroId = 0
  TapPositions = {3}
  LayerPositions = {2}
  LayerBehaviors = {2}
  OtherLayers = {0, 1}
  OtherKeycodes = TRUE
  InitialTables <- Tables
  NewRecords <- OtherRecords
  PressGap = 0
  LastPress = 1
  MaxTime = 1
  MaxEdits = 1
SPECIFICATION CalmSpec
INVARIANTS
  PressesConserved
  PoolDense
  KeysAccountedFor
  BehaviorsBalanced
  CombosFireByTheirKeys
  CandidatesFit
  NothingEndsUpStuck
PROPERTIES
  ImplementsEngine
  ReleasesFollowPresses
  CombosFireInTheirPlace
CHECK_DEADLOCK FALSE
