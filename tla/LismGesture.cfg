CONSTANTS
  Threshold = 3
  CooldownMs = 4
  TapMs = 1
  Deltas <- SmallDeltas
  MaxLate = 1
  LastMotion = 10
  MaxTime = 14
SPECIFICATION FairSpec
INVARIANTS
  TypeOK
  HeldKeyIsPending
  GesturesArePressed
PROPERTIES
  GesturesEnd
CHECK_DEADLOCK FALSE
