CONSTANTS
  NumSlots = 2
  good = good
  bad = bad
  Records = {good, bad}
  ValidRecords = {good}
  SeedRecord = seed
  NoRecord = none
  Commands <- AllCommands
  QueueSize = 2
  TestCombo = FALSE
  NotifyFails = TRUE
  SaveFails = FALSE
  MaxWrites = 3
  MaxSubscribes = 2
  MaxReboots = 1
SPECIFICATION Spec
INVARIANTS
  TypeOK
  QueuedCommandsAreServed
  DumpsAreSnapshots
  MirrorIsCurrent
  AckedIsDurable
PROPERTIES
  ImplementsDurableSettings
CHECK_DEADLOCK FALSE
