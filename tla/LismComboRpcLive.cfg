CONSTANTS
  NumSlots = 2
  good = good
  bad = bad
  Records = {good, bad}
  ValidRecords = {good}
  SeedRecord = seed
  NoRecord = none
  Commands <- FewCommands
  QueueSize = 2
  TestCombo = TRUE
  NotifyFails = FALSE
  SaveFails = TRUE
  MaxWrites = 3
  MaxSubscribes = 2
  MaxReboots = 0
SPECIFICATION FairSpec
INVARIANTS
  NoRequestIsForgotten
PROPERTIES
  CommandsGetProcessed
CHECK_DEADLOCK FALSE
