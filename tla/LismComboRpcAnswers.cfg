CONSTANTS
  NumSlots = 2
  good = good
  bad = bad
  Records = {good, bad}
  ValidRecords = {good}
  SeedRecord = seed
  NoRecord = none
  Commands <- FewCommands
  QueueSize = 2
  TestCombo = FALSE
  NotifyFails = FALSE
  SaveFails = FALSE
  MaxWrites = 3
  MaxSubscribes = 2
  MaxReboots = 0
SPECIFICATION Spec
PROPERTIES
  AnswersPair
CHECK_DEADLOCK FALSE
