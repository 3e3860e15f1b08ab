SPECIFICATION FairSpec
CONSTANTS
  LastMessage = 6
  Start = 4
  Albums = {{1,2,3},{5,6}}
  Faults = {"crash","error","flood"}
  JoinLimit = 2
  CatchUpLimit = 1
  BatchSize = 2
  UnreadThreshold = 0
  HealLimit = 2
  LegacyPosts = {}
  Recovery = TRUE
INVARIANTS
  TypeOK
  EachMessageOnce
PROPERTIES
  AdvancesOverStored
  HistoryFinishes
CHECK_DEADLOCK FALSE
