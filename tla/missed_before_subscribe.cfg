SPECIFICATION Spec
CONSTANTS
  LastMessage = 5
  Start = 3
  Albums = {}
  Faults = {"crash"}
  JoinLimit = 2
  CatchUpLimit = 2
  BatchSize = 2
  UnreadThreshold = 0
  HealLimit = 4
  LegacyPosts = {}
  Recovery = FALSE
INVARIANT NothingMissed
CHECK_DEADLOCK FALSE
