SPECIFICATION FairSpec
CONSTANTS
  LastMessage = 9
  Start = 6
  Albums = {{3,4},{5,6},{7,8}}
  Faults = {"crash","download"}
  JoinLimit = 3
  CatchUpLimit = 2
  BatchSize = 2
  UnreadThreshold = 1
  HealLimit = 2
  LegacyPosts = {4,5,6}
  Recovery = FALSE
INVARIANTS
  
  
  EachMessageOnce
  PlacesDistinct
  BootSurvives
PROPERTIES
  LiveIsStored
  NothingForgotten
  CompleteUnlessCrashed
CHECK_DEADLOCK FALSE
