SPECIFICATION FairSpec
CONSTANTS
  MaxPost = 3
  PageSize = 2
  InFlight = 2
  Hideable = {{2},{1,2}}
  Noticed = {1}
  Arriving = {3}
  Toggled = {{1}}
  Peeked = {2}
  MaxTaps = 2
INVARIANTS
  TypeOK
  FeedDescends
  ScrollIsComplete
  RefreshIsCurrent
  
PROPERTIES
  GoneFadesAway
CHECK_DEADLOCK FALSE
