SPECIFICATION FairSpec
CONSTANTS
  Users = {u1,u2}
  Channels = {pub,gated}
  Private = {gated}
  Gated = {gated}
  Faults = {}
  MaxRequests = 2
  Handlers = {h1}
  Workers = {w1}
  Leavers = {u1,u2}
  Hiders = {}
  Moderated = {}
INVARIANTS
  TypeOK
  NoRowAbandoned
  ParkedNotRouted
  
PROPERTIES
  SettledIsFinal
  StatusFlow
  ImplementsFairly
  IdleChannelsPark
  FirstBackfillCompletes
