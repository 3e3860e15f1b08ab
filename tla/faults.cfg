SPECIFICATION Spec
CONSTANTS
  Users = {u1,u2}
  Channels = {pub,inv}
  Private = {inv}
  Gated = {}
  Faults = {"crash", "error", "flood", "backfill"}
  MaxRequests = 2
  Handlers = {h1}
  Workers = {w1,w2}
  Leavers = {}
  Hiders = {u1}
  Moderated = {pub}
INVARIANTS
  
  RowOwnership
  TrackedIsJoined
  ActiveIsRouted
PROPERTIES
  ImplementsJoinRequests
  GrantedIsVisible
  BannedStaysQuiet
