SPECIFICATION Spec
CONSTANTS
  Users = {u1}
  Channels = {gated}
  Private = {gated}
  Gated = {gated}
  Faults = {}
  MaxRequests = 1
  Handlers = {h1}
  Workers = {w1}
  Leavers = {u1}
  Hiders = {}
  Moderated = {}
INVARIANTS
  ActiveIsRouted
