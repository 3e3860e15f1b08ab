SPECIFICATION Spec
CONSTANTS
  Users = {u1,u2}
  Channels = {pub}
  Private = {}
  Gated = {}
  Faults = {}
  MaxRequests = 2
  Handlers = {h1}
  Workers = {w1}
  Leavers = {u1,u2}
  Hiders = {}
  Moderated = {}
SYMMETRY UserSymmetry
PROPERTIES
  OnlyUnfollowedParked
