SPECIFICATION FairSpec
CONSTANTS
  Users = {u1}
  Channels = {pub}
  Private = {}
  Gated = {}
  Faults = {"flood"}
  MaxRequests = 1
  Handlers = {h1}
  Workers = {w1}
  Leavers = {u1}
  Hiders = {}
  Moderated = {}
PROPERTIES
  EveryRequestSettles
