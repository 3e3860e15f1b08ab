SPECIFICATION FairSpec
CONSTANTS
  Users = {u1,u2}
  Channels = {open,gated}
  Private = {open,gated}
  Gated = {gated}
  Faults = {"crash", "error", "backfill"}
  MaxRequests = 2
  Handlers = {h1}
  Workers = {w1}
  Leavers = {}
  Hiders = {}
  Moderated = {}
PROPERTIES
  ApprovalsSettle
