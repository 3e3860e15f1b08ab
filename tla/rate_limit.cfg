SPECIFICATION Spec
CONSTANTS
  Requests = {r1,r2}
  Limit = 2
  Window = 3
  Grace = 1
  Latency = 1
  Horizon = 8
INVARIANTS
  TypeOK
  NoBurst

  
