SPECIFICATION JobsSpec
CONSTANTS
  Insts = {i1, i2}
  TTL = 3
  RedisErrors = TRUE
  LostCalls = TRUE
  MaxExits = 2
  NoLeader = NoLeader
  Instances = {i1}
  Requests = {r1, r2}
  Parts = {p1}
  MaxFaults = 2
  None = None
INVARIANTS LeaderHoldsLock
PROPERTIES ElectionGoesOn UploadEnds
CHECK_DEADLOCK FALSE
