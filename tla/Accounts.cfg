SPECIFICATION Spec
CONSTANTS
  SrpReqs = {r1, r2, r3}
  Ids = {n1, n2}
  MaxAttempts = 3
  CtxTimeout = 5
  MaxDelay = 32
  MaxRecorded = 5
  Lossy = TRUE
  NoSession = NoSession
  RecoveryReqs = {r1, r2, r3}
  Batches = {n1, n2}
  NumCodes = 2
  DbFaults = TRUE
  NoBatch = NoBatch
  Insts = {i1}
  MaxKeys = 4
  MaxMonth = 6
  TokenLife = 1
  KeepMonths = 2
  TickMonths = 3
  MaxFaults = 1
SYMMETRY Symmetry
INVARIANTS TypeOK LockBoundsGuesses OneCodePerReset ReuseBounded WrongKidIsRetired KeyOutlivesTokens RestartVerifies
CHECK_DEADLOCK FALSE
