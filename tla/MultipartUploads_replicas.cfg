SPECIFICATION UploadSpec
CONSTANTS
  Instances = {i1, i2}
  Requests = {r1, r2}
  Parts = {p1, p2}
  MaxFaults = 0
  None = None
INVARIANT AckedPartsAssembled
CHECK_DEADLOCK FALSE
