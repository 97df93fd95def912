SPECIFICATION Spec
CONSTANTS
  Uploads = {u1, u2}
  FileKeys = {k1, k2}
  BlobKeys = {b1}
  Sizes = {1, 2, 3}
  MaxFile = 2
  Quota = 3
  MaxDeletes = 1
  S3Faults = TRUE
  NoObject = NoObject
  Instances = {i1}
  Requests = {u1, u2}
  Parts = {k1, k2}
  MaxFaults = 3
  None = None
SYMMETRY Symmetry
INVARIANTS TypeOK AcceptedWithinQuota ResumeKeepsParts
CHECK_DEADLOCK FALSE
