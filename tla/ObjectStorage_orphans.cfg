SPECIFICATION StorageSpec
CONSTANTS
  Uploads = {u1}
  FileKeys = {f1}
  BlobKeys = {b1}
  Sizes = {1, 2}
  MaxFile = 2
  Quota = 2
  MaxDeletes = 1
  S3Faults = FALSE
  NoObject = NoObject
INVARIANT ConfirmedKept
CHECK_DEADLOCK FALSE
