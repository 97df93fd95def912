SPECIFICATION Spec
CONSTANTS
  Files = {f1, f2}
  NoFile = NoFile
  Flows = {t1}
  CapBlocks = 4
  CompactBreaks = FALSE
  LockInFlow = FALSE
  LocalVaults = {v1, v2}
  OldIds = {v1}
  UsbVaults = {u1}
  ListFiles = {f1}
  FileVaults = {v1}
  VaultLoads = {l1, l2}
  UFiles = {f1, f2, f3}
  Drives = {d1, d2}
  Paths = {p1, p2}
  NoPath = NoPath
  Setups = {s1, s2}
  Before = Before
  Disturbed = FALSE
INVARIANTS TypeOK CrashSafe DiskMatchesOutcomes VaultsKept ShownIsCommitted SetupIsUsable
PROPERTIES ImplementsContents OnlyChosenDrive
CHECK_DEADLOCK FALSE
