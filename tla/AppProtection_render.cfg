SPECIFICATION ProtectionSpec
CONSTANTS
  Copies = {c1, c2}
  LockTimers = {t1, t2}
  NoTimer = NoTimer
  ClipboardFails = FALSE
INVARIANT SecretIsTimed
CHECK_DEADLOCK FALSE
