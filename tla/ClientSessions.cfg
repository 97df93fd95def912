SPECIFICATION Spec
CONSTANTS
  Reqs = {r1, r2}
  NoReq = NoReq
  MaxLogins = 2
  MaxGen = 1
  NetRetries = 1
  KillInRefresh = FALSE
  Tabs = {t1, t2}
  Accounts = {a1}
  NoAccount = NoAccount
  Devs = {d1, d2}
  Passkeys = {d2}
  EContacts = {c1, c2}
  EReqs = {q1}
  ECalls = {k1, k2}
  Copies = {c1, c2}
  LockTimers = {t1, t2}
  NoTimer = NoTimer
  ClipboardFails = TRUE
INVARIANTS NoTokenReuse DeviceListExact RevokedGetNoKey SecretIsCleared
PROPERTIES RequestSettles SecondFactorAsked
CHECK_DEADLOCK FALSE
