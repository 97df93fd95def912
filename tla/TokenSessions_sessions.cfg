SPECIFICATION FairSpec
CONSTANTS
  Reqs = {r1, r2}
  Pairs = {p1, p2}
  MaxEpoch = 1
  Lossy = FALSE
  DbFaults = FALSE
  None = None
INVARIANTS RefreshSingleUse NoUntrackedSession
PROPERTIES ImplementsRegistry LogoutEndsSessions
