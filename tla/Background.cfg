SPECIFICATION Spec
CONSTANTS
  Ops = {x1, x2, x3}
  Passes = {1, 2}
  OpRetries = 2
  QueueCap = 2
  SaveMayFail = FALSE
  NumSockets = 3
  MaxSeq = 1
  Items = {"a", "b"}
  Legacy = {"b"}
  ItemRetries = 1
  SyncCap = 3
  Procs = {x1, x2, x3}
  NoProc = NoProc
  NumPorts = 2
  MaxRestarts = 2
  Waits = {w1, w2}
  MaxStops = 1
SYMMETRY Symmetry
INVARIANTS NoRerun NothingLost NeverStranded SyncedWasSent NeverStuck
CHECK_DEADLOCK FALSE
