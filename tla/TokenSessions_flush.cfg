SPECIFICATION SpecFlush
CONSTANTS
  Reqs = {r1, r2}
  Pairs = {p1, p2}
  MaxEpoch = 1
  Lossy = TRUE
  DbFaults = TRUE
  None = None
SYMMETRY Symmetry
INVARIANTS TypeOK DurableCutOff FamilyKeepsEpoch MirrorNotAhead
