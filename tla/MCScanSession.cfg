SPECIFICATION SessionsSpec
CONSTANTS
  FileId = {f1, f2, f3}
  Path = {p1, p2}
  Hash = {h1, h2}
  NoFile = NoFile
  NoPath = NoPath
  NoHash = NoHash
  MaxSession = 3
  Setups <- mcScans
SYMMETRY Symmetry
INVARIANTS
  TableSound
PROPERTIES
  SessionReconciles
CHECK_DEADLOCK FALSE
