SPECIFICATION PartsSpec
CONSTANTS
  mp4 = mp4 mkv = mkv
  PlanPath = {mp4, mkv}
  PlanSource = {mp4}
  Converted <- ToMkv
  Kind = {"edit", "rename", "convert"}
  MaxRun = 3
  Keep = {TRUE, FALSE}
  Discard = {TRUE, FALSE}
  Fault = {"space", "copy", "upload", "insert", "delete", "list", "walk", "restore", "unlink",
           "record", "hash"}
  Phases = 2
  j1 = j1
  j2 = j2
  w1 = w1
  w2 = w2
  c1 = c1
  c2 = c2
  JobId = {j1, j2}
  WorkerId = {w1, w2}
  Client = {c1, c2}
  Priority <- MCPriority
  KeepLast <- MCKeepLast
  NoWorker = NoWorker
  NoJob = NoJob
CONSTRAINT Unexposed
SYMMETRY Perms
INVARIANTS
  NothingLost
  FilesWhole
  PhasesSettle
  QueueInv
PROPERTIES
  RefinesLifecycle
CHECK_DEADLOCK FALSE
