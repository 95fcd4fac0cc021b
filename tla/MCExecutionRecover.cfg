SPECIFICATION PartsSpec
CONSTANTS
  mp4 = mp4 mkv = mkv
  PlanPath = {mp4, mkv}
  PlanSource = {mp4}
  Converted <- ToMkv
  Kind = {"rename"}
  MaxRun = 3
  Keep = {FALSE}
  Discard = {FALSE}
  Fault = {}
  Phases = 1
  j1 = j1
  j2 = j2
  w1 = w1
  w2 = w2
  c1 = c1
  c2 = c2
  JobId = {j1, j2}
  WorkerId = {w1, w2}
  Client = {c1, c2}
  Priority <- MCPriority
  KeepLast <- MCKeepLast
  NoWorker = NoWorker
  NoJob = NoJob
INVARIANT RecoveredFilesWhole
CHECK_DEADLOCK FALSE
