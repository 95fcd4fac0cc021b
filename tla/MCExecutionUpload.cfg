SPECIFICATION PartsSpec
CONSTANTS
  mp4 = mp4 mkv = mkv
  PlanPath = {mp4, mkv}
  PlanSource = {mp4}
  Converted <- ToMkv
  Kind = {"edit"}
  MaxRun = 1
  Keep = {FALSE}
  Discard = {FALSE}
  Fault = {"upload"}
  Phases = 1
  j1 = j1
  j2 = j2
  w1 = w1
  w2 = w2
  c1 = c1
  c2 = c2
  JobId = {j1, j2}
  WorkerId = {w1, w2}
  Client = {c1, c2}
  Priority <- MCPriority
  KeepLast <- MCKeepLast
  NoWorker = NoWorker
  NoJob = NoJob
INVARIANT BackedUpBeforeMutation
CHECK_DEADLOCK FALSE
