SPECIFICATION PartsSpec
CONSTANTS
  s1 = s1
  j1 = j1
  j2 = j2
  w1 = w1
  w2 = w2
  JobId = {s1, j1, j2}
  StaleJobs = {s1}
  WorkerId = {w1, w2}
  Priority <- MCPriority
  NoWorker = NoWorker
  NoJob = NoJob
  OnError = "fail"
  ResultCap = 1
  MaxFaults = 1
  FileId = {1, 2, 3}
  Path = {p1, p2}
  Hash = {h1, h2}
  NoFile = 0
  NoPath = NoPath
  NoHash = NoHash
  MaxSession = 3
  TsFiles = {1}
  TsHashes = {h1, h2}
  TsMaxRecords = 3
  TsCutoff = 2
SYMMETRY Perms
INVARIANTS
  EveryJobAccounted
  ReportsMatchRows
  DoubleAgrees
CHECK_DEADLOCK FALSE
