SPECIFICATION PartsSpec
CONSTANTS
  r1 = r1 r2 = r2 f1 = f1 f2 = f2 f3 = f3
  File = {f1, f2, f3}
  Roots <- RootSeq
  Walks <- NestedWalks
  RootOf <- InnermostRoot
  Bad <- KnownBad
  Depth = 1
  NoFile = NoFile
  NoRoot = NoRoot
  Worker = {"a", "b"}
  j1 = j1
  w1 = w1
  w2 = w2
  JobId = {j1}
  StaleJobs = {}
  WorkerId = {w1, w2}
  Priority = {1}
  NoWorker = NoWorker
  NoJob = NoJob
  OnError = "continue"
  ResultCap = 1
  MaxFaults = 2
  ScRoots <- mcScRoots
  ScRows <- mcScRows
  ScFreshSets <- mcFresh
  ScGone = {"g"}
  ScDepth = 1
  ScWorkers = 1
  ScMaxFaults = 1
  PrRuns = {1, 2}
  PrWebRuns = {2}
  PrMaxFaults = 1
  CgActors = {"s1", "s2"}
  CgSets <- mcCgSets
  CgPlugins = {"discovery", "job-manager", "nothing"}
  CgTexts <- mcCgTexts
  CgMaxCommands = 3
  EcTools = {"ffmpeg", "mkvmerge"}
  EcRequired = {"ffmpeg", "mkvmerge"}
  NOISE_FLOOR = 1
  EcEnvs <- mcEcEnvs
  EcDay = 2
  EcIntervals = {1, 2, 3}
  EcRetention = 2
  EcMaxTime = 8
INVARIANTS
  ItemsRouted
  CompletedIsComplete
  
  
PROPERTIES
  EveryRunReturns
CHECK_DEADLOCK FALSE
