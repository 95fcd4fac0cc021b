SPECIFICATION PartsSpec
CONSTANTS
  p1 = p1 p2 = p2 p3 = p3 p4 = p4
  j1 = j1 j2 = j2 j3 = j3
  Plugin = {p1, p2, p3, p4}
  Info <- MCInfo
  EventType = {"file", "error"}
  PluginError = "error"
  MaxDepth = 2
  ChannelCapacity = 2
  BatchSize = 2
  MaxBuffer = 3
  MaxFailures = 4
  FinalAttempts = 2
  MaxRecords = 7
  Thread = {t1, t2}
  NoThread = NoThread
  DataKey = {"config", "seen"}
  DataValue = {1, 2}
  NoValue = NoValue
  DeadlineTicks = 2
  Disablable = {"sqlite-store", "health-checker", "capability-collector", "ffmpeg-executor", "w1", "w2"}
  WasmFile <- MCWasmFile
  PipeSize = 1
  MaxCapture = 1
  MaxOutput = 2
  JobId = {j1, j2, j3}
  WorkerId = {w}
  NoWorker = NoWorker
  Priority = {1}
  BatchItems = 3
  Permits = 2
  Resource = {"gpu"}
  Limit <- MCLimit
  PlanDevice <- MCPlanDevice
  DsContents <- mcContents
  DsMaxTime = 7
  DsEntries <- mcEntries
  DsThreads = {1, 2, 3}
  MAX_CONCURRENT_FDS = 1
  PxCaps <- mcPxCaps
  PxAnswers <- mcPxAnswers
  PxReplies <- mcPxReplies
  PxMaxPayload = 3
  PxManifests <- mcPxManifests
  PxConfigs <- pxGrants
  PxPaths <- mcPxPaths
INVARIANTS
  PluginsServed
  RecordsAccounted
  PluginsKeptApart
  ToolCallSound
  BatchSettles
  WalkIsTrue
PROPERTIES
  EveryCallReturns
CHECK_DEADLOCK FALSE
