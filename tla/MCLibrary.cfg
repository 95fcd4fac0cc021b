SPECIFICATION PartsSpec
CONSTANTS
  RtFiles = {"f", "g"}
  RtConfig <- mcConfig
  RtBackfill = 1
  RtPage = 2
  RtWorkers = 2
  RtMaxRows = 3
  RtMaxEvents = 4
  RtMaxTime = 2
  VfFiles = {"a", "b"}
  VfBasename <- mcBasename
  VfHwAccel = "auto"
  VfProbed <- mcProbed
  VfWorkers = 1
  VfMaxRecords = 3
  VfMaxChanges = 1
  VfMaxTime = 2
  SePaths = {"p", "r"}
  SePlans = {"x", "y"}
  SeIds = {1, 2, 3}
  SeMaxFaults = 1
  SeMaxReads = 3
  SeMaxCleans = 1
  LrFiles = {"a", "b", "c"}
  LrRates = {0, 24000, 25000}
  LrMoveRows <- mcMoveRows
  LrMaxMoves = 4
  LrMaxShots = 2
  LrMaxChanges = 2
  LrValues <- mcValues
  LrSessionLimit = 2
  VMAF_BOTTOM_LIMIT = 2
  MAX_PREDECESSORS = 2
  FcFiles = {1, 2, 3}
  FcSize <- mcFcSize
  FcWorkers = 2
  FcMaxClock = 3
  FcCorpora <- mcFcCorpora
  FcPlans <- mcFcPlans
  FcMaxRuns = 2
  SdTimes <- mcSdTimes
  SdJobs = {1, 2}
  SdUpdates <- mcSdUpdates
  SdTypes <- mcSdTypes
  SdPrefixes <- mcSdPrefixes
  SdMaxEvents = 3
  SdPaths <- mcSdPaths
  SdTracks <- mcSdTracks
  SdMaxPages = 2
  BkDests <- mcDests
  BkPaths = {1}
  BkIds = {1, 2}
  BkMaxTime = 1
  BkBlocks = TRUE
  BkHashes = TRUE
  BkUnlocked = FALSE
  BkMaxCrashes = 1
  BkMaxDamage = 1
  BgFiles <- mcNames
  BgMaxPlans = 2
  LbFiles = {"f", "g"}
  LbWorkers = {1, 2}
  LbMaxPlans = 3
  LbMaxTime = 1
  LbMaxCrashes = 1
  LbSizes = {1, 2, 3, 4}
  LbFrees = {0, 1, 2, 3, 4, 5, 6, 7, 8, 9, 10, 11}
  LbReserve = 2
  MINIMUM_RESERVE_BYTES = 1
  LbPaths <- mcLbPaths
  LbRoots <- mcLbRoots
  LbStamps = {"20200101000000", "20240101000000"}
  LbLinks = {"link"}
  RsFiles = {"a", "b"}
  RsPhases <- mcRsPhases
  RsWorkers = 2
  RsMaxFaults = 1
  RsBackends = {"nvenc", "qsv", "vaapi", "videotoolbox", "none"}
  RsPlans <- mcRsPlans

  
  
  
  
  
PROPERTIES
  OutcomeBeforeOp
CHECK_DEADLOCK FALSE
