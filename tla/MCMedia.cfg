SPECIFICATION PartsSpec
CONSTANTS
  VqDurations <- mcDurations
  VqCounts = {1, 2, 3}
  VqSpans = {1, 3, 5}
  VqScenes <- mcScenes
  VqFrames <- mcFrames
  VqDetected <- mcDetected
  VqCropConfigs <- mcCropConfigs
  HwCodecs = {"hevc", "vp9"}
  HwBackends <- mcBackends
  HwDevices = {"0", "1"}
  HwListed <- mcListed
  EnTracks <- mcTracks
  EnSamples = 2
  EnMedia = {"a", "b"}
  InFiles = {"f", "g"}
  InProbes <- mcProbes
  I32Max = 3
  U32Max = 7
  NmUnknown = {"nothing", "h.264"}
  NmWords <- mcNmWords
  NmShort <- mcNmShort
  NmTables <- mcNmTables
  PtMaps <- mcPtMaps
  PtPaths <- mcPtPaths
  PtPolicies <- mcPtPolicies
  PtPlanLists <- mcPtPlanLists
  PtOrders <- mcPtOrders
  PtCases <- mcPtCases
  PtVersions = {"v1", "v2", "v3"}
  PtPlans <- mcPtPlans
  PtMaxRuns = 3
  HwAccels = {"vaapi"}
  Encoders <- mcEncoders
  ProbedEncoders = {"hevc", "aac", "ac3", "dts"}
  ProbedFormats = {"mp4", "mkv", "webm"}
  Policies <- mcPolicies
  Files <- mcFiles
  ConfirmSavings = TRUE
  Texts <- mcTexts
  Remainder <- mcRemainder
  Numerals = {"2", "6"}
  MaxNesting = 100
  Phases <- mcPhases
  PhaseNames = {"p"}
  Tenths <- mcTenths
  MaxU32 = 4000
  Codecs <- mcCodecs
  Languages = {"eng"}
  Containers = {"mkv"}
  BadRegexes = {"bad"}
INVARIANTS
  EncodingSound
  
  ToolsTellTruth
  
  
  AcceptedIsSound
CHECK_DEADLOCK FALSE
