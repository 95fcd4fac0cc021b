SPECIFICATION PartsSpec
CONSTANTS
  o1 = o1
  o2 = o2
  SmOpeners <- mcTwo
  SmDatabases <- mcDatabases
  SmMaxRestarts = 1
  PfFiles = {"f", "g"}
  PfPhases = 2
  PfPlaces = 1
  PfMaxChanges = 1
  PfKinds = {"ends", "crop", "plain", "remux"}
  WaRequests = {1, 2}
  WaFiles = {1}
  WaPlaces = 2
  WaGeneral = 1
  WaCpu = 1
  WaMaxTicks = 1
  WaCounts = {0, 1, 2, 3, 4, 5, 6, 7}
  WaPerPage = 2
  WaLimits = {1, 2, 3, 5}
  WaMaxLimit = 3
  WaMaxOffset = 7
  WaWidth = 4
  WaHistories <- mcWaHistories
  WaKnown = {"a", "b"}
  WaScan = 3
  WaDisplay = 2
  Client = {c1, c2, c3}
  MaxClients = 2
  Capacity = 1
  MaxEvents = 3
  NoSource = NoSource
  Unset = Unset
  Library <- mcLibrary
  NameOrder <- mcNames
INVARIANTS
  MigrationSound
  
  RequestsServed
  ChainResolved
PROPERTIES
  EveryRequestEnds
CHECK_DEADLOCK FALSE
