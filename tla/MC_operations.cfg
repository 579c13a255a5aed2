\* The process, its HTTP services, the web UI, consoles and Rufio's Machines.
SPECIFICATION OperationsSpec
CONSTANTS
  PcConfigs <- MCPcConfigs
  CRDs = {"c1", "c2"}
  MaxStarts = 2
  MaxPolls = 1
  MaxPcFaults = 1
  HsConfigs <- MCHsConfigs
  Endpoints <- MCEndpoints
  HwObjects <- MCHwObjects
  Machines = {"m1", "m2"}
  Relays = {"p1", "p2"}
  InstanceIDs = {"i1", "i9"}
  MaxRequests = 2
  MaxHops = 2
  MaxHwEdits = 1
  Browsers = {"b"}
  Tokens = {"admin", "local"}
  TokenOf <- MCTokenOf
  AutoToken = "local"
  Namespaces <- MCNamespaces
  InitialObjects <- MCObjects
  UiQueries <- MCQueries
  UiRoutes <- MCRoutes
  UiServers <- MCServers
  DefaultItemsPerPage = 2
  MaxItemsPerPage = 3
  MaxSearchResultsPerType = 2
  MaxSearchResults = 5
  MaxUiChanges = 1
  MaxUiFaults = 1
  Sessions = {"s1", "s2", "s3", "x"}
  UserOf <- MCUser
  KeyOf <- MCKey
  Consoles <- MCConsoles
  SsNone = none
  MaxChunks = 2
  MaxKeys = 2
  MaxSsFaults = 1
  Cases <- MCCases
  Polls <- MCPolls
  Interval = 0
  PowerCheck = 1
  MaxUint32 = 7
  MaxTime = 2
  MaxUser = 1
  MaxRmFaults = 1
INVARIANTS OperationsTypeOK ConsoleShared MachineShown UiServed
PROPERTIES HttpServed LifeInOrder
CHECK_DEADLOCK FALSE
