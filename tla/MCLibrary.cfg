SPECIFICATION MCSpec
CONSTANTS
  d1 = d1
  d2 = d2
  d3 = d3
  Devices <- MCDevices
  Enumerations <- MCEnumerations
  MigDevices = {d1}
  MAX_DEVICES = 2
  MAX_MIG_DEVICES = 1
  LibErrors = {"not_found", "not_supported"}
  Queries <- MCQueries
  QueryIndices = {0, 2}
  MaxInfos = 1
  MaxChanges = 1
  Names = {"a", "b", "r"}
  RootDir <- MCRootDir
  Trees <- MCTrees
  Paths <- MCPaths
  MAXSYMLINKS = 3
  PATH_MAX = 4
  Libraries <- MCLibraries
  DxcoreLibs <- MCDxcoreLibs
  Bins <- MCBins
  Caches <- MCCaches
  SearchPaths <- MCSearchPaths
  BinChoices <- MCBinChoices
  Stores <- MCStores
  Configs <- MCConfigs
  Roots <- MCRoots
  MountInfos <- MCMountInfos
  CgroupFiles <- MCCgroupFiles
  NameExtends <- MCNameExtends
  Nodes = {"n1"}
  AdapterLists <- MCAdapterLists
  IdMaps <- MCIdMaps
  MinorsFiles <- MCMinorsFiles
  DeviceCounts = {0, 1}
  MaxInits = 2
INVARIANTS
  AnswersAreTrue
  FailuresAreClean
  ResolvesAsChroot
  InfoMatchesHost
  AllowsInOwnCgroup
  ContainerIsUsable
  AdaptersAreUsable
  
PROPERTIES
  CallsEnd
CHECK_DEADLOCK FALSE
