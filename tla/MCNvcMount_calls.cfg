SPECIFICATION MountSpec
CONSTANTS
  Bins <- MCBins
  Libs <- MCLibs
  Libs32 <- MCLibs32
  Dri <- MCDri
  DriverStore <- MCStore
  CntLibs <- MCCompat
  Versioned = {"compat/libcuda.so.470.1"}
  Wanted <- MCWanted
  LinksOf <- MCLinksOf
  Ctl <- MCCtl
  ComputeOnly = {}
  Modeset = {}
  Gpus <- MCGpus
  Migs <- MCMigs
  GiOf <- MCGiOf
  CiOf <- MCCiOf
  CapOf <- MCCapOf
  MinorsOf <- MCMinorsOf
  OptionChoices <- MCOptions
  NodeChoices = {"absent", "empty", "full"}
  Entries <- MCEntries
  MaxCalls <- MCMaxCalls
INVARIANTS
  RecordsAreMounted
  RollbackIsAlmostComplete
  
  SuccessIsUsable

  
CHECK_DEADLOCK FALSE
