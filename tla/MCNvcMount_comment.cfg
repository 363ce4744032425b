SPECIFICATION MountSpec
CONSTANTS
  Bins <- MCNone
  Libs <- MCNone
  Libs32 <- MCNone
  Dri <- MCDri
  DriverStore <- MCStore
  CntLibs <- MCNone
  Versioned = {"compat/libcuda.so.470.1"}
  Wanted <- MCWanted
  LinksOf <- MCLinksOf
  Ctl <- MCCtl
  ComputeOnly = {}
  Modeset = {}
  Gpus <- MCGpus
  Migs <- MCMigs
  GiOf <- MCGiOf
  CiOf <- MCCiOf
  CapOf <- MCCapOf
  MinorsOf <- MCMinorsOf
  OptionChoices <- GlobalOptions
  NodeChoices = {"absent", "empty", "full"}
  Entries <- GlobalEntries
  MaxCalls <- GlobalCalls
INVARIANTS
  EarlierMountsSurvive
CHECK_DEADLOCK FALSE
