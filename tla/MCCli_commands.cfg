SPECIFICATION MCSpec
CONSTANTS
  MaxGpus = 2
  Starts <- MCStarts
  CredChoices <- RootOrUser
  Reqs = {"r"}
  MAX_REQS = 2
  Predicates <- MCPredicates
  Data <- MCData
INVARIANTS
  VersionsAreOrdered
  PredicateIsDisjunction
  ServicesEnd
  MountsMeetRequirements
  SelectedOnce
  
CHECK_DEADLOCK FALSE
