SPECIFICATION MCSpec
CONSTANTS
  MaxGpus = 2
  Starts <- UuidStarts
  CredChoices <- Root
  Reqs = {}
  MAX_REQS = 2
  Predicates = {}
  Data <- MCData
PROPERTIES
  UuidsAreFound
CHECK_DEADLOCK FALSE
