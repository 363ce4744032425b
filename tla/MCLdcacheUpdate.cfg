SPECIFICATION LdcacheSpec
CONSTANTS
  Uids = {0, 1000}
  CredChoices <- AnyCaller
INVARIANTS
  ExecIsConfined
  ExecCapabilities
  StageIsSufficient
  SuccessIsExplained
PROPERTIES
  UpdateReturns
CHECK_DEADLOCK FALSE
