SPECIFICATION CgroupSpec
CONSTANTS
  Devices <- MCDevices
  Wanted <- MCWanted
  FilterChoices <- AllFilters
  EntryChoices = {{}, {"devices"}, {"unified"}, {"devices", "unified"}}
  MaxRequests = 5
  MaxReplaced = 1
INVARIANTS
  NeverStricter
  GrantedStaysUsable
  RewriteIsExact
  CapsDroppedOrReported
CHECK_DEADLOCK FALSE
