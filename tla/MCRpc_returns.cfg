SPECIFICATION FairSpec
CONSTANTS
  Services = {"driver"}
  Pids = {p1, p2}
  NoPid = NoPid
  MaxFd = 3
  MaxOwn = 1
  MaxQueue = 2
  ChangesCreds = {"driver"}
  ShutdownMayFail = {"driver"}
  PathJoinMayFail = {"driver"}
  KillDenied = {}
  PollMayFail = TRUE
  TermBlocked = TRUE
INVARIANTS
  WaitsOnlyForTheDying
  RunningServiceIsReachable
  InitializedPidIsChild
PROPERTIES
  SignalsOnlyItsChild
  CallsReturn
  ImplementsService
CHECK_DEADLOCK FALSE
