SPECIFICATION FairSpec
CONSTANTS
  Services = {"driver"}
  Pids = {p1, p2}
  NoPid = NoPid
  MaxFd = 3
  MaxOwn = 0
  MaxQueue = 1
  ChangesCreds = {}
  ShutdownMayFail = {"driver"}
  PathJoinMayFail = {"driver"}
  KillDenied = {"driver"}
  PollMayFail = TRUE
  TermBlocked = FALSE
PROPERTIES
  OrphansTerminate
  CallsReturn
CHECK_DEADLOCK FALSE
