SPECIFICATION FairSpec
CONSTANTS
  Services = {"driver"}
  Pids = {p1, p2}
  NoPid = NoPid
  MaxFd = 3
  MaxOwn = 1
  MaxQueue = 1
  ChangesCreds = {"driver"}
  ShutdownMayFail = {"driver"}
  PathJoinMayFail = {"driver"}
  KillDenied = {}
  PollMayFail = TRUE
  TermBlocked = FALSE
PROPERTIES
  OrphansTerminate
CHECK_DEADLOCK FALSE
