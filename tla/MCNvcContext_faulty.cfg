SPECIFICATION NvcSpec
CONSTANTS
  Services = {"driver", "nvcgo"}
  Pids = {p1, p2}
  NoPid = NoPid
  MaxFd = 4
  MaxOwn = 1
  MaxQueue = 1
  ChangesCreds = {"driver"}
  ShutdownMayFail = {"driver"}
  PathJoinMayFail = {"driver"}
  KillDenied = {}
  PollMayFail = TRUE
  TermBlocked = TRUE
SYMMETRY Symmetry
PROPERTIES
  UsesServicesAsAllowed
CHECK_DEADLOCK FALSE
