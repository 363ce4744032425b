SPECIFICATION NvcSpec
CONSTANTS
  Services = {"driver", "nvcgo"}
  Pids = {p1, p2, p3}
  NoPid = NoPid
  MaxFd = 5
  MaxOwn = 1
  MaxQueue = 2
  ChangesCreds = {"driver"}
  ShutdownMayFail = {"driver"}
  PathJoinMayFail = {"driver"}
  KillDenied = {}
  PollMayFail = FALSE
  TermBlocked = FALSE
SYMMETRY Symmetry
INVARIANTS
  ShutdownLeavesNothing
PROPERTIES
  ClosesOnlyItsOwn
CHECK_DEADLOCK FALSE
