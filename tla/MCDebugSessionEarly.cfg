CONSTANTS
  MaxServers = 1
  MaxBuilds = 1
  MaxChanges = 1
  MaxCrashes = 0
  MaxUnread = 0

SPECIFICATION Spec

INVARIANT EarlyBreakpointsInstalled

CHECK_DEADLOCK FALSE
