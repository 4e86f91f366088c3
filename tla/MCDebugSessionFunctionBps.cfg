CONSTANTS
  MaxServers = 2
  MaxBuilds = 2
  MaxChanges = 1
  MaxCrashes = 0
  MaxUnread = 0

SPECIFICATION Spec

INVARIANT FnBpsMatchBuild

CHECK_DEADLOCK FALSE
