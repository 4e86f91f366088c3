CONSTANTS
  MaxServers = 2
  MaxBuilds = 1
  MaxChanges = 0
  MaxCrashes = 0
  MaxUnread = 1

SPECIFICATION Spec

INVARIANT StackOfCurrentServer

CHECK_DEADLOCK FALSE
