CONSTANTS
  MaxServers = 1
  MaxBuilds = 1
  MaxChanges = 0
  MaxCrashes = 1
  MaxUnread = 0

SPECIFICATION FairSpec

PROPERTY EveryDeathReported

CHECK_DEADLOCK FALSE
