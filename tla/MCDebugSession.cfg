CONSTANTS
  MaxServers = 2
  MaxBuilds = 2
  MaxChanges = 1
  MaxCrashes = 1
  MaxUnread = 1

SPECIFICATION MCSpec

INVARIANTS
  TypeOK
  NothingOutlivesSession
  OldServerFallsSilent
  OnlyDeathsReported
  LineBpsMatchBuild
  LatestBreakpointsInstalled

PROPERTIES
  OneServerAtATime
  DeathReported

\* The session ends, and the editor may never act again.
CHECK_DEADLOCK FALSE
