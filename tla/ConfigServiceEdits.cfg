CONSTANTS
  Roots = {r1}
  NoRoot = none
  MaxSaves = 1
  MaxOps = 2

SPECIFICATION ConfigFairSpec

PROPERTY EditsTold

\* The bounds stop the requests, and there may be no watcher.
CHECK_DEADLOCK FALSE
