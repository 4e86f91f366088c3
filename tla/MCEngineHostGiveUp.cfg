CONSTANTS
  c1 = c1
  c2 = c2
  Conns = {c1, c2}
  MaxRestarts = 5
  MaxStarts = 1
  MaxStops = 0
  MaxReconnects = 6
  MaxPanics = 6
SPECIFICATION HostSpec
INVARIANT NobodyLeftWaiting
CHECK_DEADLOCK FALSE
