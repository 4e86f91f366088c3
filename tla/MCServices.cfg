SPECIFICATION ServicesSpec
CONSTANTS
  c1 = c1
  c2 = c2
  Conns = {c1, c2}
  MaxRestarts = 1
  MaxStarts = 2
  MaxStops = 1
  MaxReconnects = 2
  MaxPanics = 2
  Files = {"program", "include"}
  Includes <- ProgramIncludes
  IncFiles = {"include"}
  Published <- SomeSettings
  Requests = {"hover"}
  MaxEvents = 3
  MaxJobs = 1
  Windows = {1, 2}
  Asks <- WindowAsks
  MaxRequests = 3
  MaxLog = 4
INVARIANTS
  HostTypeOK NoGhostEngine SessionsHaveTheirLoop FallsBackedByPanics GivesUpLate
  QuietShowsTheLatest KeptIsCurrent
  CoreKeepsItsWord
PROPERTIES
  QueueMoves PanicNoticed
  EveryoneIsAnswered SettingsReachTheScreen
\* The bounds stop the requests, the editor and the clients.
CHECK_DEADLOCK FALSE
