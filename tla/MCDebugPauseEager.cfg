CONSTANTS
  MaxPauses = 2
  MaxRequests = 0
  MaxSettings = 0
  PoliteEditor = FALSE

SPECIFICATION Spec

INVARIANT OwnResume

CHECK_DEADLOCK FALSE
