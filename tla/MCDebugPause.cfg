CONSTANTS
  MaxPauses = 2
  MaxRequests = 2
  MaxSettings = 1
  PoliteEditor = TRUE

SPECIFICATION FairSpec

INVARIANTS
  TypeOK
  AckedWritesLanded
  EditsBelongToStack
  OwnResume
  StackOfTheStop

PROPERTIES
  StoredWhileParked
  ConfiguredWithBreakpoints
  CommandsInOrder
  ResumeIsEffective
  LoadReleasedAtEof

\* The editor may never act again, and the bounds stop the VM.
CHECK_DEADLOCK FALSE
