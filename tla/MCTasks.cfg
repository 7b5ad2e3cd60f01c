\* Calls between subsystems, and block production jobs.
SPECIFICATION TasksSpec
CONSTANTS
  N = 2
  CallLimit = 3
  FaultLimit = 1
  WorkLimit = 1
  k1 = k1
  x1 = x1
  x2 = x2
  x3 = x3
  None = None
  All = All
  Keys <- OneKey
  Tips <- ThreeTips
  Time <- TimeOf
  MaxTime = 3
  MaxMoves = 2
  MaxCalls = 2
INVARIANTS
  CallsOrdered
PROPERTIES
  ShutdownEnds
  JobsEnd
CHECK_DEADLOCK FALSE
