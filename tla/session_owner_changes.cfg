SPECIFICATION Spec
CONSTANTS
  Text <- MCText
  MaxSerial = 2
  ClientRequests <- PlainRequests
  Callers <- NoCallers
  BusSignals <- PlainSignals
  IsHostpass = FALSE
  HostRoutes <- MCHostRoutes
  ClientName <- MCClientName
  Directory <- MCDirectory
INVARIANTS
  OwnerChangesResolve
CHECK_DEADLOCK FALSE
