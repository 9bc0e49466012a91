SPECIFICATION Spec
CONSTANTS
  Text <- MCText
  MaxSerial = 4
  ClientRequests <- ExportRequests
  Callers <- CollidingCallers
  BusSignals <- NoSignals
  IsHostpass = FALSE
  HostRoutes <- MCHostRoutes
  ClientName <- MCClientName
  Directory <- MCDirectory
INVARIANTS
  RepliesReachTheirCaller
CHECK_DEADLOCK FALSE
