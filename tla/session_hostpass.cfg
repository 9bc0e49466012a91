SPECIFICATION Spec
CONSTANTS
  Text <- MCText
  MaxSerial = 4
  ClientRequests <- HostpassRequests
  Callers <- HostCallers
  BusSignals <- NoSignals
  IsHostpass = TRUE
  HostRoutes <- MCHostRoutes
  ClientName <- MCClientName
  Directory <- MCDirectory
INVARIANTS
  HostpassUsesHostOnly
  RepliesReachTheirCaller
PROPERTIES
  HostpassOutlivesSandbox
CHECK_DEADLOCK FALSE
