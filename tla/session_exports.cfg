SPECIFICATION Spec
CONSTANTS
  Text <- MCText
  MaxSerial = 4
  ClientRequests <- ExportRequests
  Callers <- ApartCallers
  BusSignals <- NoSignals
  IsHostpass = FALSE
  HostRoutes <- MCHostRoutes
  ClientName <- MCClientName
  Directory <- MCDirectory
INVARIANTS
  RepliesReachTheirCaller
  UnansweredCallsAreTracked
PROPERTIES
  RelaysCalls
CHECK_DEADLOCK FALSE
