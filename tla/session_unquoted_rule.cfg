SPECIFICATION Spec
CONSTANTS
  Text <- MCText
  MaxSerial = 2
  ClientRequests <- WatchRequests
  Callers <- NoCallers
  BusSignals <- NoSignals
  IsHostpass = FALSE
  HostRoutes <- MCHostRoutes
  ClientName <- MCClientName
  Directory <- MCDirectory
INVARIANTS
  FakeNamesReachTheirBus
CHECK_DEADLOCK FALSE
