SPECIFICATION Spec
CONSTANTS
  Text <- MCText
  MaxSerial = 3
  ClientRequests <- PlainRequests
  Callers <- NoCallers
  BusSignals <- PlainSignals
  IsHostpass = FALSE
  HostRoutes <- MCHostRoutes
  ClientName <- MCClientName
  Directory <- MCDirectory
INVARIANTS
  TypeOK
  ShownNamesResolve
  FakeNamesReachTheirBus
CHECK_DEADLOCK FALSE
