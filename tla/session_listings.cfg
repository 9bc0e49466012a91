SPECIFICATION FairSpec
CONSTANTS
  Text <- MCText
  MaxSerial = 2
  ClientRequests <- ListingRequests
  Callers <- NoCallers
  BusSignals <- NoSignals
  IsHostpass = FALSE
  HostRoutes <- MCHostRoutes
  ClientName <- MCClientName
  Directory <- MCDirectory
INVARIANTS
  MergedListsAreComplete
PROPERTIES
  ListingsAreAnswered
CHECK_DEADLOCK FALSE
