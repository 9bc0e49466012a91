SPECIFICATION FairSpec
CONSTANTS
  Traffics <- MCTraffics
  HeaderSize = 2
  MaxFds = 2
  RecvSize = 3
  CompactAt = 2
  Room = 3
INVARIANTS
  TypeOK
  BytesInOrder
  FdsInOrder
  AcceptsTraffic
PROPERTIES
  DeliversMessages
  TrafficArrives
CHECK_DEADLOCK FALSE
