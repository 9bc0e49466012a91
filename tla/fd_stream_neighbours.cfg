SPECIFICATION Spec
CONSTANTS
  Traffics <- LegalTraffics
  HeaderSize = 2
  MaxFds = 2
  RecvSize = 3
  CompactAt = 2
  Room = 4
INVARIANTS
  LegalTrafficIsForwarded
CHECK_DEADLOCK FALSE
