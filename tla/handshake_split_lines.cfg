SPECIFICATION Spec
CONSTANTS
  Scripts <- OnlyPipelining
  AuthBufferSize = 2
INVARIANTS
  RelaysLines
CHECK_DEADLOCK FALSE
