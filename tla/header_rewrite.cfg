SPECIFICATION Spec
CONSTANTS
  Messages <- MCMessages
INVARIANTS
  TypeOK
  ScanKeepsItsPlace
  ResultIsWellFormed
  OnlyTheNameChanges
  BodyFollowsHeader
CHECK_DEADLOCK FALSE
