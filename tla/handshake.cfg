SPECIFICATION FairSpec
CONSTANTS
  Scripts <- MCScripts
  AuthBufferSize = 2
INVARIANTS
  TypeOK
  RelaysLines
  AnswersBelongToAuth
  MessagesAreLeftForForwarding
  ForwardsWhenBothAccepted
PROPERTIES
  HandshakeEnds
CHECK_DEADLOCK FALSE
