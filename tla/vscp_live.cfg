SPECIFICATION Spec
CONSTANTS
  Message     <- MCMessage
  M3UAMsgType <- MCM3UAMsgType
  Outcomes    <- MCOutcomes
  AspUp       = "asp up"
  AspActive   = "asp active"
  SendMayFail = FALSE
  Limit       = 1
CHECK_DEADLOCK FALSE
INVARIANTS HandshakeNotLost
PROPERTIES ServiceRefined Registers AlwaysAnswered Stops
