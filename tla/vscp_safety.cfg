SPECIFICATION Spec
CONSTANTS
  Message     <- MCMessage
  M3UAMsgType <- MCM3UAMsgType
  Outcomes    <- MCOutcomes
  AspUp       = "asp up"
  AspActive   = "asp active"
  SendMayFail = TRUE
  Limit       = 2
CHECK_DEADLOCK FALSE
INVARIANTS TypeOK HandshakeOnce
PROPERTY ServiceRefined
