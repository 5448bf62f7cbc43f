SPECIFICATION Spec
CONSTANTS
  DecodeTCMessage    <- TCMessageDecoded
  ReleasedTCMessage  <- TCMessageReleased
  EncodeTCMessage    <- TCMessageEncoded
  DecodeInitialDPArg <- InitialDPArgDecoded
  EncodeConnectArg   <- ConnectArgEncoded
  Queries     <- MCQueries
  Nums        <- MCNums
  Null        = Null
  HeapBytes   = {0, 2, 16}
  Faults      = {"prepare"}
  SendMayFail = FALSE
  Limit       = 1
CHECK_DEADLOCK FALSE
PROPERTIES NumberServiceProvided RightAnswerArrives
