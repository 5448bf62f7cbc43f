SPECIFICATION Spec
CONSTANTS
  DecodeTCMessage    <- TCMessageDecoded
  ReleasedTCMessage  <- TCMessageReleased
  EncodeTCMessage    <- TCMessageEncoded
  DecodeInitialDPArg <- InitialDPArgDecoded
  EncodeConnectArg   <- ConnectArgEncoded
  Queries   <- MCQueries
  Nums      <- MCNums
  Null      = Null
  HeapBytes = {0, 2, 16}
  Faults    = {"fopen", "write", "reopen", "prepare", "step"}
CHECK_DEADLOCK FALSE
INVARIANTS ComponentPortionMayBeAbsent
