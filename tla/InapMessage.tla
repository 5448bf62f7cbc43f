----------------------------- MODULE InapMessage -----------------------------
(***************************************************************************)
(* The INAP layer (InapMessage.cpp): the called number of an InitialDP,    *)
(* and the Connect argument.                                               *)
(***************************************************************************)
EXTENDS TcapMessage, DigitLine

(* The asn1c runtime with the descriptors of the INAP grammar.             *)
CONSTANTS DecodeInitialDPArg(_),  \* ber_decode: code and node
          EncodeConnectArg(_)     \* the octets der_encode writes

(* decodeInitialDP: fclose(NULL) ends the program when data.txt cannot be  *)
(* opened to be written.                                                   *)
FromInitialDP(r, fault) ==
  IF r.code # "OK" THEN Found(<<>>)
  ELSE LET calledPartyNumber == r.node.members[2]
       IN  IF calledPartyNumber = NoNode THEN Found(<<>>)
           ELSE IF fault = "fopen" THEN Aborted
           ELSE ParseNum(calledPartyNumber.octets, fault)

DecodeInitialDP(m, fault) == FromInitialDP(DecodeInitialDPArg(m), fault)

(* The constructor: Connect (20), ReleaseCall (22) and every other code    *)
(* leave the number empty.                                                 *)
InapMessage(localCode, m, fault) ==
  IF localCode = 0 THEN DecodeInitialDP(m, fault) ELSE Found(<<>>)

(* encodeConnect: the characters of the number go into                     *)
(* destinationRoutingAddress as they are; cutAndPaste is 0.                *)
ConnectMessage(addr) ==
  [members |-> <<[list |-> <<[octets |-> addr]>>], [octets |-> <<0>>], NoNode>>]

EncodeConnect(addr) == EncodeConnectArg(ConnectMessage(addr))
=============================================================================
