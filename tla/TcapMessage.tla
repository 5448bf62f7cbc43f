----------------------------- MODULE TcapMessage -----------------------------
(***************************************************************************)
(* The TCAP layer (TcapMessage.cpp): what the constructor takes from a     *)
(* received TCMessage, and the End that carries the answer.  The 32-bit    *)
(* transaction identifier is written as its four octets, the lowest first. *)
(***************************************************************************)
EXTENDS Octets

(* The asn1c runtime with the descriptors of the TCAP grammar.             *)
CONSTANTS DecodeTCMessage(_),    \* ber_decode: code, node and the blocks allocated
          ReleasedTCMessage(_),  \* the blocks ASN_STRUCT_FREE gives back
          EncodeTCMessage(_)     \* the octets der_encode writes

(* Alternatives of the CHOICEs, by their places.                           *)
TCMessage_PR_begin      == 2
TCMessage_PR_end        == 3
Component_PR_invoke     == 1
OPERATION_PR_localValue == 1

(* What the members hold unless the message sets them; kept counts the     *)
(* blocks of the decoded message that nobody will free.                    *)
NoTransaction ==
  [crash |-> FALSE, localCode |-> 0, transactionId |-> Zeros(4), invokeId |-> -1,
   parameter |-> <<>>, kept |-> 0]

(* Four octets are read whatever the size of the identifier: the octet     *)
(* after it is 0, the ones behind that are heap memory never written.      *)
TransactionId(otid, heap) ==
  [k \in 1..4 |-> IF k <= Len(otid) THEN otid[k]
                  ELSE IF k = Len(otid) + 1 THEN 0 ELSE heap]

(* A long in an int.                                                       *)
Int32(octets) ==
  Number(IF Len(octets) > 4 THEN SubSeq(octets, Len(octets) - 3, Len(octets)) ELSE octets)

(* Mutant of FromInvoke: the operation code is read and not kept.          *)
CodeForgotten(begun, invoke) ==
  LET parameter == invoke.members[4]
  IN  [begun EXCEPT !.invokeId  = Int32(invoke.members[1].octets),
                    !.parameter = IF parameter # NoNode THEN parameter.octets ELSE <<>>]

(* The operation code stays 0, that of InitialDP, unless it is a local one *)
(* and the parameter is kept for operation 0 only.                         *)
FromInvoke(begun, invoke) ==
  LET opCode    == invoke.members[3]
      code      == IF opCode.present = OPERATION_PR_localValue
                   THEN Int32(opCode.member.octets) ELSE 0
      parameter == invoke.members[4]
  IN  [begun EXCEPT !.invokeId  = Int32(invoke.members[1].octets),
                    !.localCode = code,
                    !.parameter = IF code = 0 /\ parameter # NoNode
                                  THEN parameter.octets ELSE <<>>]

(* Only a single component is looked at, and an invoke; any other number   *)
(* of them and the message is freed.                                       *)
FromComponents(begun, list, lost) ==
  IF Len(list) # 1 THEN [begun EXCEPT !.kept = lost]
  ELSE IF list[1].present = Component_PR_invoke THEN FromInvoke(begun, list[1].member)
  ELSE begun

(* An identifier without octets and a Begin without components are         *)
(* dereferenced all the same.                                              *)
FromBegin(begin, blocks, lost, heap) ==
  LET begun == [NoTransaction EXCEPT
                  !.transactionId = TransactionId(begin.members[1].octets, heap), !.kept = blocks]
  IN  IF ~begin.members[1].buf THEN [NoTransaction EXCEPT !.crash = TRUE]
      ELSE IF begin.members[3] = NoNode THEN [begun EXCEPT !.crash = TRUE]
      ELSE FromComponents(begun, begin.members[3].list, lost)

(* A message that does not decode is freed and leaves the defaults.        *)
FromMessage(r, lost, heap) ==
  IF r.code # "OK" THEN [NoTransaction EXCEPT !.kept = lost]
  ELSE IF r.node.present # TCMessage_PR_begin THEN [NoTransaction EXCEPT !.kept = r.blocks]
  ELSE FromBegin(r.node.member, r.blocks, lost, heap)

(* What freeing the message does not give back.                            *)
Lost(r) == r.blocks - ReleasedTCMessage(r.node)

TcapDecoded(r, heap) == FromMessage(r, Lost(r), heap)

(* The decoding constructor.                                               *)
TcapMessage(m, heap) == TcapDecoded(DecodeTCMessage(m), heap)

(* end(): the destination identifier always takes four octets; the answer  *)
(* is an invoke of operation 20, Connect.                                  *)
ConnectInvoke(invokeId, resultData) ==
  [present |-> Component_PR_invoke,
   member  |-> [members |->
     <<[octets |-> BigEndian32(invokeId)], NoNode,
       [present |-> OPERATION_PR_localValue, member |-> [octets |-> <<20>>]],
       [octets |-> resultData]>>]]

EndMessage(invokeId, transactionId, resultData) ==
  [present |-> TCMessage_PR_end,
   member  |-> [members |-> <<[octets |-> transactionId], NoNode,
                              [list |-> <<ConnectInvoke(invokeId, resultData)>>]>>]]

End(invokeId, transactionId, resultData) ==
  EncodeTCMessage(EndMessage(invokeId, transactionId, resultData))
=============================================================================
