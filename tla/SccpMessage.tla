----------------------------- MODULE SccpMessage -----------------------------
(***************************************************************************)
(* The SCCP UDT codec (SccpMessage.cpp).  The two addresses are cut out    *)
(* between consecutive pointers, so each one carries the length octet of   *)
(* the parameter after it as its last octet; the encoder drops it again.   *)
(***************************************************************************)
EXTENDS Octets

(* The constructor: message type UDT.  It reads octet 0 of the user data   *)
(* without looking whether there is one: SccpReadable says there is.       *)
SccpReadable(m) == m # <<>>
SccpValid(m)    == m[1] = 9

DecodeSccp(m, heap) ==
  LET calledPartyStart  == At(m, 2, heap) + 3
      callingPartyStart == At(m, 3, heap) + 4
      dataStart         == At(m, 4, heap) + 5
  IN  [called  |-> Copy(m, calledPartyStart, callingPartyStart, heap),
       calling |-> Copy(m, callingPartyStart, dataStart, heap),
       data    |-> Copy(m, dataStart, Len(m), heap)]

(* "Ignore last byte" of an empty address makes the unsigned size wrap and *)
(* the copying loop run off the heap: the program dies.                    *)
SccpEncodable(called, calling) == called # <<>> /\ calling # <<>>

EncodeSccp(tcap, called, calling) ==
  LET calledSize     == Len(called) - 1
      callingSize    == Len(calling) - 1
      callingPointer == Len(called) + 2
      dataPointer    == callingSize + callingPointer
  IN  <<9, 0, 3, LowByte(callingPointer), LowByte(dataPointer)>> \o
      <<LowByte(calledSize)>>  \o SubSeq(called, 1, calledSize) \o
      <<LowByte(callingSize)>> \o SubSeq(calling, 1, callingSize) \o
      <<LowByte(Len(tcap))>>   \o tcap
=============================================================================
