----------------------------- MODULE PayloadScan -----------------------------
(***************************************************************************)
(* The loop of M3UAmessage::decodePayload, turn by turn, over the DATA     *)
(* messages a gateway may send.  The loop looks for two octets and not for *)
(* a parameter, so what it finds depends on what else the message carries. *)
(***************************************************************************)
EXTENDS M3UAmessage

CONSTANTS DataMessages,  \* the messages received
          HeapBytes      \* what an octet read past the end may be

ASSUME ScanAssumption == DataMessages \subseteq Seq(Byte) /\ HeapBytes \subseteq Byte

VARIABLES m_msg,    \* the message
          heap,     \* what lies behind it
          i,        \* the octet the loop looks at
          data      \* the members opc .. payload

vars == <<m_msg, heap, i, data>>

Init == m_msg \in DataMessages /\ heap \in HeapBytes /\ i = 0 /\ data = NoData

Looking == i < Len(m_msg)

Skip ==
  /\ Looking /\ ~TagAt(m_msg, i, heap)
  /\ i' = i + 1
  /\ UNCHANGED <<m_msg, heap, data>>

(* Mutant of Take: i += 16 without the i++ of the loop.                    *)
TakeAndStay ==
  /\ Looking /\ TagAt(m_msg, i, heap)
  /\ data' = Appended(data, DataAt(m_msg, i, heap))
  /\ i' = i + 16
  /\ UNCHANGED <<m_msg, heap>>

(* i += 16 in the body, i++ in the loop.                                   *)
Take ==
  /\ Looking /\ TagAt(m_msg, i, heap)
  /\ data' = Appended(data, DataAt(m_msg, i, heap))
  /\ i' = i + 17
  /\ UNCHANGED <<m_msg, heap>>

Next == Skip \/ Take

Spec == Init /\ [][Next]_vars

-----------------------------------------------------------------------------
(* Where RFC 4666 puts Protocol Data: parameters follow each other from    *)
(* octet 8, each rounded up to four octets.                                *)
LengthAt(k)  == 256 * m_msg[k + 3] + m_msg[k + 4]
After(k)     == k + 4 * ((LengthAt(k) + 3) \div 4)
Parameters   ==
  LET From[k \in Nat] == IF k + 4 > Len(m_msg) \/ LengthAt(k) < 4 THEN {} ELSE {k} \cup From[After(k)]
  IN  From[8]
ProtocolData == {k \in Parameters : m_msg[k + 1] = 2 /\ m_msg[k + 2] = 16}

(* The value of the parameter at octet p, cut into its fields.             *)
Octet(k, n) == SubSeq(m_msg, k + 1, k + n)
FieldsOf(p) ==
  [opc |-> Octet(p + 4, 4), dpc |-> Octet(p + 8, 4), si |-> Octet(p + 12, 1),
   ni  |-> Octet(p + 13, 1), mp |-> Octet(p + 14, 1), sls |-> Octet(p + 15, 1),
   payload |-> SubSeq(m_msg, p + 17, p + LengthAt(p))]

(* The message has a whole parameter of less than 256 octets at octet p,   *)
(* and the loop takes the two octets of its tag for a tag nowhere else;    *)
(* what it jumps over from there does not matter.                          *)
OnlyAt(p) ==
  /\ LengthAt(p) \in 16..255 /\ p + LengthAt(p) <= Len(m_msg)
  /\ TagAt(m_msg, p, heap)
  /\ \A k \in 0..(Len(m_msg) - 1) : TagAt(m_msg, k, heap) => k \in p..(p + 16)

(* decodePayload returns the fields of the Protocol Data parameter and     *)
(* nothing else, at the first turn that could and until the end, whatever  *)
(* precedes or follows the parameter and whatever the heap holds.          *)
DecodeCorrect ==
  \A p \in 0..(Len(m_msg) - 16) :
    OnlyAt(p) => data = IF i <= p THEN NoData ELSE FieldsOf(p)

(* Whatever the message, the loop ends with what DecodePayload says: the   *)
(* operator the other modules use is the loop of the code.                 *)
ScanAgrees == ~Looking => data = DecodePayload(m_msg, heap)

(* Of every field of the routing label there are as many octets as of any  *)
(* other, and no user data without them: a second tag duplicates the whole *)
(* label, never a part of it.                                              *)
LabelInStep ==
  /\ Len(data.opc) = 4 * Len(data.si) /\ Len(data.dpc) = 4 * Len(data.si)
  /\ Len(data.ni) = Len(data.si) /\ Len(data.mp) = Len(data.si) /\ Len(data.sls) = Len(data.si)
  /\ data.si = <<>> => data.payload = <<>>

-----------------------------------------------------------------------------
(* What the comment in decodePayload says of the parts of Protocol Data.   *)

(* "Originating Point Code: 32 bits (unsigned integer)": what is stored of *)
(* a message with one Protocol Data parameter has 32 bits.                 *)
PointCode32Bits ==
  ~Looking /\ ProtocolData # {} => Len(data.opc) = 4
=============================================================================
