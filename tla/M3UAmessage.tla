----------------------------- MODULE M3UAmessage -----------------------------
(***************************************************************************)
(* The M3UA codec (M3UAmessage.cpp): the classification of a received      *)
(* message, the two ASP messages the program sends, the decoder of the     *)
(* Protocol Data parameter of a DATA message and the encoder of the reply. *)
(***************************************************************************)
EXTENDS Octets

(* The (class, type) pairs the constructor knows; everything else, too     *)
(* short a message and any other protocol version stay UNKNOWN.            *)
TypeOfHeader(msgClass, msgType) ==
  CASE msgClass = 0 /\ msgType = 1 -> "MGMT_NTFY"
    [] msgClass = 3 /\ msgType = 4 -> "ASPSM_ASPUP_ACK"
    [] msgClass = 4 /\ msgType = 3 -> "ASPTM_ASPAC_ACK"
    [] msgClass = 1 /\ msgType = 1 -> "TM_DATA"
    [] OTHER                       -> "UNKNOWN"

M3UAMsgType(m) ==
  IF Len(m) >= 8 /\ m[1] = 1 THEN TypeOfHeader(m[3], m[4]) ELSE "UNKNOWN"

CommonHeader(msgClass, msgType, tlvLength) ==
  <<1, 0, msgClass, msgType>> \o BigEndian32(tlvLength + 8)

AspUp == CommonHeader(3, 1, 0)

(* Traffic Mode Type = Loadshare.                                          *)
AspActive == CommonHeader(4, 1, 8) \o <<0, 11, 0, 8, 0, 0, 0, 2>>

(***************************************************************************)
(* decodePayload looks for the tag 02 10 at every octet of the message and *)
(* appends what follows each occurrence to the members opc .. payload.     *)
(***************************************************************************)
TagAt(m, i, heap) == At(m, i, heap) = 2 /\ At(m, i + 1, heap) = 16

NoData == [opc |-> <<>>, dpc |-> <<>>, si |-> <<>>, ni |-> <<>>,
           mp |-> <<>>, sls |-> <<>>, payload |-> <<>>]

(* Mutant of DataAt: dataLen -= 16 is left out.                            *)
DataWithLabel(m, i, heap) ==
  [opc |-> Copy(m, i + 4, i + 8, heap),   dpc |-> Copy(m, i + 8, i + 12, heap),
   si  |-> Copy(m, i + 12, i + 13, heap), ni  |-> Copy(m, i + 13, i + 14, heap),
   mp  |-> Copy(m, i + 14, i + 15, heap), sls |-> Copy(m, i + 15, i + 16, heap),
   payload |-> Copy(m, i + 16, i + 16 + At(m, i + 3, heap), heap)]

(* The length octet is the low one of the two; payload is empty when it is *)
(* smaller than 16, and is copied unchecked when it runs past the message. *)
DataAt(m, i, heap) ==
  [opc |-> Copy(m, i + 4, i + 8, heap),   dpc |-> Copy(m, i + 8, i + 12, heap),
   si  |-> Copy(m, i + 12, i + 13, heap), ni  |-> Copy(m, i + 13, i + 14, heap),
   mp  |-> Copy(m, i + 14, i + 15, heap), sls |-> Copy(m, i + 15, i + 16, heap),
   payload |-> Copy(m, i + 16, i + At(m, i + 3, heap), heap)]

(* Mutant of Appended: the member is assigned instead of appended to.      *)
OneAssigned(d, e) ==
  [opc |-> d.opc \o e.opc, dpc |-> d.dpc \o e.dpc, si |-> d.si \o e.si,
   ni |-> d.ni \o e.ni, mp |-> e.mp, sls |-> d.sls \o e.sls,
   payload |-> d.payload \o e.payload]

Appended(d, e) ==
  [opc |-> d.opc \o e.opc, dpc |-> d.dpc \o e.dpc, si |-> d.si \o e.si,
   ni |-> d.ni \o e.ni, mp |-> d.mp \o e.mp, sls |-> d.sls \o e.sls,
   payload |-> d.payload \o e.payload]

(* What is appended from octet i on: after a tag the scan goes on at       *)
(* i + 17, inside the user data just copied.                               *)
ScanFrom(m, heap) ==
  LET Scan[i \in Nat] ==
        IF i >= Len(m) THEN NoData
        ELSE IF TagAt(m, i, heap) THEN Appended(DataAt(m, i, heap), Scan[i + 17])
        ELSE Scan[i + 1]
  IN  Scan

DecodePayload(m, heap) == ScanFrom(m, heap)[0]

(***************************************************************************)
(* encodeMsg: Routing Context 2, then Protocol Data; only the low octet of *)
(* the parameter length is written; the octets are padded to a multiple of *)
(* four, and the padding counts in the message length only.                *)
(***************************************************************************)
EncodeMsg(sccp, d) ==
  LET body == d.opc \o d.dpc \o d.si \o d.ni \o d.mp \o d.sls \o sccp
      tlvs == <<0, 6, 0, 8, 0, 0, 0, 2>> \o
              <<2, 16, 0, LowByte(Len(body) + 4)>> \o body \o
              Zeros((4 - (Len(body) % 4)) % 4)
  IN  IF body = <<>> THEN <<>> ELSE CommonHeader(1, 1, Len(tlvs)) \o tlvs
=============================================================================
