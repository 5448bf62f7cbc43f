------------------------------ MODULE Exchange ------------------------------
(***************************************************************************)
(* Query and answer: which queries the program is written for, and what    *)
(* the gateway should read in the answer.                                  *)
(***************************************************************************)
EXTENDS DataPipeline, Sgp

(* What a query is made of.                                                *)
Query ==
  [before : Seq(Byte), opc : [1..4 -> Byte], dpc : [1..4 -> Byte], sio : [1..4 -> Byte],
   called : Seq(Byte), calling : Seq(Byte), otid : Seq(Byte), dialogue : Seq(Byte),
   components : {NoPortion, 0, 1, 2}, invokeId : Int16, opCode : Seq(Byte), number : Seq(Byte)]

(* The queries decodePayload takes whole: a Protocol Data parameter of less *)
(* than 256 octets, and 02 10 nowhere but at it.                           *)
TagPlaces(m) == {k \in 1..(Len(m) - 1) : m[k] = 2 /\ m[k + 1] = 16}

Scanned(q) ==
  /\ Len(ProtocolValue(q)) + 4 <= 255
  /\ TagPlaces(DataMessage(q)) = {9 + Len(q.before)} /\ DataMessage(q)[Len(DataMessage(q))] # 2

(* The queries the program is written for: a transaction identifier of     *)
(* four octets, an invoke identifier with a successor, a number of an odd  *)
(* count of digits in 3 to 16 octets, the local operation InitialDP in a   *)
(* component portion, no dialogue portion in constructed form.             *)
Plain(q) ==
  /\ Len(q.otid) = 4 /\ q.invokeId \in -128..126
  /\ Len(q.number) \in 3..16 /\ q.number[1] >= 128
  /\ q.components = 1 /\ q.opCode = Der(2, <<0>>)
  /\ (q.dialogue # <<>> => q.dialogue[1] = 75)
  /\ Scanned(q)

(* The queries that reach the TCAP layer as they were sent: operation code *)
(* (local or global) and dialogue portion (an OCTET STRING in either form) *)
(* are one element each.                                                   *)
Whole(e) == Tlv(e).ok /\ Tlv(e).octets = e /\ Tlv(e).content # <<>>

Delivered(q) ==
  /\ Scanned(q)
  /\ q.opCode # <<>> /\ q.opCode[1] \in {2, 6} /\ Whole(q.opCode)
  /\ q.dialogue # <<>> => q.dialogue[1] \in {75, 107} /\ Whole(q.dialogue)

Translation(q) ==
  LET digits == CalledDigits(q.number)
  IN  IF digits \in DOMAIN Nums THEN Nums[digits] ELSE NoNum

(* The End that connects to newNum.                                        *)
ConnectOperation == Der(2, <<20>>)

ConnectArg(newNum) == Der(48, Der(160, Der(4, newNum)) \o Der(131, <<0>>))

ConnectInvokeOf(q, newNum) ==
  Der(161, Der(2, DerInteger(q.invokeId + 1)) \o ConnectOperation \o ConnectArg(newNum))

ConnectEnd(q, newNum) ==
  Der(100, Der(73, q.otid) \o Der(108, ConnectInvokeOf(q, newNum)))

(* The program writes the length of Protocol Data in one octet: an answer  *)
(* to be read must not be longer.                                          *)
AnswerFits(q, newNum) ==
  Len(Parameter(<<2, 16>>, q.opc \o q.dpc \o q.sio)) +
  8 + Len(q.calling) + Len(q.called) + Len(ConnectEnd(q, newNum)) <= 255

(* What the program asks of the asn1c runtime for a query: to read in it   *)
(* what the standard says, and to write the answer to it.                  *)
ReadsInvoke(invoke, q) ==
  /\ invoke.members[1].octets = DerInteger(q.invokeId)
  /\ invoke.members[3].present = OPERATION_PR_localValue
  /\ invoke.members[3].member.octets = <<0>>
  /\ invoke.members[4] # NoNode /\ invoke.members[4].octets = InitialDP(q)

ReadsBegin(begin, q) ==
  /\ begin.members[1].buf /\ begin.members[1].octets = q.otid
  /\ begin.members[3] # NoNode
  /\ Len(begin.members[3].list) = 1 /\ begin.members[3].list[1].present = Component_PR_invoke
  /\ ReadsInvoke(begin.members[3].list[1].member, q)

ReadsMessage(r, q) ==
  r.code = "OK" /\ r.node.present = TCMessage_PR_begin /\ ReadsBegin(r.node.member, q)

ReadsInitialDP(r, q) ==
  r.code = "OK" /\ r.node.members[2] # NoNode /\ r.node.members[2].octets = q.number

WritesConnect(q, newNum) ==
  /\ EncodeConnect(newNum) = ConnectArg(newNum)
  /\ End(q.invokeId + 1, q.otid, ConnectArg(newNum)) = ConnectEnd(q, newNum)

RuntimeServes(q) ==
  /\ \A r \in {DecodeTCMessage(Begin(q))} : ReadsMessage(r, q)
  /\ \A r \in {DecodeInitialDPArg(InitialDP(q))} : ReadsInitialDP(r, q)
  /\ \A newNum \in {NoNum, Translation(q)} \ {Null, <<>>} : WritesConnect(q, newNum)

(* A query of another kind asks for a number if it is a single invoke of   *)
(* InitialDP, the local operation 0, with a number of a length that        *)
(* parseNum can make digits of.  The program looks at local operation      *)
(* codes only, and keeps them in an int: CodeHeld are those it tells from  *)
(* one another.  (0 takes one octet: a longer code is another one.)        *)
OperationCode(q) == Int32(Tlv(q.opCode).content)

CodeHeld(q)    == q.opCode[1] = 2 /\ Len(Tlv(q.opCode).content) <= 4
HoldsNumber(q) == q.components = 1 /\ Len(q.number) \in 3..16
AsksNumber(q)  == HoldsNumber(q) /\ CodeHeld(q) /\ OperationCode(q) = 0

(* The program gives up a query with the dialogue portion of Q.773, which  *)
(* is an EXTERNAL where the grammar of the program has an OCTET STRING,    *)
(* and so does not decode; and one whose components are not one.           *)
HoldsExternal(dialogue) ==
  dialogue # <<>> /\ dialogue[1] = 107 /\ Tlv(dialogue).content[1] = 40

GivenUp(q) == HoldsExternal(q.dialogue) \/ q.components \in {0, 2}

(* What the program asks of the runtime for such a query: not to read in   *)
(* it what is not there, to refuse an EXTERNAL for an OCTET STRING, and to *)
(* give back what it allocated.                                            *)
ReadsComponent(component, q) ==
  component.present = Component_PR_invoke =>
    /\ component.member.members[4] # NoNode => component.member.members[4].octets = InitialDP(q)
    /\ q.opCode[1] = 2 =>
         /\ component.member.members[3].present = OPERATION_PR_localValue
         /\ Int32(component.member.members[3].member.octets) = OperationCode(q)

ReadsComponents(portion, q) ==
  /\ (portion = NoNode) = (q.components = NoPortion)
  /\ portion # NoNode => Len(portion.list) = q.components
  /\ q.components = 1 => ReadsComponent(portion.list[1], q)

ReadsNoMore(r, q) ==
  /\ Lost(r) = 0
  /\ r.code = "OK" =>
       /\ ~HoldsExternal(q.dialogue)
       /\ r.node.present = TCMessage_PR_begin /\ ReadsComponents(r.node.member.members[3], q)

RuntimeReads(q) ==
  /\ \A r \in {DecodeTCMessage(Begin(q))} : ReadsNoMore(r, q)
  /\ \A r \in {DecodeInitialDPArg(InitialDP(q))} :
       r.code = "OK" /\ r.node.members[2] # NoNode =>
         q.number # <<>> /\ r.node.members[2].octets = q.number
  /\ DecodeInitialDPArg(<<>>).code # "OK"

(* The answer the gateway expects to a query whose number translates to    *)
(* newNum: same label, addresses exchanged, its own transaction, the next  *)
(* invoke identifier, a Connect to that number.                            *)
Expected(q, newNum) ==
  [wellFormed |-> TRUE, opc |-> q.opc, dpc |-> q.dpc, sio |-> q.sio,
   called |-> q.calling, calling |-> q.called,
   dtid |-> q.otid, invokeId |-> q.invokeId + 1,
   opCode |-> ConnectOperation, address |-> newNum]
=============================================================================
