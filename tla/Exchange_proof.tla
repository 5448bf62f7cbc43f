--------------------------- MODULE Exchange_proof ---------------------------
(***************************************************************************)
(* Lemmas about the exchange: what the program makes of a query it is      *)
(* written for, layer by layer, and what the gateway reads in the answer,  *)
(* for any query, any table of numbers and whatever lies behind the        *)
(* buffers, provided the asn1c runtime serves the query.                   *)
(***************************************************************************)
EXTENDS Exchange, Layers_proof

-----------------------------------------------------------------------------
(* What a query the program is written for is made of: the parts are       *)
(* octets, and the sizes add up to less than 256.                          *)
FourLong(s) == s \in Seq(Byte) /\ Len(s) = 4

(* A function on four octets is a sequence of four.                        *)
LEMMA FunctionIsSequence ==
  ASSUME NEW s \in [1..4 -> Byte]
  PROVE  FourLong(s)
<1>1. s \in Seq(Byte)
  <2>1. s = [k \in 1..4 |-> s[k]] /\ \A k \in 1..4 : s[k] \in Byte
    OBVIOUS
  <2>2. [k \in 1..4 |-> s[k]] \in Seq(Byte)
    BY <2>1
  <2> QED BY <2>1, <2>2, Zenon
<1>2. Len(s) = 4
  BY <1>1, LenProperties
<1> QED BY <1>1, <1>2 DEF FourLong

Parts(q) ==
  /\ FourLong(q.opc) /\ FourLong(q.dpc) /\ FourLong(q.sio)
  /\ q.before \in Seq(Byte) /\ q.called \in Seq(Byte) /\ q.calling \in Seq(Byte)
  /\ q.otid \in Seq(Byte) /\ q.dialogue \in Seq(Byte) /\ q.number \in Seq(Byte)
  /\ q.opCode \in Seq(Byte) /\ q.invokeId \in Int16
  /\ q.components \in {NoPortion, 0, 1, 2}

(* The fields of a query have their types and sizes.                       *)
LEMMA QueryParts ==
  ASSUME NEW q \in Query
  PROVE  Parts(q)
<1> DEFINE F == [1..4 -> Byte]
           S == Seq(Byte)
           C == {NoPortion, 0, 1, 2}
           I == Int16
<1>1. q \in [before : S, opc : F, dpc : F, sio : F, called : S, calling : S, otid : S, dialogue : S,
             components : C, invokeId : I, opCode : S, number : S]
  BY DEF Query
<1> HIDE DEF F, S, C, I
<1>2. /\ q.opc \in F /\ q.dpc \in F /\ q.sio \in F
      /\ q.before \in S /\ q.called \in S /\ q.calling \in S
      /\ q.otid \in S /\ q.dialogue \in S /\ q.number \in S /\ q.opCode \in S
      /\ q.components \in C /\ q.invokeId \in I
  BY <1>1
<1> QED BY <1>2, FunctionIsSequence, Zenon DEF Parts, F, S, C, I

(* A number of at most two octets is written in octets.                    *)
LEMMA DerIntegerType ==
  ASSUME NEW n \in Int16
  PROVE  DerInteger(n) \in Seq(Byte)
<1> DEFINE x == n % 256
           y == (n \div 256) % 256
           B == -128..127
<1>1. n \in Int
  BY SMT DEF Int16
<1>2. x \in Byte /\ y \in Byte
  BY <1>1 DEF Byte
<1>3. DerInteger(n) = CASE n \in B -> <<x>> [] n \in Int16 \ B -> <<y, x>>
  BY SMT DEF DerInteger
<1> HIDE DEF x, y, B
<1>4. <<x>> \in Seq(Byte) /\ <<y, x>> \in Seq(Byte)
  BY <1>2
<1>5. CASE n \in B
  <2>1. n \notin Int16 \ B
    BY <1>5
  <2>2. DerInteger(n) = <<x>>
    BY <1>3, <1>5, <2>1
  <2> QED BY <1>4, <2>2
<1>6. CASE n \notin B
  <2>1. n \in Int16 \ B
    BY <1>6
  <2>2. DerInteger(n) = <<y, x>>
    BY <1>3, <1>6, <2>1
  <2> QED BY <1>4, <2>2
<1> QED BY <1>5, <1>6

(* The tags of a query and its service key are octets.                     *)
LEMMA QueryTags ==
  /\ 98 \in Byte /\ 72 \in Byte /\ 108 \in Byte /\ 161 \in Byte /\ 2 \in Byte
  /\ 48 \in Byte /\ 128 \in Byte /\ 130 \in Byte /\ <<5>> \in Seq(Byte) /\ <<>> \in Seq(Byte)
BY DEF Byte

(* The InitialDP and the invoke in a query: octets, if they are short.     *)
LEMMA InitialDPOctets ==
  ASSUME NEW q, Parts(q)
  PROVE  OctetsIfShort(InitialDP(q))
<1> DEFINE t == 128
           u == 130
           v == 48
           key == <<5>>
           num == IF q.number = <<>> THEN <<>> ELSE Der(u, q.number)
<1>1. t \in Byte /\ u \in Byte /\ v \in Byte /\ key \in Seq(Byte) /\ <<>> \in Seq(Byte)
  BY QueryTags
<1>2. InitialDP(q) = Der(v, Der(t, key) \o num)
  BY Zenon DEF InitialDP
<1> HIDE DEF t, u, v, key
<1>3. OctetsIfShort(Der(t, key))
  BY <1>1, OctetsAlone, OctetsInElement, Zenon
<1>4. OctetsIfShort(num)
  BY <1>1, OctetsAlone, OctetsInElement, Zenon DEF Parts
<1> HIDE DEF num
<1>5. OctetsIfShort(Der(t, key) \o num)
  BY <1>3, <1>4, OctetsSideBySide, Zenon
<1> QED BY <1>1, <1>2, <1>5, OctetsInElement, Zenon

(* So is the invoke of it.                                                *)
LEMMA InvokeOctets ==
  ASSUME NEW q, Parts(q)
  PROVE  OctetsIfShort(Invoke(q))
<1> DEFINE t == 161
           u == 2
           i == Der(u, DerInteger(q.invokeId))
<1>1. t \in Byte /\ u \in Byte
  BY QueryTags
<1>2. Invoke(q) = Der(t, (i \o q.opCode) \o InitialDP(q))
  BY Zenon DEF Invoke
<1> HIDE DEF t, u
<1>3. OctetsIfShort(i) /\ OctetsIfShort(q.opCode)
  BY <1>1, DerIntegerType, OctetsAlone, OctetsInElement, Zenon DEF Parts
<1> HIDE DEF i
<1>4. OctetsIfShort((i \o q.opCode) \o InitialDP(q))
  BY <1>3, InitialDPOctets, OctetsSideBySide, Zenon
<1> QED BY <1>1, <1>2, <1>4, OctetsInElement, Zenon

Portion(q) ==
  CASE q.components = NoPortion -> <<>>
    [] q.components = 0         -> Der(108, <<>>)
    [] q.components = 1         -> Der(108, Invoke(q))
    [] q.components = 2         -> Der(108, Invoke(q) \o Invoke(q))

(* So is its component portion, whatever there is in it.                   *)
LEMMA PortionOctets ==
  ASSUME NEW q, Parts(q)
  PROVE  OctetsIfShort(Portion(q))
<1> DEFINE t == 108
           i == Invoke(q)
           c == q.components
<1>1. t \in Byte /\ <<>> \in Seq(Byte)
  BY QueryTags
<1>2. c = -1 \/ c = 0 \/ c = 1 \/ c = 2
  BY DEF Parts, NoPortion
<1>3. Portion(q) = CASE c = -1 -> <<>> [] c = 0 -> Der(t, <<>>)
                     [] c = 1 -> Der(t, i) [] c = 2 -> Der(t, i \o i)
  BY Zenon DEF Portion, NoPortion
<1> HIDE DEF t, i, c
<1>4. OctetsIfShort(<<>>) /\ OctetsIfShort(i)
  BY <1>1, InvokeOctets, OctetsAlone, Zenon DEF i
<1>5. OctetsIfShort(i \o i)
  BY <1>4, OctetsSideBySide, Zenon
<1>6. OctetsIfShort(Der(t, <<>>)) /\ OctetsIfShort(Der(t, i)) /\ OctetsIfShort(Der(t, i \o i))
  BY <1>1, <1>4, <1>5, OctetsInElement, Zenon
<1> DEFINE a == Der(t, <<>>)
           b == Der(t, i)
           d == Der(t, i \o i)
<1> HIDE DEF a, b, d
<1>7. Portion(q) = <<>> \/ Portion(q) = a \/ Portion(q) = b \/ Portion(q) = d
  <2>1. Portion(q) = CASE c = -1 -> <<>> [] c = 0 -> a [] c = 1 -> b [] c = 2 -> d
    BY <1>3, Zenon DEF a, b, d
  <2> QED BY <1>2, <2>1
<1> QED BY <1>4, <1>6, <1>7, Zenon DEF a, b, d

(* The Begin of a query consists of octets if it is short, whatever its    *)
(* dialogue portion, its operation code and its components.                *)
LEMMA BeginOctets ==
  ASSUME NEW q, Parts(q)
  PROVE  OctetsIfShort(Begin(q))
<1> DEFINE t == 98
           u == 72
           o == Der(u, q.otid)
<1>1. t \in Byte /\ u \in Byte
  BY QueryTags
<1>2. Begin(q) = Der(t, (o \o q.dialogue) \o Portion(q))
  BY Zenon DEF Begin, Portion
<1> HIDE DEF t, u
<1>3. OctetsIfShort(o) /\ OctetsIfShort(q.dialogue)
  BY <1>1, OctetsAlone, OctetsInElement, Zenon DEF Parts
<1> HIDE DEF o
<1>4. OctetsIfShort((o \o q.dialogue) \o Portion(q))
  BY <1>3, PortionOctets, OctetsSideBySide, Zenon
<1> QED BY <1>1, <1>2, <1>4, OctetsInElement, Zenon

(* The program is written for queries that decodePayload takes whole.      *)
LEMMA PlainScanned ==
  ASSUME NEW q, Plain(q)
  PROVE  Scanned(q)
BY Zenon DEF Plain

(* The sizes of what varies: the two addresses and the user data.          *)
QueryFits(q, c, g, d) ==
  /\ Begin(q) \in Seq(Byte) /\ c = Len(q.called) /\ g = Len(q.calling) /\ d = Len(Begin(q))
  /\ c \in Nat /\ g \in Nat /\ d \in Nat /\ 24 + (c + (g + d)) <= 255

(* What fits in a Protocol Data parameter of less than 256 octets:         *)
(* addresses and Begin have sizes of one octet.                            *)
LEMMA QuerySizes ==
  ASSUME NEW q, Parts(q), Scanned(q)
  PROVE  QueryFits(q, Len(q.called), Len(q.calling), Len(Begin(q)))
<1> DEFINE c == Len(q.called)
           g == Len(q.calling)
           b == Begin(q)
           d == Len(b)
           x == 3 + c
           y == 3 + c + g
           h == <<9, 0, 3, x, y>>
           u == h \o <<c>> \o q.called \o <<g>> \o q.calling \o <<d>> \o b
           v == q.opc \o q.dpc \o q.sio \o u
<1>1. OctetsIfShort(b)
  BY BeginOctets, Zenon
<1> HIDE DEF b
<1>2. Sized(q.called, c) /\ Sized(q.calling, g) /\ Sized(b, d)
  BY <1>1, SizedOf, Zenon DEF Parts, OctetsIfShort
<1>3. Sized(q.opc, 4) /\ Sized(q.dpc, 4) /\ Sized(q.sio, 4)
  BY SizedOf, Zenon DEF Parts, FourLong
<1>4. ProtocolValue(q) = v
  BY Zenon DEF ProtocolValue, Udt, b
<1>5. c \in Nat /\ g \in Nat /\ d \in Nat
  BY <1>2, Zenon DEF Sized
<1> HIDE DEF c, g, d
<1>6. x \in Int /\ y \in Int /\ c \in Int /\ g \in Int /\ d \in Int /\ 9 \in Int /\ 0 \in Int /\ 3 \in Int
  BY <1>5
<1> HIDE DEF x, y
<1>7. Sized(h, 5)
  BY <1>6, SizedFive, Zenon
<1> HIDE DEF h
<1>8. Sized(u, 8 + (c + (g + d)))
  BY <1>2, <1>6, <1>7, UdtSize, Zenon
<1> HIDE DEF u
<1>9. Sized(v, 12 + (8 + (c + (g + d))))
  BY <1>3, <1>8, LabelSize, Zenon
<1>10. Len(v) + 4 <= 255
  BY <1>4, Zenon DEF Scanned
<1>11. Len(v) = 12 + (8 + (c + (g + d)))
  BY <1>9, Zenon DEF Sized
<1>12. 24 + (c + (g + d)) <= 255 /\ d <= 255
  BY <1>5, <1>10, <1>11
<1>13. b \in Seq(Byte)
  BY <1>1, <1>12, Zenon DEF OctetsIfShort, Short, d
<1> QED BY <1>5, <1>12, <1>13, Zenon DEF QueryFits, b, c, g, d

(* The UDT message in the query.                                           *)
LEMMA QueryUdt ==
  ASSUME NEW q, Parts(q), NEW c, NEW g, NEW d, QueryFits(q, c, g, d),
         NEW u, u = Udt(q.called, q.calling, Begin(q))
  PROVE  /\ UdtIs(u, q.called, q.calling, Begin(q), c, g, d) /\ u \in Seq(Byte)
         /\ 16 + Len(u) \in Byte /\ c \in Byte /\ g \in Byte /\ d \in Byte
<1>1. c \in Nat /\ g \in Nat /\ d \in Nat /\ 24 + (c + (g + d)) <= 255
  BY Zenon DEF QueryFits
<1>2. \A i, j, k \in Nat : 24 + (i + (j + k)) <= 255 =>
        /\ i \in Byte /\ j \in Byte /\ k \in Byte /\ (3 + i) + j \in Byte
        /\ 16 + ((8 + i) + (j + k)) \in Byte
  BY DEF Byte
<1>3. /\ c \in Byte /\ g \in Byte /\ d \in Byte /\ (3 + c) + g \in Byte
      /\ 16 + ((8 + c) + (g + d)) \in Byte
  BY <1>1, <1>2, Zenon
<1>4. UdtIs(u, q.called, q.calling, Begin(q), c, g, d)
  BY <1>3, UdtParts, Zenon DEF Parts, QueryFits
<1>5. u \in Seq(Byte) /\ Len(u) = (8 + c) + (g + d)
  BY <1>4, Zenon DEF UdtIs
<1> QED BY <1>3, <1>4, <1>5, Zenon

(* decodePayload and the SCCP constructor find the parts of the query.     *)
TakenFrom(q) == Members(q.opc, q.dpc, q.sio, Udt(q.called, q.calling, Begin(q)))

(* In such a query the tag is at Protocol Data and nowhere else.           *)
LEMMA TagAlone ==
  ASSUME NEW q, Scanned(q), Len(q.before) \in Nat
  PROVE  OnlyTagAt(DataMessage(q), 8 + Len(q.before))
<1> DEFINE m == DataMessage(q)
           p == Len(q.before)
<1>1. TagPlaces(m) = {9 + p} /\ m[Len(m)] # 2
  BY Zenon DEF Scanned
<1> HIDE DEF m, p
<1>2. ASSUME NEW k \in 1..(Len(m) - 1), m[k] = 2, m[k + 1] = 16
      PROVE  k = 9 + p
  <2>1. k \in TagPlaces(m)
    BY <1>2, Zenon DEF TagPlaces
  <2> QED BY <2>1, <1>1, Zenon
<1>3. 9 + p = (8 + p) + 1
  BY DEF p
<1>4. \A k \in 1..(Len(m) - 1) : m[k] = 2 /\ m[k + 1] = 16 => k = (8 + p) + 1
  BY <1>2, <1>3, Zenon
<1>5. OnlyTagAt(m, 8 + p)
  BY <1>1, <1>4, Zenon DEF OnlyTagAt
<1> QED BY <1>5, Zenon DEF m, p

(* So decodePayload takes the label and the user data of the query,        *)
(* whatever lies behind the message.                                       *)
LEMMA QueryTaken ==
  ASSUME NEW q, Parts(q), Scanned(q), NEW h \in Byte
  PROVE  DecodePayload(DataMessage(q), h) = TakenFrom(q)
<1> DEFINE u == Udt(q.called, q.calling, Begin(q))
<1>1. u \in Seq(Byte) /\ 16 + Len(u) \in Byte
  BY QuerySizes, QueryUdt, Zenon
<1>2. Len(q.before) \in Nat
  BY LenProperties, Zenon DEF Parts
<1>3. OnlyTagAt(DataMessage(q), 8 + Len(q.before))
  BY <1>2, TagAlone, Zenon
<1>4. IsData(DataMessage(q), q.before, q.opc, q.dpc, q.sio, u)
  BY <1>3, Zenon DEF DataMessage, ProtocolValue, IsData
<1>5. q.before \in Seq(Byte) /\ Labelled(q.opc, q.dpc, q.sio, u)
  BY <1>1, Zenon DEF Parts, FourLong, Labelled
<1> HIDE DEF u
<1>6. TakesData(DataMessage(q), h, q.opc, q.dpc, q.sio, u)
  BY <1>4, <1>5, DataTaken, Zenon
<1> QED BY <1>6, Zenon DEF TakesData, TakenFrom, u

(* The addresses as they are cut out, each with the octet behind it.       *)
AddressesOf(q) ==
  [called |-> q.called \o <<Len(q.calling)>>, calling |-> q.calling \o <<Len(Begin(q))>>,
   data |-> Begin(q)]

(* decodeSccp of the user data: the addresses, each with the octet behind  *)
(* it, and the Begin.                                                      *)
LEMMA QuerySccp ==
  ASSUME NEW q, Parts(q), Scanned(q), NEW h \in Byte,
         NEW u, u = Udt(q.called, q.calling, Begin(q))
  PROVE  SccpReadable(u) /\ SccpValid(u) /\ DecodeSccp(u, h) = AddressesOf(q)
<1> DEFINE c == Len(q.called)
           g == Len(q.calling)
           d == Len(Begin(q))
<1>1. QueryFits(q, c, g, d)
  BY QuerySizes, Zenon
<1>2. /\ UdtIs(u, q.called, q.calling, Begin(q), c, g, d)
      /\ c \in Byte /\ g \in Byte /\ d \in Byte
  BY <1>1, QueryUdt, Zenon
<1>3. Addressed(q.called, q.calling, Begin(q), c, g, d)
  BY <1>1, <1>2, Zenon DEF Parts, QueryFits, Addressed
<1> HIDE DEF c, g, d
<1>4. TakesSccp(u, h, q.called, q.calling, Begin(q), g, d)
  BY <1>2, <1>3, SccpTaken, Zenon
<1> QED BY <1>4, Zenon DEF TakesSccp, AddressesOf, g, d

(* What is left is what the TCAP layer makes of the user data.             *)
LEMMA QueryReachesTcap ==
  ASSUME NEW q, Parts(q), Scanned(q), NEW h \in Byte, NEW f
  PROVE  HandleData(DataMessage(q), h, f) =
           WithTcap(TakenFrom(q), AddressesOf(q), TcapMessage(Begin(q), h), f)
<1> DEFINE u == Udt(q.called, q.calling, Begin(q))
<1>1. DecodePayload(DataMessage(q), h) = TakenFrom(q)
  BY QueryTaken, Zenon
<1>2. SccpReadable(u) /\ SccpValid(u) /\ DecodeSccp(u, h) = AddressesOf(q)
  BY QuerySccp, Zenon
<1>3. TakenFrom(q).payload = u
  BY DEF TakenFrom, Members
<1>4. AddressesOf(q).data = Begin(q)
  BY DEF AddressesOf
<1> HIDE DEF u
<1> QED BY <1>1, <1>2, <1>3, <1>4, Zenon DEF HandleData, WithM3ua, WithSccp

-----------------------------------------------------------------------------
(* What the TCAP and INAP layers make of the query, with a runtime that    *)
(* reads what the standard says.                                           *)

(* Four octets are read as they are.                                       *)
LEMMA FourRead ==
  ASSUME NEW otid \in Seq(Byte), Len(otid) = 4, NEW h
  PROVE  TransactionId(otid, h) = otid
<1>1. otid = [k \in 1..4 |-> otid[k]]
  OBVIOUS
<1>2. TransactionId(otid, h) = [k \in 1..4 |-> otid[k]]
  BY DEF TransactionId
<1> QED BY <1>1, <1>2, Zenon

(* One octet is read as a number of one octet.                             *)
LEMMA OneRead ==
  ASSUME NEW x, NEW s, s = <<x>>
  PROVE  Int32(s) = Number(s)
<1>1. ~(Len(s) > 4)
  OBVIOUS
<1> QED BY <1>1, Zenon DEF Int32

(* The invoke identifier is read as the gateway wrote it.                  *)
LEMMA InvokeIdRead ==
  ASSUME NEW n \in -128..127
  PROVE  Int32(DerInteger(n)) = n
<1> DEFINE x == n % 256
<1>1. Number(DerInteger(n)) = n /\ DerInteger(n) = <<x>>
  BY DerIntegerRead
<1> HIDE DEF x
<1>2. Int32(DerInteger(n)) = Number(DerInteger(n))
  BY <1>1, OneRead, Zenon
<1> QED BY <1>1, <1>2, Zenon

(* The operation code of InitialDP is 0.                                   *)
LEMMA CodeRead == Int32(<<0>>) = 0
<1>1. Int32(<<0>>) = Number(<<0>>)
  BY OneRead, Zenon
<1>2. Number(<<0>>) = 0
  BY NumberOfOne
<1> QED BY <1>1, <1>2, Zenon

(* What the TCAP constructor should find.                                  *)
TcapReads(t, q) ==
  /\ t.crash = FALSE /\ t.localCode = 0 /\ t.invokeId = q.invokeId
  /\ t.transactionId = q.otid /\ t.parameter = InitialDP(q)

(* From an invoke that the runtime reads as the standard says, the         *)
(* constructor takes identifier, code and parameter.                       *)
LEMMA InvokeTaken ==
  ASSUME NEW q, q.invokeId \in -128..127, NEW invoke, ReadsInvoke(invoke, q),
         NEW k, NEW b, b = [NoTransaction EXCEPT !.transactionId = q.otid, !.kept = k]
  PROVE  TcapReads(FromInvoke(b, invoke), q)
<1>1. /\ Int32(invoke.members[1].octets) = q.invokeId
      /\ invoke.members[3].present = OPERATION_PR_localValue
      /\ Int32(invoke.members[3].member.octets) = 0
      /\ invoke.members[4] # NoNode /\ invoke.members[4].octets = InitialDP(q)
  BY InvokeIdRead, CodeRead, Zenon DEF ReadsInvoke
<1> DEFINE o == invoke.members[3]
           p == invoke.members[4]
           i == Int32(invoke.members[1].octets)
           c == IF o.present = OPERATION_PR_localValue THEN Int32(o.member.octets) ELSE 0
           d == IF c = 0 /\ p # NoNode THEN p.octets ELSE <<>>
           u == [b EXCEPT !.invokeId = i, !.localCode = c, !.parameter = d]
<1>2. c = 0 /\ d = InitialDP(q) /\ i = q.invokeId
  BY <1>1, Zenon
<1>3. FromInvoke(b, invoke) = u
  BY Zenon DEF FromInvoke
<1> HIDE DEF c, d, i, o, p
<1>4. InvokeIs(u, FALSE, c, q.otid, i, d)
  <2> DEFINE s == NoTransaction
  <2>1. s = [crash |-> FALSE, localCode |-> 0, transactionId |-> Zeros(4), invokeId |-> -1,
             parameter |-> <<>>, kept |-> 0]
    BY Zenon DEF NoTransaction
  <2> HIDE DEF s
  <2>2. b = [s EXCEPT !.transactionId = q.otid, !.kept = k]
    BY Zenon DEF s
  <2>3. SetInTurn(s, FALSE, 0, Zeros(4), -1, <<>>, 0, b, q.otid, k, u, i, c, d)
    BY <2>1, <2>2, Zenon DEF SetInTurn
  <2> QED BY <2>3, InvokeSet, Zenon
<1> HIDE DEF u
<1> QED BY <1>2, <1>3, <1>4, Zenon DEF TcapReads, InvokeIs

(* The constructor of TcapMessage takes from the Begin the transaction,    *)
(* the invoke and the InitialDP of the query.                              *)
LEMMA QueryTcap ==
  ASSUME NEW q, Parts(q), Plain(q), RuntimeServes(q), NEW h
  PROVE  TcapReads(TcapMessage(Begin(q), h), q)
<1> DEFINE r == DecodeTCMessage(Begin(q))
           n == r.node.member
           k == r.blocks
           l == Lost(r)
           begun == [NoTransaction EXCEPT
                       !.transactionId = TransactionId(n.members[1].octets, h), !.kept = k]
           b == [NoTransaction EXCEPT !.transactionId = q.otid, !.kept = k]
<1>1. ReadsMessage(r, q)
  BY Zenon DEF RuntimeServes
<1> HIDE DEF r, k, l
<1>2. r.code = "OK" /\ r.node.present = TCMessage_PR_begin /\ ReadsBegin(n, q)
  BY <1>1, Zenon DEF ReadsMessage
<1> HIDE DEF n
<1>3. TransactionId(n.members[1].octets, h) = q.otid
  <2>1. n.members[1].octets = q.otid
    BY <1>2, Zenon DEF ReadsBegin
  <2>2. TransactionId(q.otid, h) = q.otid
    BY FourRead, Zenon DEF Plain, Parts
  <2> QED BY <2>1, <2>2, Zenon
<1>4. begun = b
  BY <1>3, Zenon
<1>5. TcapMessage(Begin(q), h) = FromMessage(r, l, h)
  BY Zenon DEF TcapMessage, TcapDecoded, r, l
<1>6. FromMessage(r, l, h) = FromBegin(n, k, l, h)
  BY <1>2, Zenon DEF FromMessage, n, k
<1>7. FromBegin(n, k, l, h) = FromComponents(begun, n.members[3].list, l)
  BY <1>2, Zenon DEF FromBegin, ReadsBegin
<1> HIDE DEF b, begun
<1>8. /\ FromComponents(b, n.members[3].list, l) = FromInvoke(b, n.members[3].list[1].member)
      /\ ReadsInvoke(n.members[3].list[1].member, q)
  BY <1>2, Zenon DEF FromComponents, ReadsBegin
<1>9. q.invokeId \in -128..127
  BY DEF Plain
<1>10. TcapReads(FromInvoke(b, n.members[3].list[1].member), q)
  BY <1>8, <1>9, InvokeTaken, Zenon DEF b
<1> QED BY <1>4, <1>5, <1>6, <1>7, <1>8, <1>10, Zenon

(* What comes out for a query when f fails: the digits of its number, or   *)
(* none without a line of them, or the end of the program.                 *)
DigitsWhen(q, f) ==
  IF f = "fopen" THEN Aborted
  ELSE Found(IF f \in LineFaults THEN <<>> ELSE CalledDigits(q.number))

(* So it is: data.txt holds the number, or fails at one of its three uses. *)
LEMMA QueryInap ==
  ASSUME NEW q, Parts(q), Plain(q), RuntimeServes(q), NEW f
  PROVE  InapMessage(0, InitialDP(q), f) = DigitsWhen(q, f)
<1> DEFINE r == DecodeInitialDPArg(InitialDP(q))
<1>1. ReadsInitialDP(r, q)
  BY Zenon DEF RuntimeServes
<1>2. InapMessage(0, InitialDP(q), f) = FromInitialDP(r, f)
  BY Zenon DEF InapMessage, DecodeInitialDP
<1> HIDE DEF r
<1>3. r.code = "OK" /\ r.node.members[2] # NoNode /\ r.node.members[2].octets = q.number
  BY <1>1, Zenon DEF ReadsInitialDP
<1>4. FromInitialDP(r, f) = IF f = "fopen" THEN Aborted ELSE ParseNum(q.number, f)
  BY <1>3, Zenon DEF FromInitialDP
<1>5. ParseLine(q.number) = Found(EraseLast(NumberDigits(q.number)))
  BY ParseLineDigits, Zenon DEF Plain, Parts
<1>6. EraseLast(NumberDigits(q.number)) = CalledDigits(q.number)
  <2>1. q.number \in Seq(Byte) /\ Len(q.number) \in 3..16 /\ q.number[1] >= 128
    BY Zenon DEF Plain, Parts
  <2> QED BY <2>1, OddDigits
<1>7. ParseNum(q.number, f) =
        Found(IF f \in LineFaults THEN <<>> ELSE CalledDigits(q.number))
  BY <1>5, <1>6, Zenon DEF ParseNum
<1> QED BY <1>2, <1>4, <1>7, Zenon DEF DigitsWhen

-----------------------------------------------------------------------------
(* What comes of a query, by the number it translates to when f fails.     *)
NumberWhen(q, f) == IF f = "prepare" THEN NoNum ELSE Translation(q)

AnswerTo(q, newNum) ==
  SendReply(EncodeMsg(EncodeSccp(ConnectEnd(q, newNum), AddressesOf(q).calling, AddressesOf(q).called),
                      TakenFrom(q)))

(* Neither address is empty: each has at least the octet behind it.        *)
LEMMA AddressesEncodable ==
  ASSUME NEW q, Parts(q), Scanned(q)
  PROVE  SccpEncodable(AddressesOf(q).calling, AddressesOf(q).called)
<1> DEFINE c == Len(q.called)
           g == Len(q.calling)
           d == Len(Begin(q))
           u == Udt(q.called, q.calling, Begin(q))
<1>1. QueryFits(q, c, g, d)
  BY QuerySizes, Zenon
<1>2. g \in Byte /\ d \in Byte
  BY <1>1, QueryUdt, Zenon
<1> HIDE DEF g, d
<1>3. q.called \in Seq(Byte) /\ q.calling \in Seq(Byte)
  BY Zenon DEF Parts
<1>4. q.called \o <<g>> # <<>> /\ q.calling \o <<d>> # <<>>
  BY <1>2, <1>3, AddressCut, Zenon
<1>5. AddressesOf(q).calling = q.calling \o <<d>> /\ AddressesOf(q).called = q.called \o <<g>>
  BY DEF AddressesOf, g, d
<1> QED BY <1>4, <1>5, Zenon DEF SccpEncodable

(* A number to connect to is answered with the End that connects to it.    *)
LEMMA NumberAnswered ==
  ASSUME NEW q, Parts(q), Plain(q), RuntimeServes(q), NEW t, TcapReads(t, q),
         NEW n, n \in {NoNum, Translation(q)}, n # Null, n # <<>>
  PROVE  WithNewNum(TakenFrom(q), AddressesOf(q), t, n) = AnswerTo(q, n)
<1>1. WritesConnect(q, n)
  BY Zenon DEF RuntimeServes
<1>2. t.invokeId = q.invokeId /\ t.transactionId = q.otid
  BY Zenon DEF TcapReads
<1>3. End(t.invokeId + 1, t.transactionId, EncodeConnect(n)) = ConnectEnd(q, n)
  BY <1>1, <1>2, Zenon DEF WritesConnect
<1>4. SccpEncodable(AddressesOf(q).calling, AddressesOf(q).called)
  BY PlainScanned, AddressesEncodable, Zenon
<1> QED BY <1>3, <1>4, Zenon DEF WithNewNum, Reply, Answer, AnswerTo

(* The number the program finds: none when the database fails in the       *)
(* middle of the statement.                                                *)
Sqlite(f) == IF f \in {"prepare", "step"} THEN f ELSE "ok"

(* The database finds the number the query translates to, the default one  *)
(* if the statement is refused, and nothing if it fails while running.     *)
LEMMA NumberFound ==
  ASSUME NEW q, NEW f \in {"none"} \cup AllFaults
  PROVE  Find(CalledDigits(q.number), Sqlite(f)) = IF f = "step" THEN <<>> ELSE NumberWhen(q, f)
<1>1. CASE f = "step"
  <2>1. Sqlite(f) = "step"
    BY <1>1 DEF Sqlite
  <2> QED BY <1>1, <2>1 DEF Find
<1>2. CASE f = "prepare"
  <2>1. Sqlite(f) = "prepare"
    BY <1>2 DEF Sqlite
  <2> QED BY <1>2, <2>1 DEF Find, NumberWhen
<1>3. CASE f \in {"none", "fopen"} \cup LineFaults
  <2>1. Sqlite(f) = "ok" /\ f # "step" /\ f # "prepare"
    BY <1>3 DEF Sqlite, LineFaults
  <2> QED BY <2>1, Zenon DEF Find, NumberWhen, Translation
<1> QED BY <1>1, <1>2, <1>3 DEF AllFaults

(* Everything that may come of the query.                                  *)
ComesTo(w, q, f) ==
  \/ f = "fopen" /\ w = Crash
  \/ f \in {"step"} \cup LineFaults /\ w = NoReply
  \/ f \in {"none", "prepare"} /\ NumberWhen(q, f) = Null /\ w = Crash
  \/ f \in {"none", "prepare"} /\ NumberWhen(q, f) = <<>> /\ w = NoReply
  \/ /\ f \in {"none", "prepare"} /\ NumberWhen(q, f) \notin {Null, <<>>}
     /\ w = AnswerTo(q, NumberWhen(q, f))

(* NULL is not a number without digits.                                    *)
LEMMA NullNotEmpty == Null # <<>>
<1>1. <<>> \in Seq(Byte)
  OBVIOUS
<1> QED BY <1>1, NumsAssumption, Zenon

(* Handling a query the program is written for comes to the outcome that   *)
(* its number and what fails outside say.                                  *)
LEMMA QueryComesTo ==
  ASSUME NEW q, Parts(q), Plain(q), RuntimeServes(q), NEW h \in Byte,
         NEW f \in {"none"} \cup AllFaults
  PROVE  ComesTo(HandleData(DataMessage(q), h, f), q, f)
<1> DEFINE t == TcapMessage(Begin(q), h)
           w == HandleData(DataMessage(q), h, f)
           x == CalledDigits(q.number)
           i == InapMessage(0, InitialDP(q), f)
           n == Find(x, Sqlite(f))
<1>1. TcapReads(t, q)
  BY QueryTcap, Zenon
<1>2. w = WithTcap(TakenFrom(q), AddressesOf(q), t, f)
  BY PlainScanned, QueryReachesTcap, Zenon
<1> HIDE DEF t, w
<1>3. w = WithInap(TakenFrom(q), AddressesOf(q), t, i, f)
  BY <1>1, <1>2, Zenon DEF TcapReads, WithTcap
<1>4. i = IF f = "fopen" THEN Aborted ELSE Found(IF f \in LineFaults THEN <<>> ELSE x)
  BY QueryInap, Zenon DEF DigitsWhen
<1>5. x # <<>>
  <2>1. q.number \in Seq(Byte) /\ Len(q.number) \in 3..16 /\ q.number[1] >= 128
    BY Zenon DEF Plain, Parts
  <2> QED BY <2>1, OddDigits
<1> HIDE DEF i
<1>6. n = IF f = "step" THEN <<>> ELSE NumberWhen(q, f)
  BY NumberFound, Zenon
<1> HIDE DEF x
<1>7. CASE f = "fopen"
  <2>1. i.crash = TRUE
    BY <1>4, <1>7 DEF Aborted
  <2>2. w = Crash
    BY <1>3, <2>1, Zenon DEF WithInap
  <2> QED BY <1>7, <2>2, Zenon DEF ComesTo, w
<1>8. CASE f \in LineFaults
  <2>1. f # "fopen"
    BY <1>8 DEF LineFaults
  <2>2. i.crash = FALSE /\ i.number = <<>>
    BY <1>4, <1>8, <2>1 DEF Found
  <2>3. w = NoReply
    BY <1>3, <2>2, Zenon DEF WithInap
  <2> QED BY <1>8, <2>3, Zenon DEF ComesTo, w
<1>9. CASE f # "fopen" /\ f \notin LineFaults
  <2>1. i.crash = FALSE /\ i.number = x
    BY <1>4, <1>9 DEF Found
  <2>2. w = WithNewNum(TakenFrom(q), AddressesOf(q), t, n)
    BY <1>3, <1>5, <2>1, Zenon DEF WithInap, Sqlite, n
  <2> HIDE DEF n
  <2>3. n = Null => w = Crash
    BY <2>2, Zenon DEF WithNewNum
  <2>4. n = <<>> => w = NoReply
    BY <2>2, NullNotEmpty, Zenon DEF WithNewNum
  <2>5. CASE f = "step"
    <3>1. w = NoReply
      BY <1>6, <2>4, <2>5, Zenon
    <3> QED BY <2>5, <3>1, Zenon DEF ComesTo, w
  <2>6. CASE f # "step"
    <3>1. n = NumberWhen(q, f) /\ n \in {NoNum, Translation(q)}
      BY <1>6, <2>6, Zenon DEF NumberWhen
    <3>2. n # Null /\ n # <<>> => w = AnswerTo(q, n)
      BY <1>1, <2>2, <3>1, NumberAnswered, Zenon
    <3>3. f \in {"none", "prepare"}
      BY <1>9, <2>6 DEF AllFaults
    <3> QED BY <2>3, <2>4, <3>1, <3>2, <3>3, Zenon DEF ComesTo, w
  <2> QED BY <2>5, <2>6, Zenon
<1> QED BY <1>7, <1>8, <1>9, Zenon

-----------------------------------------------------------------------------
(* The answer.  Reading the End back, when its size fits in one octet.     *)
LEMMA NextInvokeId ==
  ASSUME NEW q, Plain(q)
  PROVE  /\ q.invokeId + 1 \in -128..127 /\ Number(DerInteger(q.invokeId + 1)) = q.invokeId + 1
         /\ DerInteger(q.invokeId + 1) \in Seq(Byte)
         /\ Sized(DerInteger(q.invokeId + 1), 1)
<1>1. q.invokeId + 1 \in -128..127
  <2>1. q.invokeId \in -128..126
    BY DEF Plain
  <2>2. \A k \in -128..126 : k + 1 \in -128..127
    OBVIOUS
  <2> QED BY <2>1, <2>2, Zenon
<1> DEFINE i == q.invokeId + 1
           x == i % 256
<1>2. Number(DerInteger(i)) = i /\ DerInteger(i) = <<x>> /\ x \in Byte
  BY <1>1, DerIntegerRead
<1> HIDE DEF i, x
<1>3. <<x>> \in Seq(Byte) /\ Len(<<x>>) = 1
  BY <1>2
<1>4. Sized(<<x>>, 1)
  BY <1>2, SizedOne DEF Byte
<1> QED BY <1>1, <1>2, <1>3, <1>4, Zenon DEF i

(* The tags and the short contents are octets.                             *)
LEMMA AnswerTags ==
  /\ 100 \in Byte /\ 73 \in Byte /\ 108 \in Byte /\ 161 \in Byte /\ 2 \in Byte
  /\ 48 \in Byte /\ 160 \in Byte /\ 4 \in Byte /\ 131 \in Byte
  /\ <<0>> \in Seq(Byte) /\ <<20>> \in Seq(Byte) /\ NoNum \in Seq(Byte)
BY DEF Byte, NoNum

(* The gateway reads the End that connects to a number: transaction,       *)
(* identifier, operation and number.                                       *)
LEMMA EndReadBack ==
  ASSUME NEW q, Parts(q), Plain(q), NEW n \in Seq(Byte), Len(ConnectEnd(q, n)) <= 255
  PROVE  ReadsEnd(ConnectEnd(q, n), q.otid, DerInteger(q.invokeId + 1), ConnectOperation, n)
<1> DEFINE tE == 100
           tO == 73
           tP == 108
           tI == 161
           tN == 2
           tC == 2
           tS == 48
           tL == 160
           tA == 4
           tF == 131
           flag == <<0>>
           code == <<20>>
           id == DerInteger(q.invokeId + 1)
           ad == Der(tA, n)
           conn == Der(tL, ad) \o Der(tF, flag)
           args == (Der(tN, id) \o Der(tC, code)) \o Der(tS, conn)
           inv == Der(tI, args)
           parts == Der(tO, q.otid) \o Der(tP, inv)
<1>1. /\ tE \in Byte /\ tO \in Byte /\ tP \in Byte /\ tI \in Byte /\ tN \in Byte /\ tC \in Byte
      /\ tS \in Byte /\ tL \in Byte /\ tA \in Byte /\ tF \in Byte
      /\ flag \in Seq(Byte) /\ code \in Seq(Byte)
  BY AnswerTags
<1>2. id \in Seq(Byte) /\ q.otid \in Seq(Byte)
  BY NextInvokeId, Zenon DEF Parts
<1>3. ConnectEnd(q, n) = Der(tE, parts) /\ ConnectOperation = Der(tC, code)
  BY Zenon DEF ConnectEnd, ConnectInvokeOf, ConnectArg, ConnectOperation
<1> HIDE DEF tE, tO, tP, tI, tN, tC, tS, tL, tA, tF, flag, code, id
<1>4. Short(Der(tE, parts))
  <2>1. ad \in Seq(Int) /\ Der(tF, flag) \in Seq(Int)
    BY <1>1, AreNumbers, Zenon
  <2>2. conn \in Seq(Int)
    BY <1>1, <2>1, AreNumbers, Zenon
  <2>3. Der(tN, id) \in Seq(Int) /\ Der(tC, code) \in Seq(Int) /\ Der(tS, conn) \in Seq(Int)
    BY <1>1, <1>2, <2>2, AreNumbers, Zenon
  <2>4. args \in Seq(Int)
    BY <2>3, AreNumbers, Zenon
  <2>5. Der(tO, q.otid) \in Seq(Int) /\ Der(tP, inv) \in Seq(Int)
    BY <1>1, <1>2, <2>4, AreNumbers, Zenon
  <2>6. Der(tE, parts) \in Seq(Int)
    BY <1>1, <2>5, AreNumbers, Zenon
  <2> QED BY <1>3, <2>6, Zenon DEF Short
<1>5. ReadsEnd(Der(tE, parts), q.otid, id, Der(tC, code), n)
  BY <1>1, <1>2, <1>4, EndRead, Zenon
<1> QED BY <1>3, <1>5, Zenon DEF id

(* The End that connects to the default number has 30 octets.              *)
LEMMA DefaultEndSize ==
  ASSUME NEW q, Parts(q), Plain(q)
  PROVE  Sized(ConnectEnd(q, NoNum), 30)
<1>1. Sized(DerInteger(q.invokeId + 1), 1) /\ Sized(q.otid, 4)
  BY NextInvokeId, SizedOf, Zenon DEF Parts, Plain
<1>2. Sized(NoNum, 3) /\ Sized(<<0>>, 1) /\ Sized(<<20>>, 1)
  <2>1. Len(NoNum) = 3 /\ Len(<<0>>) = 1 /\ Len(<<20>>) = 1
    BY DEF NoNum
  <2>2. /\ Sized(NoNum, Len(NoNum)) /\ Sized(<<0>>, Len(<<0>>)) /\ Sized(<<20>>, Len(<<20>>))
    BY AnswerTags, SizedOf, Zenon
  <2> QED BY <2>1, <2>2
<1> DEFINE tE == 100
           tO == 73
           tP == 108
           tI == 161
           tN == 2
           tS == 48
           tL == 160
           tA == 4
           tF == 131
           flag == <<0>>
           code == <<20>>
           id == DerInteger(q.invokeId + 1)
           conn == Der(tL, Der(tA, NoNum)) \o Der(tF, flag)
           args == (Der(tN, id) \o Der(tN, code)) \o Der(tS, conn)
           parts == Der(tO, q.otid) \o Der(tP, Der(tI, args))
<1>3. /\ tE \in Byte /\ tO \in Byte /\ tP \in Byte /\ tI \in Byte /\ tN \in Byte
      /\ tS \in Byte /\ tL \in Byte /\ tA \in Byte /\ tF \in Byte
  BY AnswerTags
<1>4. ConnectEnd(q, NoNum) = Der(tE, parts)
  BY Zenon DEF ConnectEnd, ConnectInvokeOf, ConnectArg, ConnectOperation
<1> HIDE DEF tE, tO, tP, tI, tN, tS, tL, tA, tF
<1>5. Sized(flag, 1) /\ Sized(code, 1) /\ Sized(id, 1)
  BY <1>1, <1>2, Zenon
<1> HIDE DEF flag, code, id
<1>6. Sized(Der(tE, parts), 30)
  BY <1>1, <1>2, <1>3, <1>5, ThreeAnswered, Zenon
<1> QED BY <1>4, <1>6, Zenon

(* The addresses and the user data of the answer.                          *)
LEMMA AnswerAddressed ==
  ASSUME NEW q, Parts(q), NEW c, NEW g, NEW d, QueryFits(q, c, g, d),
         NEW e \in Seq(Byte), NEW k, k = Len(e), k \in Byte
  PROVE  Addressed(q.calling, q.called, e, g, c, k) /\ d \in Byte
<1>1. c \in Byte /\ g \in Byte /\ d \in Byte
  BY QueryUdt, Zenon
<1> QED BY <1>1, Zenon DEF Addressed, QueryFits, Parts

(* It is put together from the label of the query and its addresses,       *)
(* exchanged and each with an octet behind it.                             *)
LEMMA AnswerMade ==
  ASSUME NEW q, NEW n
  PROVE  AnswerTo(q, n) =
           SendReply(EncodeMsg(EncodeSccp(ConnectEnd(q, n), q.calling \o <<Len(Begin(q))>>,
                                          q.called \o <<Len(q.calling)>>),
                               Members(q.opc, q.dpc, q.sio, Udt(q.called, q.calling, Begin(q)))))
<1>1. /\ AddressesOf(q).calling = q.calling \o <<Len(Begin(q))>>
      /\ AddressesOf(q).called = q.called \o <<Len(q.calling)>>
  BY DEF AddressesOf
<1> QED BY <1>1, Zenon DEF AnswerTo, TakenFrom

(* An answer that fits in a Protocol Data parameter of 255 octets has an   *)
(* End of at most 255.                                                     *)
LEMMA FitsInOctets ==
  ASSUME NEW q, Parts(q), NEW c, NEW g, NEW d, QueryFits(q, c, g, d),
         NEW n, AnswerFits(q, n), NEW k \in Nat, k = Len(ConnectEnd(q, n))
  PROVE  24 + (g + (c + k)) <= 255 /\ k <= 255 /\ k \in Byte
<1> DEFINE p == Len(Parameter(<<2, 16>>, q.opc \o q.dpc \o q.sio))
<1>1. p = 16
  <2>1. FourEach(q.opc, q.dpc, q.sio)
    BY Zenon DEF Parts, FourLong, FourEach
  <2> QED BY <2>1, LabelParameter, Zenon
<1>2. p + 8 + g + c + k <= 255
  BY Zenon DEF AnswerFits, QueryFits
<1>3. c \in Nat /\ g \in Nat
  BY Zenon DEF QueryFits
<1> HIDE DEF p
<1>4. \A i, j, l \in Nat : 16 + 8 + j + i + l <= 255 =>
        24 + (j + (i + l)) <= 255 /\ l <= 255 /\ l \in Byte
  BY DEF Byte
<1>5. 16 + 8 + g + c + k <= 255
  BY <1>1, <1>2, Zenon
<1> QED BY <1>3, <1>4, <1>5, Zenon

(* The size of an End is a number.                                         *)
LEMMA EndSize ==
  ASSUME NEW q, Parts(q), Plain(q), NEW n \in Seq(Byte)
  PROVE  Len(ConnectEnd(q, n)) \in Nat
<1> DEFINE b == Der(4, n)
           r == Der(160, b) \o Der(131, <<0>>)
           i == Der(2, DerInteger(q.invokeId + 1)) \o ConnectOperation \o Der(48, r)
           s == Der(73, q.otid) \o Der(108, Der(161, i))
<1>1. ConnectEnd(q, n) = Der(100, s)
  BY Zenon DEF ConnectEnd, ConnectInvokeOf, ConnectArg
<1>2. b \in Seq(Int) /\ Der(131, <<0>>) \in Seq(Int) /\ ConnectOperation \in Seq(Int)
      /\ Der(2, DerInteger(q.invokeId + 1)) \in Seq(Int) /\ Der(73, q.otid) \in Seq(Int)
  BY AnswerTags, AreNumbers, NextInvokeId, Zenon DEF Parts, ConnectOperation
<1> HIDE DEF b
<1>3. Der(160, b) \in Seq(Int)
  BY <1>2, AnswerTags, AreNumbers, Zenon
<1>4. r \in Seq(Int)
  BY <1>2, <1>3, AreNumbers, Zenon
<1> HIDE DEF r
<1>5. Der(48, r) \in Seq(Int)
  BY <1>4, AnswerTags, AreNumbers, Zenon
<1>6. i \in Seq(Int)
  BY <1>2, <1>5, AreNumbers, Zenon
<1> HIDE DEF i
<1>7. Der(108, Der(161, i)) \in Seq(Int)
  BY <1>6, AnswerTags, AreNumbers, Zenon
<1>8. s \in Seq(Int)
  BY <1>2, <1>7, AreNumbers, Zenon
<1> HIDE DEF s
<1>9. Der(100, s) \in Seq(Int)
  BY <1>8, AnswerTags, AreNumbers, Zenon
<1> QED BY <1>1, <1>9, LenProperties, Zenon

(* An answer that fits is sent and read back; any answer is sent or ends   *)
(* the program; the one with the default number always fits the buffer.    *)
AnsweredWell(w, q, n) == w.kind = "send" /\ View(w.msg) = Expected(q, n)

(* An answer that fits is sent, and read as the one expected.              *)
LEMMA FitAnswered ==
  ASSUME NEW q, Parts(q), Plain(q), NEW n \in Seq(Byte), AnswerFits(q, n)
  PROVE  AnsweredWell(AnswerTo(q, n), q, n)
<1> DEFINE c == Len(q.called)
           g == Len(q.calling)
           d == Len(Begin(q))
           e == ConnectEnd(q, n)
           k == Len(e)
           i == DerInteger(q.invokeId + 1)
           m == EncodeMsg(EncodeSccp(e, q.calling \o <<d>>, q.called \o <<g>>),
                          Members(q.opc, q.dpc, q.sio, Udt(q.called, q.calling, Begin(q))))
<1>1. QueryFits(q, c, g, d)
  BY PlainScanned, QuerySizes, Zenon
<1>2. k \in Nat
  BY EndSize, Zenon
<1>3. 24 + (g + (c + k)) <= 255 /\ k <= 255 /\ k \in Byte
  BY <1>1, <1>2, FitsInOctets, Zenon
<1>4. ReadsEnd(e, q.otid, i, ConnectOperation, n)
  BY <1>3, EndReadBack, Zenon
<1>5. Number(i) = q.invokeId + 1
  BY NextInvokeId, Zenon
<1>6. AnswerTo(q, n) = SendReply(m)
  BY AnswerMade, Zenon
<1>7. e \in Seq(Byte)
  BY <1>4, Zenon DEF ReadsEnd
<1>8. Addressed(q.calling, q.called, e, g, c, k) /\ d \in Byte /\ g \in Byte
  <2>1. Addressed(q.calling, q.called, e, g, c, k) /\ d \in Byte
    BY <1>1, <1>3, <1>7, AnswerAddressed, Zenon
  <2> QED BY <2>1, Zenon DEF Addressed
<1>9. FourEach(q.opc, q.dpc, q.sio)
  BY Zenon DEF Parts, FourLong, FourEach
<1> HIDE DEF c, g, d, e, k, i
<1>10. ReadBack(m, q.opc, q.dpc, q.sio, q.calling, q.called, q.otid, i, ConnectOperation, n)
  BY <1>3, <1>4, <1>8, <1>9, AnswerRead, Zenon
<1> HIDE DEF m
<1>11. Len(m) <= SendBuffer
  BY <1>10, Zenon DEF ReadBack, SendBuffer
<1>12. View(m) = Expected(q, n)
  BY <1>5, <1>10, Zenon DEF ReadBack, Expected
<1>13. SendReply(m) = Send(m)
  BY <1>11, Zenon DEF SendReply
<1>14. Send(m).kind = "send" /\ Send(m).msg = m
  BY DEF Send
<1> QED BY <1>6, <1>12, <1>13, <1>14, Zenon DEF AnsweredWell

(* An answer is sent, or ends the program.                                 *)
LEMMA AnyAnswered ==
  ASSUME NEW q, NEW n
  PROVE  AnswerTo(q, n).kind \in {"send", "crash"}
<1>1. \A m : SendReply(m).kind \in {"send", "crash"}
  BY DEF SendReply, Send, Crash
<1> QED BY <1>1, Zenon DEF AnswerTo

(* The answer with the default number fits for any query, and is sent.     *)
LEMMA DefaultAnswered ==
  ASSUME NEW q, Parts(q), Plain(q)
  PROVE  AnswerTo(q, NoNum).kind = "send"
<1> DEFINE c == Len(q.called)
           g == Len(q.calling)
           d == Len(Begin(q))
           e == ConnectEnd(q, NoNum)
           u == Udt(q.calling, q.called, e)
           t == Udt(q.called, q.calling, Begin(q))
           m == EncodeMsg(u, Members(q.opc, q.dpc, q.sio, t))
<1>1. QueryFits(q, c, g, d)
  BY PlainScanned, QuerySizes, Zenon
<1>2. Len(e) = 30
  BY DefaultEndSize, Zenon DEF Sized
<1>3. e \in Seq(Byte)
  <2>1. Len(e) <= 255
    BY <1>2
  <2>2. NoNum \in Seq(Byte)
    BY AnswerTags
  <2> QED BY <2>1, <2>2, EndReadBack, Zenon DEF ReadsEnd
<1>4. c \in Nat /\ g \in Nat /\ c + g <= 231 /\ (3 + g) + c \in Byte
  <2>1. c \in Nat /\ g \in Nat /\ d \in Nat /\ 24 + (c + (g + d)) <= 255
    BY <1>1, Zenon DEF QueryFits
  <2> HIDE DEF c, g, d
  <2> QED BY <2>1 DEF Byte
<1>5. Len(e) \in Byte
  BY <1>2 DEF Byte
<1>6. q.called \in Seq(Byte) /\ q.calling \in Seq(Byte) /\ g \in Byte /\ d \in Byte
  BY <1>1, QueryUdt, Zenon DEF Parts
<1>7. EncodeSccp(e, q.calling \o <<d>>, q.called \o <<g>>) = u
  <2>1. Addressed(q.calling, q.called, e, g, c, Len(e))
    BY <1>1, <1>3, <1>5, AnswerAddressed, Zenon
  <2> HIDE DEF c, g, d, e
  <2> QED BY <1>4, <1>6, <2>1, SccpPacked, Zenon DEF u
<1>8. AnswerTo(q, NoNum) = SendReply(m)
  BY <1>7, AnswerMade, Zenon
<1>9. Sized(u, 8 + (g + (c + 30)))
  <2> DEFINE x == 3 + g
             y == 3 + g + c
             h == <<9, 0, 3, x, y>>
  <2>1. Sized(q.calling, g) /\ Sized(q.called, c) /\ Sized(e, 30)
    BY <1>2, <1>3, <1>6, SizedOf, Zenon
  <2>2. Udt(q.calling, q.called, e) = h \o <<g>> \o q.calling \o <<c>> \o q.called \o <<Len(e)>> \o e
    BY Zenon DEF Udt
  <2> DEFINE k == 30
             l == Len(e)
  <2> HIDE DEF c, g, e
  <2>3. x \in Int /\ y \in Int /\ c \in Int /\ g \in Int /\ Len(e) \in Int
        /\ 9 \in Int /\ 0 \in Int /\ 3 \in Int
    BY <1>2, <1>4
  <2> HIDE DEF x, y
  <2>4. Sized(h, 5)
    BY <2>3, SizedFive, Zenon
  <2> HIDE DEF h
  <2>5. l \in Int /\ Sized(e, k)
    BY <2>1, <2>3, Zenon
  <2> HIDE DEF k, l
  <2>6. g \in Int /\ c \in Int /\ Sized(q.calling, g) /\ Sized(q.called, c)
    BY <2>1, <2>3, Zenon
  <2>7. Sized(h \o <<g>> \o q.calling \o <<c>> \o q.called \o <<l>> \o e, 8 + (g + (c + k)))
    BY <2>4, <2>5, <2>6, UdtSize, Zenon
  <2> QED BY <2>2, <2>7, Zenon DEF e, k, l
<1>10. /\ q.opc \in Seq(Byte) /\ q.dpc \in Seq(Byte) /\ q.sio \in Seq(Byte)
       /\ Len(q.opc) = 4 /\ Len(q.dpc) = 4 /\ Len(q.sio) = 4
  BY Zenon DEF Parts, FourLong
<1> HIDE DEF c, g, d, e, u, t
<1>11. Len(m) <= 35 + (8 + (g + (c + 30)))
  BY <1>9, <1>10, EncodedSize, Zenon
<1>12. Len(m) \in Int => Len(m) <= SendBuffer
  BY <1>4, <1>11 DEF SendBuffer
<1> QED BY <1>8, <1>12 DEF SendReply, Send

-----------------------------------------------------------------------------
(* A number that is not NULL is a sequence of octets.                      *)
LEMMA NumberType ==
  ASSUME NEW q, NEW f, NumberWhen(q, f) # Null
  PROVE  NumberWhen(q, f) \in Seq(Byte)
<1>1. NoNum \in Seq(Byte)
  BY AnswerTags, Zenon
<1>2. Translation(q) # Null => Translation(q) \in Seq(Byte)
  BY <1>1, NumsAssumption, Zenon DEF Translation
<1> QED BY <1>1, <1>2, Zenon DEF NumberWhen

(* The default number is a number.                                         *)
LEMMA DefaultNumber == NoNum # Null /\ NoNum # <<>>
<1>1. NoNum # Null
  BY AnswerTags, NumsAssumption, Zenon
<1>2. NoNum # <<>>
  BY DEF NoNum
<1> QED BY <1>1, <1>2, Zenon

(* What has been sent is the answer to the query.                          *)
LEMMA SentAnswer ==
  ASSUME NEW w, NEW q, NEW f, ComesTo(w, q, f), w.kind = "send"
  PROVE  /\ f \in {"none", "prepare"} /\ NumberWhen(q, f) # Null /\ w = AnswerTo(q, NumberWhen(q, f))
<1>1. Crash.kind # "send" /\ NoReply.kind # "send"
  BY DEF Crash, NoReply
<1>2. \A n : n \notin {Null, <<>>} => n # Null
  OBVIOUS
<1> QED BY <1>1, <1>2, Zenon DEF ComesTo

(* When nothing is sent, and when the program ends.                        *)
LEMMA SilentWhen ==
  ASSUME NEW w, NEW q, NEW f, ComesTo(w, q, f), w.kind = "none"
  PROVE  f \in {"step"} \cup LineFaults \/ (f = "none" /\ NumberWhen(q, f) = <<>>)
<1>1. Crash.kind # "none"
  BY DEF Crash
<1>2. AnswerTo(q, NumberWhen(q, f)).kind # "none"
  BY AnyAnswered
<1>3. f = "prepare" => NumberWhen(q, f) # <<>>
  BY DefaultNumber, Zenon DEF NumberWhen
<1>4. f \in {"none", "prepare"} => f = "none" \/ f = "prepare"
  OBVIOUS
<1> QED BY <1>1, <1>2, <1>3, <1>4, Zenon DEF ComesTo

(* A query ends the program only where data.txt cannot be opened, or the   *)
(* table holds NULL or more than an answer can carry.                      *)
LEMMA EndsWhen ==
  ASSUME NEW w, NEW q, Parts(q), Plain(q), NEW f, ComesTo(w, q, f), w.kind = "crash"
  PROVE  \/ f = "fopen"
         \/ f = "none" /\ (NumberWhen(q, f) = Null \/ ~AnswerFits(q, NumberWhen(q, f)))
<1> DEFINE n == NumberWhen(q, f)
<1>1. NoReply.kind # "crash"
  BY DEF NoReply
<1>2. f \in {"none", "prepare"} => f = "none" \/ f = "prepare"
  OBVIOUS
<1>3. f = "prepare" => n = NoNum /\ n # Null
  BY DefaultNumber, Zenon DEF NumberWhen
<1>4. "send" # "crash"
  OBVIOUS
<1>5. f = "prepare" => w # AnswerTo(q, n)
  BY <1>3, <1>4, DefaultAnswered, Zenon
<1>6. n # Null /\ AnswerFits(q, n) => w # AnswerTo(q, n)
  <2>1. ASSUME n # Null, AnswerFits(q, n)
        PROVE  AnswerTo(q, n).kind = "send"
    BY <2>1, NumberType, FitAnswered, Zenon DEF AnsweredWell
  <2> QED BY <1>4, <2>1, Zenon
<1> QED BY <1>1, <1>2, <1>3, <1>5, <1>6, Zenon DEF ComesTo
-----------------------------------------------------------------------------
(* A query of any other kind.  What the TCAP constructor takes from a      *)
(* message: a parameter is that of a single invoke, of operation 0.        *)
InvokeGives(parameter, invoke) ==
  /\ invoke.members[4] # NoNode /\ parameter = invoke.members[4].octets
  /\ invoke.members[3].present = OPERATION_PR_localValue =>
       Int32(invoke.members[3].member.octets) = 0

PortionGives(parameter, portion) ==
  /\ portion # NoNode /\ Len(portion.list) = 1 /\ portion.list[1].present = Component_PR_invoke
  /\ InvokeGives(parameter, portion.list[1].member)

MessageGives(parameter, r) ==
  /\ r.code = "OK" /\ r.node.present = TCMessage_PR_begin
  /\ PortionGives(parameter, r.node.member.members[3])

(* The members before an invoke is looked at: there is no parameter, and   *)
(* what is kept is what the way out says.                                  *)
BegunIs(b, k) ==
  /\ b.parameter = <<>> /\ b.kept = k
  /\ [b EXCEPT !.crash = TRUE].parameter = <<>>
  /\ \A l : [b EXCEPT !.kept = l].parameter = <<>> /\ [b EXCEPT !.kept = l].kept = l

(* So it is after any transaction identifier.                              *)
LEMMA BegunAs ==
  ASSUME NEW o, NEW k
  PROVE  BegunIs([NoTransaction EXCEPT !.transactionId = o, !.kept = k], k)
<1> DEFINE z == Zeros(4)
<1>1. NoTransaction = [crash |-> FALSE, localCode |-> 0, transactionId |-> z, invokeId |-> -1,
                       parameter |-> <<>>, kept |-> 0]
  BY Zenon DEF NoTransaction
<1> HIDE DEF z
<1> QED BY <1>1 DEF BegunIs

(* A parameter that the constructor takes is that of the invoke.           *)
LEMMA InvokeParameter ==
  ASSUME NEW o, NEW k, NEW b, b = [NoTransaction EXCEPT !.transactionId = o, !.kept = k],
         NEW invoke, FromInvoke(b, invoke).parameter # <<>>
  PROVE  InvokeGives(FromInvoke(b, invoke).parameter, invoke)
<1> DEFINE op == invoke.members[3]
           p == invoke.members[4]
           i == Int32(invoke.members[1].octets)
           c == IF op.present = OPERATION_PR_localValue THEN Int32(op.member.octets) ELSE 0
           d == IF c = 0 /\ p # NoNode THEN p.octets ELSE <<>>
           u == [b EXCEPT !.invokeId = i, !.localCode = c, !.parameter = d]
<1>1. FromInvoke(b, invoke) = u
  BY Zenon DEF FromInvoke
<1> HIDE DEF c, d, i, op, p
<1>2. InvokeIs(u, FALSE, c, o, i, d)
  <2> DEFINE s == NoTransaction
  <2>1. s = [crash |-> FALSE, localCode |-> 0, transactionId |-> Zeros(4), invokeId |-> -1,
             parameter |-> <<>>, kept |-> 0]
    BY Zenon DEF NoTransaction
  <2> HIDE DEF s
  <2>2. b = [s EXCEPT !.transactionId = o, !.kept = k]
    BY Zenon DEF s
  <2>3. SetInTurn(s, FALSE, 0, Zeros(4), -1, <<>>, 0, b, o, k, u, i, c, d)
    BY <2>1, <2>2, Zenon DEF SetInTurn
  <2> QED BY <2>3, InvokeSet, Zenon
<1> HIDE DEF u
<1>3. FromInvoke(b, invoke).parameter = d
  BY <1>1, <1>2, Zenon DEF InvokeIs
<1>4. c = 0 /\ p # NoNode /\ d = p.octets
  BY <1>3, Zenon DEF d
<1> QED BY <1>3, <1>4, Zenon DEF InvokeGives, c, p, op

(* So is one it takes from the components of a Begin,                      *)
LEMMA PortionParameter ==
  ASSUME NEW begin, NEW k, NEW l, NEW h, NEW t, t = FromBegin(begin, k, l, h), t.parameter # <<>>
  PROVE  PortionGives(t.parameter, begin.members[3])
<1> DEFINE o == TransactionId(begin.members[1].octets, h)
           b == [NoTransaction EXCEPT !.transactionId = o, !.kept = k]
           p == begin.members[3]
<1>1. BegunIs(b, k)
  BY BegunAs, Zenon
<1>2. [NoTransaction EXCEPT !.crash = TRUE].parameter = <<>>
  BY DEF NoTransaction
<1>3. begin.members[1].buf /\ p # NoNode /\ t = FromComponents(b, p.list, l)
  BY <1>1, <1>2, Zenon DEF FromBegin, BegunIs
<1> HIDE DEF p, o
<1>4. /\ Len(p.list) = 1 /\ p.list[1].present = Component_PR_invoke
      /\ t = FromInvoke(b, p.list[1].member)
  BY <1>1, <1>3, Zenon DEF FromComponents, BegunIs
<1>5. InvokeGives(t.parameter, p.list[1].member)
  BY <1>4, InvokeParameter, Zenon
<1> QED BY <1>3, <1>4, <1>5, Zenon DEF PortionGives, p

(* and so from the whole message.                                          *)
LEMMA MessageParameter ==
  ASSUME NEW r, NEW l, NEW h, NEW t, t = FromMessage(r, l, h), t.parameter # <<>>
  PROVE  MessageGives(t.parameter, r)
<1>1. \A k : [NoTransaction EXCEPT !.kept = k].parameter = <<>>
  BY DEF NoTransaction
<1>2. /\ r.code = "OK" /\ r.node.present = TCMessage_PR_begin
      /\ t = FromBegin(r.node.member, r.blocks, l, h)
  BY <1>1, Zenon DEF FromMessage
<1>3. PortionGives(t.parameter, r.node.member.members[3])
  BY <1>2, PortionParameter, Zenon
<1> QED BY <1>2, <1>3, Zenon DEF MessageGives

(* With a runtime that reads no more than there is, a parameter is the     *)
(* InitialDP of a query with one component, and the operation is 0 if its  *)
(* code is one that the program can tell.                                  *)
LEMMA QueryParameter ==
  ASSUME NEW q, RuntimeReads(q), Parts(q), NEW h, TcapMessage(Begin(q), h).parameter # <<>>
  PROVE  /\ TcapMessage(Begin(q), h).parameter = InitialDP(q)
         /\ q.components = 1 /\ (CodeHeld(q) => OperationCode(q) = 0)
<1> DEFINE r == DecodeTCMessage(Begin(q))
           t == TcapMessage(Begin(q), h)
           portion == r.node.member.members[3]
<1>1. t = FromMessage(r, Lost(r), h)
  BY Zenon DEF TcapMessage, TcapDecoded
<1>2. MessageGives(t.parameter, r)
  BY <1>1, MessageParameter, Zenon
<1>3. ReadsNoMore(r, q)
  BY Zenon DEF RuntimeReads
<1> HIDE DEF r, t
<1>4. PortionGives(t.parameter, portion) /\ ReadsComponents(portion, q)
  BY <1>2, <1>3, Zenon DEF MessageGives, ReadsNoMore
<1> HIDE DEF portion
<1>5. Len(portion.list) = q.components /\ Len(portion.list) = 1
  BY <1>4, Zenon DEF PortionGives, ReadsComponents
<1>6. q.components = 1
  BY <1>5, Zenon
<1>7. ReadsComponent(portion.list[1], q)
  BY <1>4, <1>6, Zenon DEF ReadsComponents
<1>8. t.parameter = InitialDP(q) /\ (CodeHeld(q) => OperationCode(q) = 0)
  BY <1>4, <1>7, Zenon DEF PortionGives, InvokeGives, ReadsComponent, CodeHeld
<1> QED BY <1>6, <1>8, Zenon DEF t

(* Something is sent only if the parameter decodes to a number of which    *)
(* parseNum makes digits.                                                  *)
LEMMA SentDecoded ==
  ASSUME NEW data, NEW sccp, NEW t, NEW f, WithTcap(data, sccp, t, f).kind = "send"
  PROVE  /\ DecodeInitialDPArg(t.parameter).code = "OK"
         /\ DecodeInitialDPArg(t.parameter).node.members[2] # NoNode
         /\ ParseLine(DecodeInitialDPArg(t.parameter).node.members[2].octets) # Aborted
<1> DEFINE r == DecodeInitialDPArg(t.parameter)
           i == InapMessage(t.localCode, t.parameter, f)
<1>1. Crash.kind # "send" /\ NoReply.kind # "send" /\ Found(<<>>).number = <<>> /\ Aborted.crash
  BY DEF Crash, NoReply, Found, Aborted
<1>2. WithInap(data, sccp, t, i, f).kind = "send"
  BY <1>1, Zenon DEF WithTcap
<1> HIDE DEF i
<1>3. ~i.crash /\ i.number # <<>>
  BY <1>1, <1>2, Zenon DEF WithInap
<1>4. i = FromInitialDP(r, f)
  BY <1>1, <1>3, Zenon DEF InapMessage, DecodeInitialDP, i
<1> HIDE DEF r
<1>5. r.code = "OK" /\ r.node.members[2] # NoNode
  BY <1>1, <1>3, <1>4, Zenon DEF FromInitialDP
<1>6. ParseLine(r.node.members[2].octets) # Aborted
  BY <1>1, <1>3, <1>4, <1>5, Zenon DEF FromInitialDP, ParseNum
<1> QED BY <1>5, <1>6, Zenon DEF r

(* An answer is sent only to a query that holds a number, and asks for it  *)
(* if its operation code is one that the program can tell.                 *)
LEMMA SentWhenAsked ==
  ASSUME NEW q, Parts(q), Delivered(q), RuntimeReads(q), NEW h \in Byte, NEW f,
         HandleData(DataMessage(q), h, f).kind = "send"
  PROVE  HoldsNumber(q) /\ (CodeHeld(q) => AsksNumber(q))
<1> DEFINE t == TcapMessage(Begin(q), h)
           r == DecodeInitialDPArg(InitialDP(q))
<1>1. Scanned(q)
  BY Zenon DEF Delivered
<1>2. WithTcap(TakenFrom(q), AddressesOf(q), t, f).kind = "send"
  BY <1>1, QueryReachesTcap, Zenon
<1>3. /\ DecodeInitialDPArg(t.parameter).code = "OK"
      /\ DecodeInitialDPArg(t.parameter).node.members[2] # NoNode
      /\ ParseLine(DecodeInitialDPArg(t.parameter).node.members[2].octets) # Aborted
  BY <1>2, SentDecoded, Zenon
<1>4. t.parameter # <<>>
  BY <1>3, Zenon DEF RuntimeReads
<1>5. t.parameter = InitialDP(q) /\ q.components = 1 /\ (CodeHeld(q) => OperationCode(q) = 0)
  BY <1>4, QueryParameter, Zenon
<1> HIDE DEF t
<1>6. /\ r.code = "OK" /\ r.node.members[2] # NoNode
      /\ ParseLine(r.node.members[2].octets) # Aborted
  BY <1>3, <1>5, Zenon
<1>7. ParseLine(q.number) # Aborted
  BY <1>6, Zenon DEF RuntimeReads
<1>8. Len(q.number) \in 3..16
  BY <1>7, ParseLineRefuses, Zenon DEF Parts
<1> QED BY <1>5, <1>8, Zenon DEF HoldsNumber, AsksNumber

(* What is never freed of a query is what the TCAP constructor keeps.      *)
LEMMA QueryKept ==
  ASSUME NEW q, Parts(q), Scanned(q), NEW h \in Byte
  PROVE  MemoryKept(DataMessage(q), h) = TcapMessage(Begin(q), h).kept
<1> DEFINE u == Udt(q.called, q.calling, Begin(q))
<1>1. DecodePayload(DataMessage(q), h) = TakenFrom(q)
  BY QueryTaken, Zenon
<1>2. SccpReadable(u) /\ SccpValid(u) /\ DecodeSccp(u, h) = AddressesOf(q)
  BY QuerySccp, Zenon
<1>3. TakenFrom(q).payload = u
  BY DEF TakenFrom, Members
<1>4. AddressesOf(q).data = Begin(q)
  BY DEF AddressesOf
<1> HIDE DEF u
<1> QED BY <1>1, <1>2, <1>3, <1>4, Zenon DEF MemoryKept, KeptOf

(* Nothing is, of a query the program gives up.                            *)
LEMMA NothingKept ==
  ASSUME NEW q, Parts(q), Delivered(q), RuntimeReads(q), GivenUp(q), NEW h \in Byte
  PROVE  MemoryKept(DataMessage(q), h) = 0
<1> DEFINE r == DecodeTCMessage(Begin(q))
           l == Lost(r)
           t == TcapMessage(Begin(q), h)
           n == r.node.member
           p == n.members[3]
           o == TransactionId(n.members[1].octets, h)
           b == [NoTransaction EXCEPT !.transactionId = o, !.kept = r.blocks]
<1>1. MemoryKept(DataMessage(q), h) = t.kept
  BY QueryKept, Zenon DEF Delivered
<1>2. t = FromMessage(r, l, h)
  BY Zenon DEF TcapMessage, TcapDecoded
<1>3. l = 0 /\ ReadsNoMore(r, q)
  BY Zenon DEF RuntimeReads, ReadsNoMore
<1>4. /\ \A k : [NoTransaction EXCEPT !.kept = k].kept = k
      /\ [NoTransaction EXCEPT !.crash = TRUE].kept = 0
  BY DEF NoTransaction
<1> HIDE DEF r
<1>5. BegunIs(b, r.blocks)
  BY BegunAs, Zenon
<1> HIDE DEF b
<1>6. [b EXCEPT !.kept = l].kept = l
  BY <1>5, Zenon DEF BegunIs
<1> HIDE DEF t, l
<1>7. CASE r.code # "OK"
  BY <1>1, <1>2, <1>3, <1>4, <1>7, Zenon DEF FromMessage
<1>8. CASE r.code = "OK"
  <2>1. q.components \in {0, 2} /\ r.node.present = TCMessage_PR_begin /\ ReadsComponents(p, q)
    BY <1>3, <1>8, Zenon DEF ReadsNoMore, GivenUp
  <2>2. q.components # NoPortion /\ q.components # 1
    BY <2>1 DEF NoPortion
  <2>3. p # NoNode /\ Len(p.list) # 1
    BY <2>1, <2>2, Zenon DEF ReadsComponents
  <2>4. t = FromBegin(n, r.blocks, l, h)
    BY <1>2, <1>8, <2>1, Zenon DEF FromMessage
  <2>5. t = (IF ~n.members[1].buf THEN [NoTransaction EXCEPT !.crash = TRUE]
             ELSE [b EXCEPT !.kept = l])
    BY <2>3, <2>4, Zenon DEF FromBegin, FromComponents, b
  <2> QED BY <1>1, <1>3, <1>4, <1>6, <2>5, Zenon
<1> QED BY <1>7, <1>8, Zenon
=============================================================================
