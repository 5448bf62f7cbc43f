--------------------------------- MODULE Sgp ---------------------------------
(***************************************************************************)
(* The other end, written from the standards and not from this program:    *)
(* how a signalling gateway packs an InitialDP query into a DATA message   *)
(* (RFC 4666, Q.713, Q.773, the grammars in asn/), and how it reads the    *)
(* DATA message that comes back.                                           *)
(***************************************************************************)
EXTENDS Ber

(* A query is a record: the MTP3 label (opc, dpc, sio: SI, NI, MP and SLS),*)
(* the M3UA parameters before the data, the two SCCP addresses, and the    *)
(* TCAP and INAP fields; dialogue and opCode are whole elements,           *)
(* components says how many there are, all alike, or that the component    *)
(* portion is absent, and the number <<>> leaves that out.                 *)
NoPortion == -1

Padding(n) == Zeros((4 - (n % 4)) % 4)

Parameter(tag, value) ==
  tag \o << (Len(value) + 4) \div 256, (Len(value) + 4) % 256 >> \o value \o Padding(Len(value))

M3uaMessage(class, type, parameters) ==
  <<1, 0, class, type>> \o BigEndian32(Len(parameters) + 8) \o parameters

Udt(called, calling, data) ==
  <<9, 0, 3, 3 + Len(called), 3 + Len(called) + Len(calling)>> \o
  <<Len(called)>> \o called \o <<Len(calling)>> \o calling \o <<Len(data)>> \o data

InitialDP(q) ==
  Der(48, Der(128, <<5>>) \o (IF q.number = <<>> THEN <<>> ELSE Der(130, q.number)))

Invoke(q) == Der(161, Der(2, DerInteger(q.invokeId)) \o q.opCode \o InitialDP(q))

Begin(q) ==
  Der(98, Der(72, q.otid) \o q.dialogue \o
          CASE q.components = NoPortion -> <<>>
            [] q.components = 0         -> Der(108, <<>>)
            [] q.components = 1         -> Der(108, Invoke(q))
            [] q.components = 2         -> Der(108, Invoke(q) \o Invoke(q)))

(* The value of Protocol Data.                                             *)
ProtocolValue(q) == q.opc \o q.dpc \o q.sio \o Udt(q.called, q.calling, Begin(q))

DataMessage(q) == M3uaMessage(1, 1, q.before \o Parameter(<<2, 16>>, ProtocolValue(q)))

(* The digits of a Q.763 called party number: after two octets of header,  *)
(* two digits an octet, the low half first; with the top bit of the first  *)
(* octet the count is odd and the last half octet is filler.               *)
CalledDigits(number) ==
  LET digits == 2 * (Len(number) - 2) - (IF number[1] >= 128 THEN 1 ELSE 0)
      octet(d) == number[2 + (d + 1) \div 2]
  IN  [d \in 1..digits |-> IF d % 2 = 1 THEN octet(d) % 16 ELSE octet(d) \div 16]

-----------------------------------------------------------------------------
(* Reading.  The value of the M3UA parameter with this tag: parameters are *)
(* walked by their length, rounded up to four.                             *)
ValueFrom(m, tag) ==
  LET From[k \in Nat] ==
        LET len == 256 * m[k + 3] + m[k + 4]
        IN  IF k + 4 > Len(m) THEN <<>>
            ELSE IF len < 4 \/ k + len > Len(m) THEN <<>>
            ELSE IF SubSeq(m, k + 1, k + 2) = tag THEN SubSeq(m, k + 5, k + len)
            ELSE From[k + len + Len(Padding(len))]
  IN  From

ParameterValue(m, tag) == ValueFrom(m, tag)[8]

(* The variable parameter of a UDT whose pointer is octet p.               *)
Variable(udt, p) ==
  LET at == p + udt[p]
  IN  IF at > Len(udt) THEN <<>> ELSE SubSeq(udt, at + 1, at + udt[at])

MalformedView == [wellFormed |-> FALSE]

(* What the gateway reads in the layers of a message: the label, the       *)
(* addresses, the transaction, the invoke and the number to connect to.    *)
ReadConnect(pd, udt, parts, args, connect) ==
  IF Len(connect) # 2 THEN MalformedView
  ELSE [wellFormed |-> TRUE, opc |-> SubSeq(pd, 1, 4), dpc |-> SubSeq(pd, 5, 8),
        sio |-> SubSeq(pd, 9, 12), called |-> Variable(udt, 3), calling |-> Variable(udt, 4),
        dtid |-> parts[1].content, invokeId |-> BerInteger(args[1].content),
        opCode |-> args[2].octets, address |-> Tlv(connect[1].content).content]

ReadInvoke(pd, udt, parts, args) ==
  IF Len(args) # 3 THEN MalformedView
  ELSE ReadConnect(pd, udt, parts, args, Elements(args[3].content))

ReadComponent(pd, udt, parts, invoke) ==
  IF invoke.ok THEN ReadInvoke(pd, udt, parts, Elements(invoke.content)) ELSE MalformedView

ReadEnd(pd, udt, parts) ==
  IF Len(parts) # 2 \/ \E k \in DOMAIN parts : ~parts[k].ok THEN MalformedView
  ELSE ReadComponent(pd, udt, parts, Tlv(parts[2].content))

ReadUdt(pd, udt, end) ==
  IF end.ok THEN ReadEnd(pd, udt, Elements(end.content)) ELSE MalformedView

ReadData(pd, udt) == ReadUdt(pd, udt, Tlv(Variable(udt, 5)))

ReadM3ua(m, pd) ==
  IF SubSeq(m, 5, 8) # BigEndian32(Len(m)) \/ Len(pd) < 18 THEN MalformedView
  ELSE ReadData(pd, SubSeq(pd, 13, Len(pd)))

View(m) == ReadM3ua(m, ParameterValue(m, <<2, 16>>))
=============================================================================
