------------------------------ MODULE Scp_proof ------------------------------
(***************************************************************************)
(* Proof that the whole program is NumberService, for any queries the      *)
(* program serves: the theorem about the session, with the outcomes of the *)
(* data pipeline for its outcomes, and the lemmas about the exchange.      *)
(***************************************************************************)
EXTENDS Scp, Exchange_proof

P == INSTANCE Vscp_proof WITH Outcomes <- Handled

-----------------------------------------------------------------------------
(* The session of Scp and the session the theorems are about are the same. *)

(* They start alike.                                                       *)
LEMMA SameInit == Session!Init <=> P!Init
BY DEF Session!Init, P!Init, Session!Empty, P!Empty, Session!Stream, P!Stream

(* They have the same variables.                                           *)
LEMMA SameVars == Session!vars = P!vars /\ Session!vars' = P!vars'
BY Zenon DEF Session!vars, P!vars

(* They take the same steps.                                               *)
LEMMA SameNext == Session!Next <=> P!Next
BY Zenon DEF
   Session!Next, P!Next, Session!Program, P!Program, Session!Environment, P!Environment,
   Session!Connect, P!Connect, Session!SendAspUp, P!SendAspUp, Session!SendMsg, P!SendMsg,
   Session!ReadStdin, P!ReadStdin, Session!EndOfAssociation, P!EndOfAssociation,
   Session!Receive, P!Receive, Session!Ignore, P!Ignore, Session!OnAspUpAck, P!OnAspUpAck,
   Session!OnData, P!OnData, Session!PeerOnAspUp, P!PeerOnAspUp,
   Session!PeerOnAspActive, P!PeerOnAspActive, Session!PeerCollects, P!PeerCollects,
   Session!PeerNotifies, P!PeerNotifies, Session!PeerAsks, P!PeerAsks,
   Session!PeerShutsDown, P!PeerShutsDown, Session!LinkLost, P!LinkLost,
   Session!Terminal, P!Terminal, Session!Handling, P!Handling,
   Session!PeerSends, P!PeerSends, Session!PeerTakes, P!PeerTakes, Session!Query, P!Query,
   Session!OfType, P!OfType, Session!Empty, P!Empty, Session!Stream, P!Stream,
   Session!Ended, P!Ended, Session!program, P!program, Session!gateway, P!gateway

(* The same queries are pending, before a step and after it.               *)
LEMMA SamePending == Session!Pending = P!Pending /\ Session!Pending' = P!Pending'
BY Zenon DEF Session!Pending, P!Pending, Session!Query, P!Query, Session!OfType, P!OfType

-----------------------------------------------------------------------------
(* How the program classifies what the gateway sends.                      *)

(* A message is classified by its class and its type.                      *)
LEMMA Classified ==
  ASSUME NEW class \in Byte, NEW type \in Byte, NEW v \in Seq(Int)
  PROVE  M3UAMsgType(M3uaMessage(class, type, v)) = TypeOfHeader(class, type)
<1> DEFINE b == BigEndian32(Len(v) + 8)
           m == M3uaMessage(class, type, v)
<1>1. /\ b = <<b[1], b[2], b[3], b[4]>>
  BY DEF BigEndian32
<1> HIDE DEF b
<1>2. m = <<1, 0, class, type>> \o <<b[1], b[2], b[3], b[4]>> \o v
  BY <1>1 DEF M3uaMessage, b
<1>3. Len(m) >= 8 /\ m[1] = 1 /\ m[3] = class /\ m[4] = type
  BY <1>2
<1> QED BY <1>3 DEF M3UAMsgType

(* The messages of management are what they are meant to be.               *)
LEMMA ManagementTypes ==
  /\ M3UAMsgType(AspUpAck) = "ASPSM_ASPUP_ACK" /\ M3UAMsgType(AspActiveAck) = "ASPTM_ASPAC_ACK"
  /\ M3UAMsgType(Notify) = "MGMT_NTFY" /\ M3UAMsgType(Heartbeat) = "UNKNOWN"
<1>1. <<>> \in Seq(Int) /\ 0 \in Byte /\ 1 \in Byte /\ 3 \in Byte /\ 4 \in Byte
  BY DEF Byte
<1>2. Parameter(<<0, 13>>, <<0, 1, 0, 2>>) \in Seq(Int)
  <2>1. Len(<<0, 1, 0, 2>>) = 4
    OBVIOUS
  <2>2. Padding(4) \in Seq(Byte)
    BY PaddingType
  <2>3. Padding(4) \in Seq(Int)
    BY <2>2, AreNumbers, Zenon
  <2> DEFINE t == <<0, 13>>
             l == <<(4 + 4) \div 256, (4 + 4) % 256>>
             w == <<0, 1, 0, 2>>
  <2>4. t \in Seq(Int) /\ l \in Seq(Int) /\ w \in Seq(Int)
    OBVIOUS
  <2>5. Parameter(t, w) = t \o l \o w \o Padding(4)
    BY <2>1 DEF Parameter
  <2> HIDE DEF t, l, w
  <2>6. Parameter(t, w) \in Seq(Int)
    BY <2>3, <2>4, <2>5, AreNumbers, Zenon
  <2> QED BY <2>6 DEF t, w
<1>3. /\ TypeOfHeader(3, 4) = "ASPSM_ASPUP_ACK" /\ TypeOfHeader(4, 3) = "ASPTM_ASPAC_ACK"
      /\ TypeOfHeader(0, 1) = "MGMT_NTFY" /\ TypeOfHeader(3, 3) = "UNKNOWN"
  BY DEF TypeOfHeader
<1> QED BY <1>1, <1>2, <1>3, Classified, Zenon DEF AspUpAck, AspActiveAck, Notify, Heartbeat

(* An integer of at most two octets is written as numbers.                 *)
LEMMA DerIntegerNumbers ==
  ASSUME NEW n \in Int16
  PROVE  DerInteger(n) \in Seq(Int)
<1>1. CASE n \in -128..127
  BY <1>1, DerIntegerRead DEF Byte
<1>2. CASE n \notin -128..127
  <2> DEFINE p == n \in -128..127
             q == n \in Int16 \ -128..127
             v == <<n % 256>>
             w == <<(n \div 256) % 256, n % 256>>
  <2>1. DerInteger(n) = CASE p -> v [] q -> w
    BY SMT DEF DerInteger
  <2>2. ~p /\ q
    BY <1>2
  <2>3. w \in Seq(Int)
    BY DEF Int16
  <2> HIDE DEF p, q, v, w
  <2>4. DerInteger(n) = w
    BY <2>1, <2>2
  <2> QED BY <2>3, <2>4
<1> QED BY <1>1, <1>2

(* A query consists of numbers.                                            *)
LEMMA QueryNumbers ==
  ASSUME NEW q \in Query
  PROVE  q.before \o Parameter(<<2, 16>>, ProtocolValue(q)) \in Seq(Int)
<1>1. /\ q.opc \in Seq(Int) /\ q.dpc \in Seq(Int) /\ q.sio \in Seq(Int)
      /\ q.before \in Seq(Int) /\ q.called \in Seq(Int) /\ q.calling \in Seq(Int)
      /\ q.otid \in Seq(Int) /\ q.dialogue \in Seq(Int) /\ q.number \in Seq(Int)
  BY QueryParts, AreNumbers, Zenon DEF Parts, FourLong
<1>2. q.opCode \in Seq(Int) /\ DerInteger(q.invokeId) \in Seq(Int)
      /\ q.components \in {NoPortion, 0, 1, 2}
  <2> DEFINE F == [1..4 -> Byte]
             S == Seq(Byte)
             C == {NoPortion, 0, 1, 2}
             I == Int16
  <2>1. q \in [before : S, opc : F, dpc : F, sio : F, called : S, calling : S, otid : S,
               dialogue : S, components : C, invokeId : I, opCode : S, number : S]
    BY DEF Query
  <2> HIDE DEF F, S, C, I
  <2>2. q.opCode \in S /\ q.invokeId \in I /\ q.components \in C
    BY <2>1
  <2>3. DerInteger(q.invokeId) \in Seq(Int)
    BY <2>2, DerIntegerNumbers, Zenon DEF I
  <2> QED BY <2>2, <2>3, AreNumbers, Zenon DEF S, C
<1> HIDE DEF Query
<1> DEFINE d == InitialDP(q)
           i == Invoke(q)
           b == Begin(q)
           u == Udt(q.called, q.calling, b)
           v == ProtocolValue(q)
<1>3. /\ 48 \in Byte /\ 128 \in Byte /\ 130 \in Byte /\ 161 \in Byte /\ 2 \in Byte
      /\ 98 \in Byte /\ 72 \in Byte /\ 108 \in Byte
      /\ <<>> \in Seq(Int) /\ <<5>> \in Seq(Int)
  BY DEF Byte
<1>4. d \in Seq(Int)
  BY <1>1, <1>3, AreNumbers, ZenonT(40) DEF InitialDP
<1> HIDE DEF d
<1>5. i \in Seq(Int)
  BY <1>2, <1>3, <1>4, AreNumbers, Zenon DEF Invoke, d
<1>6. b \in Seq(Int)
  <2> DEFINE p == CASE q.components = NoPortion -> <<>>
                    [] q.components = 0         -> Der(108, <<>>)
                    [] q.components = 1         -> Der(108, Invoke(q))
                    [] q.components = 2         -> Der(108, Invoke(q) \o Invoke(q))
  <2>1. Der(108, <<>>) \in Seq(Int) /\ Der(108, i) \in Seq(Int) /\ Der(108, i \o i) \in Seq(Int)
    BY <1>3, <1>5, AreNumbers, Zenon
  <2>2. p \in Seq(Int)
    <3>1. NoPortion = -1
      BY DEF NoPortion
    <3> HIDE DEF i
    <3>2. CASE q.components = NoPortion
      BY <3>1, <3>2, <1>3
    <3>3. CASE q.components = 0
      BY <3>1, <3>3, <2>1 DEF i
    <3>4. CASE q.components = 1
      BY <3>1, <3>4, <2>1 DEF i
    <3>5. CASE q.components = 2
      BY <3>1, <3>5, <2>1 DEF i
    <3> QED BY <1>2, <3>2, <3>3, <3>4, <3>5
  <2>3. b = Der(98, Der(72, q.otid) \o q.dialogue \o p)
    BY DEF Begin
  <2> HIDE DEF p, b
  <2> QED BY <1>1, <1>3, <2>2, <2>3, AreNumbers, Zenon
<1> HIDE DEF b
<1>7. u \in Seq(Int)
  <2>1. Len(q.called) \in Int /\ Len(q.calling) \in Int /\ Len(b) \in Int
    BY <1>1, <1>6, LenProperties
  <2>2. /\ <<9, 0, 3, 3 + Len(q.called), 3 + Len(q.called) + Len(q.calling)>> \in Seq(Int)
        /\ <<Len(q.called)>> \in Seq(Int) /\ <<Len(q.calling)>> \in Seq(Int) /\ <<Len(b)>> \in Seq(Int)
    BY <2>1
  <2> QED BY <1>1, <1>6, <2>2, AreNumbers, Zenon DEF Udt
<1>8. v \in Seq(Int)
  <2> HIDE DEF u
  <2> QED BY <1>1, <1>7, AreNumbers, Zenon DEF ProtocolValue, u, b
<1> HIDE DEF v
<1>9. Parameter(<<2, 16>>, v) \in Seq(Int)
  <2> DEFINE t == <<2, 16>>
             l == <<(Len(v) + 4) \div 256, (Len(v) + 4) % 256>>
  <2>1. Len(v) \in Nat
    BY <1>8, LenProperties
  <2>2. Padding(Len(v)) \in Seq(Int)
    BY <2>1, PaddingType, AreNumbers, Zenon
  <2>3. t \in Seq(Int) /\ l \in Seq(Int)
    BY <2>1
  <2>4. Parameter(t, v) = t \o l \o v \o Padding(Len(v))
    BY DEF Parameter
  <2> HIDE DEF t, l
  <2>5. Parameter(t, v) \in Seq(Int)
    BY <1>8, <2>2, <2>3, <2>4, AreNumbers, Zenon
  <2> QED BY <2>5 DEF t
<1> QED BY <1>1, <1>9, AreNumbers, Zenon DEF v

(* So it is a DATA message.                                                *)
LEMMA QueryIsData ==
  ASSUME NEW q \in Query
  PROVE  M3UAMsgType(DataMessage(q)) = "TM_DATA"
<1>1. 1 \in Byte /\ TypeOfHeader(1, 1) = "TM_DATA"
  BY DEF Byte, TypeOfHeader
<1> QED BY <1>1, QueryNumbers, Classified, Zenon DEF DataMessage

-----------------------------------------------------------------------------
(* What the theorem about the session assumes holds of the messages.       *)

(* The queries of the session are the messages the gateway's queries make. *)
LEMMA SessionQueries ==
  /\ P!Query = {Wire[q] : q \in Queries} /\ DOMAIN OutcomesOf = P!Query
  /\ \A m \in P!Query : Asked[m] \in Queries /\ m = DataMessage(Asked[m]) /\ m = Wire[Asked[m]]
                        /\ Handled(m) = Outcomes(m)
<1> DEFINE W == {Wire[q] : q \in Queries}
<1>1. \A q \in Queries : Wire[q] = DataMessage(q) /\ M3UAMsgType(Wire[q]) = "TM_DATA"
  BY QueriesAssumption, QueryIsData DEF Wire
<1>2. P!Query = {m \in Message : M3UAMsgType(m) = "TM_DATA"}
  BY DEF P!Query, P!OfType
<1>3. \A m \in Message : m \in W \/ M3UAMsgType(m) # "TM_DATA"
  BY ManagementTypes DEF Message
<1>4. W \subseteq Message
  BY DEF Message
<1>5. P!Query = W
  BY <1>1, <1>2, <1>3, <1>4
<1>6. DOMAIN OutcomesOf = W /\ \A m \in W : Handled(m) = Outcomes(m)
  BY DEF OutcomesOf, Handled
<1>7. ASSUME NEW m \in W
      PROVE  Asked[m] \in Queries /\ Wire[Asked[m]] = m
  <2>1. \E q \in Queries : Wire[q] = m
    OBVIOUS
  <2>2. Asked[m] = CHOOSE q \in Queries : Wire[q] = m
    BY <1>6, Zenon DEF Asked
  <2> QED BY <2>1, <2>2, Zenon
<1> QED BY <1>1, <1>5, <1>6, <1>7, Zenon

(* The messages of the registration are there, and no message is two.      *)
LEMMA SessionMessages == P!MessageAssumption
<1>1. AspUpAck \in P!OfType("ASPSM_ASPUP_ACK") /\ AspActiveAck \in P!OfType("ASPTM_ASPAC_ACK")
  BY ManagementTypes DEF P!OfType, Message
<1>2. AspUp # AspActive
  <2> DEFINE a == BigEndian32(8)
             b == BigEndian32(16)
  <2>1. a = <<a[1], a[2], a[3], a[4]>> /\ b = <<b[1], b[2], b[3], b[4]>>
    BY SMT DEF BigEndian32
  <2>2. AspUp = <<1, 0, 3, 1>> \o a /\ AspActive = <<1, 0, 4, 1>> \o b \o <<0, 11, 0, 8, 0, 0, 0, 2>>
    BY SMT DEF AspUp, AspActive, CommonHeader
  <2> HIDE DEF a, b
  <2>3. /\ AspUp = <<1, 0, 3, 1>> \o <<a[1], a[2], a[3], a[4]>>
        /\ AspActive = <<1, 0, 4, 1>> \o <<b[1], b[2], b[3], b[4]>> \o <<0, 11, 0, 8, 0, 0, 0, 2>>
    BY <2>1, <2>2, Zenon
  <2>4. AspUp[3] = 3 /\ AspActive[3] = 4
    BY <2>3
  <2> QED BY <2>4
<1> QED BY <1>1, <1>2 DEF P!MessageAssumption

(* A message is answered, ignored, or the end of the program.              *)
IsOutcome(w) == w.kind \in {"none", "crash", "send"}

(* Every exit of main's handling of DATA is one of the three.              *)
LEMMA HandledSomehow ==
  ASSUME NEW m, NEW h, NEW f
  PROVE  IsOutcome(HandleData(m, h, f))
<1>1. IsOutcome(NoReply) /\ IsOutcome(Crash)
  BY DEF NoReply, Crash, IsOutcome
<1>2. \A r : IsOutcome(SendReply(r))
  BY DEF SendReply, Send, Crash, IsOutcome
<1>3. \A d, s, t, n : IsOutcome(WithNewNum(d, s, t, n))
  BY <1>1, <1>2, Zenon DEF WithNewNum, Reply, Answer
<1>4. \A d, s, t, i : IsOutcome(WithInap(d, s, t, i, f))
  BY <1>1, <1>3, Zenon DEF WithInap
<1>5. \A d, s, t : IsOutcome(WithTcap(d, s, t, f))
  BY <1>1, <1>4, Zenon DEF WithTcap
<1>6. \A d : IsOutcome(WithM3ua(d, h, f))
  BY <1>1, <1>5, Zenon DEF WithM3ua, WithSccp
<1> QED BY <1>6, Zenon DEF HandleData

(* Every query comes to something, and that is one of the three.           *)
LEMMA SessionOutcomes == P!OutcomeAssumption
<1> SUFFICES ASSUME NEW m \in P!Query
             PROVE  Handled(m) # {} /\ \A o \in Handled(m) : o.kind \in {"none", "crash", "send"}
  BY Zenon DEF P!OutcomeAssumption
<1>1. Handled(m) = {HandleData(m, h, f) : h \in HeapBytes, f \in Faults \cup {"none"}}
  BY SessionQueries DEF Outcomes
<1> HIDE DEF Handled
<1>2. Handled(m) # {}
  <2>1. \E h \in HeapBytes : HandleData(m, h, "none") \in Handled(m)
    BY <1>1, HeapAssumption
  <2> QED BY <2>1
<1>3. \A o \in Handled(m) : IsOutcome(o)
  BY <1>1, HandledSomehow
<1> QED BY <1>2, <1>3 DEF IsOutcome

(* Sends may fail or not.                                                  *)
LEMMA SessionBound == P!BoundAssumption
BY BoundAssumption DEF P!BoundAssumption

-----------------------------------------------------------------------------
(* What comes of a query is what NumberService promises.                   *)

(* A query that comes to something comes to what its number says.          *)
LEMMA OutcomeOf ==
  ASSUME NEW q \in Queries, Plain(q), RuntimeServes(q), NEW o \in Outcomes(DataMessage(q))
  PROVE  \E f \in Faults \cup {"none"} : ComesTo(o, q, f)
<1>1. PICK h \in HeapBytes, f \in Faults \cup {"none"} : o = HandleData(DataMessage(q), h, f)
  BY DEF Outcomes
<1>2. f \in {"none"} \cup AllFaults /\ h \in Byte /\ q \in Query
  BY FaultAssumption, HeapAssumption, QueriesAssumption
<1> QED BY <1>1, <1>2, QueryParts, QueryComesTo, Zenon

(* What is sent to a number is read as the answer with it.                 *)
LEMMA NumberSent ==
  ASSUME NEW q \in Queries, Plain(q), Served(q), NEW f, f \in {"none", "prepare"},
         NumberWhen(q, f) \notin {Null, <<>>}
  PROVE  AnsweredWell(AnswerTo(q, NumberWhen(q, f)), q, NumberWhen(q, f))
<1> DEFINE n == NumberWhen(q, f)
<1>1. n \in {NoNum, Translation(q)} \ {Null, <<>>}
  BY Zenon DEF NumberWhen
<1>2. n \in Seq(Byte)
  BY NumberType, Zenon
<1>3. AnswerFits(q, n)
  BY <1>1, Zenon DEF Served
<1>4. Parts(q)
  BY QueriesAssumption, QueryParts, Zenon
<1> QED BY <1>2, <1>3, <1>4, FitAnswered, Zenon

(* What is sent to a query is a right answer to it.                        *)
LEMMA SentIsRight ==
  ASSUME NEW q \in Queries, Served(q), NEW o \in Outcomes(DataMessage(q)), o.kind = "send"
  PROVE  o.msg \in Right[q]
<1>1. OutcomesOf[Wire[q]] = Outcomes(DataMessage(q))
  BY DEF OutcomesOf, Wire
<1>2. Plain(q) /\ RuntimeServes(q)
  BY <1>1, Zenon DEF Served
<1>3. o.msg \in Replies
  BY <1>1, Zenon DEF Replies
<1>4. PICK f \in Faults \cup {"none"} : ComesTo(o, q, f)
  BY <1>2, OutcomeOf, Zenon
<1>5. Crash.kind # "send" /\ NoReply.kind # "send"
  BY DEF Crash, NoReply
<1>6. /\ f \in {"none", "prepare"} /\ NumberWhen(q, f) \notin {Null, <<>>}
      /\ o = AnswerTo(q, NumberWhen(q, f))
  BY <1>4, <1>5, Zenon DEF ComesTo
<1>7. View(o.msg) = Expected(q, NumberWhen(q, f))
  BY <1>2, <1>6, NumberSent, Zenon DEF AnsweredWell
<1>8. \/ View(o.msg) = Expected(q, Translation(q))
      \/ "prepare" \in Faults /\ View(o.msg) = Expected(q, NoNum)
  <2>1. CASE f = "prepare"
    BY <1>7, <2>1, Zenon DEF NumberWhen
  <2>2. CASE f # "prepare"
    BY <1>7, <2>2, Zenon DEF NumberWhen
  <2> QED BY <2>1, <2>2
<1> QED BY <1>3, <1>8, Zenon DEF Right

(* A query that is certain to be answered is.                              *)
LEMMA CertainSent ==
  ASSUME NEW q \in Certain, Served(q), NEW o \in Outcomes(DataMessage(q))
  PROVE  o.kind = "send"
<1>1. /\ q \in Queries /\ Plain(q) /\ Faults \subseteq {"prepare"}
      /\ Translation(q) \notin {Null, <<>>}
  BY Zenon DEF Certain
<1>2. PICK f \in Faults \cup {"none"} : ComesTo(o, q, f)
  BY <1>1, OutcomeOf, Zenon DEF Served
<1>3. f \in {"none", "prepare"} /\ f # "fopen" /\ f \notin {"step"} \cup LineFaults
  BY <1>1 DEF LineFaults
<1>4. NumberWhen(q, f) \notin {Null, <<>>}
  BY <1>1, DefaultNumber, Zenon DEF NumberWhen
<1>5. o = AnswerTo(q, NumberWhen(q, f))
  BY <1>2, <1>3, <1>4, Zenon DEF ComesTo
<1> QED BY <1>1, <1>3, <1>4, <1>5, NumberSent, Zenon DEF AnsweredWell

(* So the answers of the session are right answers, and it passes over no  *)
(* query that is certain to be answered.                                   *)
LEMMA PromiseKept ==
  ASSUME \A q \in Queries : Served(q), NEW m \in P!Query
  PROVE  P!AnswersTo(m) \subseteq AnswersTo(m) /\ (P!MayIgnore(m) => MayIgnore(m))
<1> DEFINE q == Asked[m]
<1>1. q \in Queries /\ Handled(m) = Outcomes(DataMessage(q))
  BY SessionQueries, Zenon
<1>2. P!AnswersTo(m) = {o.msg : o \in {p \in Handled(m) : p.kind = "send"}}
  BY DEF P!AnswersTo
<1>3. AnswersTo(m) = Right[q]
  BY DEF AnswersTo
<1> HIDE DEF q
<1>4. P!AnswersTo(m) \subseteq AnswersTo(m)
  BY <1>1, <1>2, <1>3, SentIsRight, Zenon
<1>5. q \in Certain => \A o \in Handled(m) : o.kind = "send"
  BY <1>1, CertainSent, Zenon
<1>6. P!MayIgnore(m) => MayIgnore(m)
  BY <1>5, Zenon DEF P!MayIgnore, MayIgnore, q
<1> QED BY <1>4, <1>6

-----------------------------------------------------------------------------
(* A step of the service the session provides is a step of NumberService.  *)
LEMMA ServiceStep ==
  ASSUME \A q \in Queries : Served(q), P!Pending \in Seq(P!Query),
         [P!Service!Next]_<<P!Pending, tx[1], link = "up">>
  PROVE  [Service!Next]_<<Session!Pending, tx[1], link = "up">>
<1> USE SamePending
<1>1. CASE P!Service!Open
  <2>1. Service!Open
    BY <1>1 DEF P!Service!Open, Service!Open
  <2> QED BY <2>1 DEF Service!Next
<1>2. ASSUME NEW m \in P!Query, P!Service!Ask(m)
      PROVE  Service!Next
  <2>1. Service!Ask(m) /\ m \in DOMAIN OutcomesOf
    BY <1>2, SessionQueries DEF P!Service!Ask, Service!Ask
  <2> QED BY <2>1 DEF Service!Next
<1>3. CASE P!Service!Serve
  <2>1. Head(P!Pending) \in P!Query
    BY <1>3 DEF P!Service!Serve
  <2>2. Service!Serve
    BY <1>3, <2>1, PromiseKept, Zenon DEF P!Service!Serve, Service!Serve
  <2> QED BY <2>2 DEF Service!Next
<1>4. CASE P!Service!Read
  <2>1. Service!Read
    BY <1>4 DEF P!Service!Read, Service!Read
  <2> QED BY <2>1 DEF Service!Next
<1>5. CASE P!Service!Close
  <2>1. Service!Close
    BY <1>5 DEF P!Service!Close, Service!Close
  <2> QED BY <2>1 DEF Service!Next
<1> QED BY <1>1, <1>2, <1>3, <1>4, <1>5 DEF P!Service!Next

(* The queries pending are queries.                                        *)
LEMMA PendingAreQueries ==
  ASSUME P!TypeOK
  PROVE  P!Pending \in Seq(P!Query)
<1>1. /\ P!Pending = P!InHand \o rx[1]
      /\ rx[1] \in Seq(P!Query) /\ P!InHand \in Seq(P!Query)
  BY P!PendingType, SessionMessages, SessionOutcomes, SessionBound
<1> QED BY <1>1

(* From the registration to the last octet of an answer the program is     *)
(* NumberService, for any queries that it serves: those it is written for, *)
(* as far as an answer can carry their numbers and the asn1c runtime does  *)
(* its part, and any others that it never answers.                         *)
THEOREM ProgramIsService ==
  ASSUME \A q \in Queries : Served(q)
  PROVE  Spec => NumberServiceProvided
<1> DEFINE Inv == P!TypeOK /\ P!Untouched
           service == <<Session!Pending, tx[1], link = "up">>
<1>1. Session!Init => Inv /\ Service!Init
  <2>1. P!Init => P!TypeOK /\ P!Service!Init /\ P!Untouched
    BY P!TypeInit, P!ServiceInit, SessionMessages, SessionOutcomes, SessionBound
  <2>2. P!Service!Init => Service!Init
    BY SamePending DEF P!Service!Init, Service!Init
  <2> QED BY <2>1, <2>2, SameInit
<1>2. Inv /\ [Session!Next]_Session!vars => Inv' /\ [Service!Next]_service
  <2> SUFFICES ASSUME Inv, [Session!Next]_Session!vars
               PROVE  Inv' /\ [Service!Next]_service
    OBVIOUS
  <2>1. [P!Next]_P!vars
    BY SameNext, SameVars, Zenon
  <2>2. P!TypeOK'
    BY <2>1, P!TypeStep, SessionMessages, SessionOutcomes, SessionBound
  <2>3. P!Untouched'
    BY <2>1, P!UntouchedStep, SessionMessages, SessionOutcomes, SessionBound
  <2>4. [P!Service!Next]_<<P!Pending, tx[1], link = "up">>
    BY <2>1, P!StepRefined, SessionMessages, SessionOutcomes, SessionBound
  <2>5. [Service!Next]_service
    BY <2>4, PendingAreQueries, ServiceStep
  <2> QED BY <2>2, <2>3, <2>5
<1> QED BY <1>1, <1>2, PTL DEF Spec, Session!Spec, NumberServiceProvided, Service!Spec

-----------------------------------------------------------------------------
(* A query that asks for no number is never answered, so it is served.     *)
LEMMA SuitedIsServed ==
  ASSUME NEW q \in Queries, Suited(q)
  PROVE  Served(q)
<1>1. CASE Plain(q)
  BY <1>1, Zenon DEF Suited
<1>2. CASE ~Plain(q)
  <2>1. /\ Parts(q) /\ Delivered(q) /\ RuntimeReads(q)
        /\ ~AsksNumber(q) /\ (CodeHeld(q) \/ ~HoldsNumber(q))
    BY <1>2, QueriesAssumption, QueryParts, Zenon DEF Suited
  <2>2. ASSUME NEW o \in OutcomesOf[Wire[q]]
        PROVE  o.kind # "send"
    <3>1. o \in Outcomes(DataMessage(q))
      BY <2>2 DEF OutcomesOf, Wire
    <3>2. PICK h \in HeapBytes, f \in Faults \cup {"none"} : o = HandleData(DataMessage(q), h, f)
      BY <3>1 DEF Outcomes
    <3>3. h \in Byte
      BY HeapAssumption
    <3> QED BY <2>1, <3>2, <3>3, SentWhenAsked, Zenon
  <2> QED BY <1>2, <2>2, Zenon DEF Served
<1> QED BY <1>1, <1>2

(* So the program is NumberService for any queries that reach the TCAP     *)
(* layer, those it is written for and those that ask for no number, on     *)
(* what the asn1c runtime does for them alone.                             *)
THEOREM ProgramServes ==
  ASSUME \A q \in Queries : Suited(q)
  PROVE  Spec => NumberServiceProvided
BY SuitedIsServed, ProgramIsService
=============================================================================
