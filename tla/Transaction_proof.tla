-------------------------- MODULE Transaction_proof --------------------------
(***************************************************************************)
(* Proofs about a transaction: a query the program is written for is       *)
(* answered, and read back as the answer to that query, and of the others  *)
(* only those that ask for a number are; for any queries, any table of     *)
(* numbers and whatever lies behind the buffers, provided the asn1c        *)
(* runtime keeps to the standard.                                          *)
(***************************************************************************)
EXTENDS Transaction, Exchange_proof

(* The inductive invariant: the message under way is the query, or else    *)
(* what comes of it; and what the gateway read is the message it got.      *)
(* AnswerCorrect and PlainAnswered say less than what holds of wire before *)
(* it is read, and nothing of the query that is still to be handled.       *)
UnderWay ==
  /\ wire.kind = "query"  => wire.msg = DataMessage(query) /\ view = Unread
  /\ wire.kind # "query"  => ComesTo(wire, query, fault)
  /\ view # Unread        => wire.kind = "send" /\ view = View(wire.msg)

TransactionInv ==
  /\ query \in Queries /\ fault \in {"none"} \cup AllFaults
  /\ Plain(query) => UnderWay

(* A transaction starts in the invariant.                                  *)
LEMMA InitHolds == Init => TransactionInv
<1> SUFFICES ASSUME Init
             PROVE  TransactionInv
  OBVIOUS
<1>1. fault \in {"none"} \cup AllFaults
  BY FaultAssumption DEF Init
<1>2. wire.kind = "query" /\ wire.msg = DataMessage(query) /\ view = Unread /\ query \in Queries
  BY DEF Init
<1> QED BY <1>1, <1>2, Zenon DEF TransactionInv, UnderWay

(* Handling the query keeps it: what is under way is then what the query   *)
(* comes to.                                                               *)
LEMMA HandleKeeps ==
  ASSUME TransactionInv, RuntimeKeepsStandard, Handle
  PROVE  TransactionInv'
<1>1. query' = query /\ fault' = fault /\ view' = view
  BY Zenon DEF Handle
<1>2. PICK h \in HeapBytes : wire' = HandleData(wire.msg, h, fault)
  BY Zenon DEF Handle
<1>3. ASSUME Plain(query)
      PROVE  UnderWay'
  <2>1. wire.msg = DataMessage(query) /\ view = Unread
    BY <1>3, Zenon DEF Handle, TransactionInv, UnderWay
  <2>2. Parts(query)
    BY QueriesAssumption, QueryParts, Zenon DEF TransactionInv
  <2>3. h \in Byte /\ RuntimeServes(query) /\ fault \in {"none"} \cup AllFaults
    BY <1>3, HeapAssumption, Zenon DEF RuntimeKeepsStandard, TransactionInv
  <2>4. ComesTo(wire', query, fault)
    <3>1. ComesTo(HandleData(DataMessage(query), h, fault), query, fault)
      BY <1>3, <2>2, <2>3, QueryComesTo, Zenon
    <3> QED BY <1>2, <2>1, <3>1, Zenon
  <2>5. wire'.kind # "query"
    <3>1. Crash.kind # "query" /\ NoReply.kind # "query"
      BY DEF Crash, NoReply
    <3>2. AnswerTo(query, NumberWhen(query, fault)).kind # "query"
      BY AnyAnswered
    <3> QED BY <2>4, <3>1, <3>2, Zenon DEF ComesTo
  <2> QED BY <1>1, <2>1, <2>4, <2>5, Zenon DEF UnderWay
<1> QED BY <1>1, <1>3, Zenon DEF TransactionInv

(* Reading the answer keeps it: the view is that of the message under way. *)
LEMMA ReadKeeps ==
  ASSUME TransactionInv, Read
  PROVE  TransactionInv'
<1>1. /\ query' = query /\ fault' = fault /\ wire' = wire
      /\ wire.kind = "send" /\ view' = View(wire.msg)
  BY Zenon DEF Read
<1>2. "send" # "query"
  OBVIOUS
<1>3. Plain(query) => UnderWay'
  BY <1>1, <1>2, Zenon DEF TransactionInv, UnderWay
<1> QED BY <1>1, <1>3, Zenon DEF TransactionInv

(* So does every step.                                                     *)
LEMMA StepKeeps == TransactionInv /\ RuntimeKeepsStandard /\ [Next]_vars => TransactionInv'
<1> SUFFICES ASSUME TransactionInv, RuntimeKeepsStandard, [Next]_vars
             PROVE  TransactionInv'
  OBVIOUS
<1>1. CASE Handle
  BY <1>1, HandleKeeps, Zenon
<1>2. CASE Read
  BY <1>2, ReadKeeps, Zenon
<1>3. CASE UNCHANGED vars
  BY <1>3, Zenon DEF vars, TransactionInv, UnderWay
<1> QED BY <1>1, <1>2, <1>3, Zenon DEF Next

(* The invariant holds in every reachable state, as long as the asn1c      *)
(* runtime does for the query what the program asks of it.                 *)
THEOREM TransactionInvariant == Spec /\ []RuntimeKeepsStandard => []TransactionInv
BY InitHolds, StepKeeps, PTL DEF Spec

-----------------------------------------------------------------------------
(* What the gateway reads of an answer that fits is what it expects.       *)
LEMMA CorrectFollows == TransactionInv => AnswerCorrect
<1> SUFFICES ASSUME TransactionInv, Plain(query), view # Unread, AnswerFits(query, NewNumber)
             PROVE  view = Expected(query, NewNumber)
  BY Zenon DEF AnswerCorrect
<1> DEFINE n == NumberWhen(query, fault)
<1>1. Parts(query)
  BY QueriesAssumption, QueryParts, Zenon DEF TransactionInv
<1>2. wire.kind = "send" /\ view = View(wire.msg)
  BY Zenon DEF TransactionInv, UnderWay
<1>3. "send" # "query"
  OBVIOUS
<1>4. n # Null /\ wire = AnswerTo(query, n)
  BY <1>2, <1>3, SentAnswer, Zenon DEF TransactionInv, UnderWay
<1>5. NewNumber = n
  BY Zenon DEF NewNumber, NumberWhen
<1>6. n \in Seq(Byte)
  BY <1>4, NumberType, Zenon
<1>7. AnsweredWell(AnswerTo(query, n), query, n)
  BY <1>1, <1>5, <1>6, FitAnswered, Zenon
<1> QED BY <1>2, <1>4, <1>5, <1>7, Zenon DEF AnsweredWell

(* AnswerCorrect: what the gateway reads in the answer to a query the      *)
(* program is written for is the answer to that query.                     *)
THEOREM AnswerIsCorrect == Spec /\ []RuntimeKeepsStandard => []AnswerCorrect
BY TransactionInvariant, CorrectFollows, PTL

(* So it goes unanswered or ends the program for these reasons only.       *)
LEMMA AnsweredFollows == TransactionInv => PlainAnswered
<1> SUFFICES ASSUME TransactionInv, Plain(query)
             PROVE  /\ wire.kind = "none" =>
                         fault \in {"step"} \cup LineFaults \/ (fault = "none" /\ NewNumber = <<>>)
                    /\ wire.kind = "crash" =>
                         \/ fault = "fopen"
                         \/ fault = "none" /\ (NewNumber = Null \/ ~AnswerFits(query, NewNumber))
  BY Zenon DEF PlainAnswered
<1>1. Parts(query)
  BY QueriesAssumption, QueryParts, Zenon DEF TransactionInv
<1>2. wire.kind # "query" => ComesTo(wire, query, fault)
  BY Zenon DEF TransactionInv, UnderWay
<1>3. NewNumber = NumberWhen(query, fault)
  BY Zenon DEF NewNumber, NumberWhen
<1>4. "none" # "query" /\ "crash" # "query"
  OBVIOUS
<1>5. wire.kind = "none" =>
        fault \in {"step"} \cup LineFaults \/ (fault = "none" /\ NewNumber = <<>>)
  BY <1>2, <1>3, <1>4, SilentWhen, Zenon
<1>6. wire.kind = "crash" =>
        \/ fault = "fopen"
        \/ fault = "none" /\ (NewNumber = Null \/ ~AnswerFits(query, NewNumber))
  BY <1>1, <1>2, <1>3, <1>4, EndsWhen, Zenon
<1> QED BY <1>5, <1>6, Zenon

(* PlainAnswered: a query the program is written for goes unanswered, or   *)
(* ends it, only for the reasons it names.                                 *)
THEOREM PlainIsAnswered == Spec /\ []RuntimeKeepsStandard => []PlainAnswered
BY TransactionInvariant, AnsweredFollows, PTL

-----------------------------------------------------------------------------
(* The invariant of the queries that are not all written for the program:  *)
(* the query stays what it was until it is handled, and by then an answer  *)
(* means that it holds a number, and asked for it if the program can tell  *)
(* its operation code; and nothing is kept of it if it was given up.       *)
(* (wire and kept come of the same octets behind the buffers.)             *)
Handled ==
  /\ wire.kind = "query" => wire.msg = DataMessage(query) /\ kept = 0
  /\ wire.kind = "send"  => HoldsNumber(query) /\ (CodeHeld(query) => AsksNumber(query))
  /\ GivenUp(query)      => kept = 0

DeliveredInv ==
  /\ query \in Queries
  /\ Delivered(query) => Handled

(* What comes of a DATA message, answer or not, is not a query.            *)
LEMMA NeverQuery ==
  ASSUME NEW m, NEW heap, NEW f
  PROVE  HandleData(m, heap, f).kind # "query"
<1>1. /\ Crash.kind # "query" /\ NoReply.kind # "query"
      /\ \A a : Send(a).kind # "query"
  BY DEF Crash, NoReply, Send
<1>2. \A d, s, t, n : WithNewNum(d, s, t, n).kind # "query"
  BY <1>1, Zenon DEF WithNewNum, Reply, Answer, SendReply
<1>3. \A d, s, t : WithTcap(d, s, t, f).kind # "query"
  BY <1>1, <1>2, Zenon DEF WithTcap, WithInap
<1>4. \A d : WithM3ua(d, heap, f).kind # "query"
  BY <1>1, <1>3, Zenon DEF WithM3ua, WithSccp
<1> QED BY <1>4, Zenon DEF HandleData

(* A transaction starts in this invariant too.                             *)
LEMMA DeliveredInitially == Init => DeliveredInv
<1> SUFFICES ASSUME Init
             PROVE  DeliveredInv
  OBVIOUS
<1>1. wire.kind = "query" /\ wire.msg = DataMessage(query) /\ kept = 0 /\ query \in Queries
  BY DEF Init
<1>2. "query" # "send"
  OBVIOUS
<1> QED BY <1>1, <1>2, Zenon DEF DeliveredInv, Handled

(* Handling the query keeps it: an answer and what is kept are those of    *)
(* the DATA message of the query.                                          *)
LEMMA DeliveredHandled ==
  ASSUME DeliveredInv, RuntimeReadsRight, Handle
  PROVE  DeliveredInv'
<1>1. query' = query
  BY Zenon DEF Handle
<1>2. PICK h \in HeapBytes : /\ wire' = HandleData(wire.msg, h, fault)
                             /\ kept' = MemoryKept(wire.msg, h)
  BY Zenon DEF Handle
<1>3. ASSUME Delivered(query)
      PROVE  Handled'
  <2>1. wire.msg = DataMessage(query)
    BY <1>3, Zenon DEF Handle, DeliveredInv, Handled
  <2>2. Parts(query) /\ h \in Byte /\ RuntimeReads(query)
    BY <1>3, QueriesAssumption, QueryParts, HeapAssumption, Zenon
       DEF DeliveredInv, RuntimeReadsRight
  <2>3. wire'.kind = "send" => HoldsNumber(query) /\ (CodeHeld(query) => AsksNumber(query))
    BY <1>2, <1>3, <2>1, <2>2, SentWhenAsked, Zenon
  <2>4. GivenUp(query) => kept' = 0
    BY <1>2, <1>3, <2>1, <2>2, NothingKept, Zenon
  <2>5. wire'.kind # "query"
    BY <1>2, NeverQuery, Zenon
  <2> QED BY <1>1, <2>3, <2>4, <2>5, Zenon DEF Handled
<1> QED BY <1>1, <1>3, Zenon DEF DeliveredInv

(* So does every step: reading the answer touches none of it.              *)
LEMMA DeliveredStep == DeliveredInv /\ RuntimeReadsRight /\ [Next]_vars => DeliveredInv'
<1> SUFFICES ASSUME DeliveredInv, RuntimeReadsRight, [Next]_vars
             PROVE  DeliveredInv'
  OBVIOUS
<1>1. CASE Handle
  BY <1>1, DeliveredHandled, Zenon
<1>2. CASE Read
  BY <1>2, Zenon DEF Read, DeliveredInv, Handled
<1>3. CASE UNCHANGED vars
  BY <1>3, Zenon DEF vars, DeliveredInv, Handled
<1> QED BY <1>1, <1>2, <1>3, Zenon DEF Next

(* The invariant holds in every reachable state, as long as the asn1c      *)
(* runtime reads in the query what is there.                               *)
THEOREM DeliveredInvariant == Spec /\ []RuntimeReadsRight => []DeliveredInv
BY DeliveredInitially, DeliveredStep, PTL DEF Spec

(* OnlyNumbersAnswered: of the queries that reach the TCAP layer only a    *)
(* single invoke with a number is answered, and with an operation code     *)
(* that the program can tell only one of InitialDP.                        *)
THEOREM NumbersAnswered ==
  Spec /\ []RuntimeReadsRight => [](Delivered(query) => OnlyNumbersAnswered)
<1>1. DeliveredInv => (Delivered(query) => OnlyNumbersAnswered)
  BY Zenon DEF DeliveredInv, Handled, OnlyNumbersAnswered
<1> QED BY <1>1, DeliveredInvariant, PTL

(* GivenUpFreed: of these queries one that the program gives up is freed   *)
(* to the last block.                                                      *)
THEOREM GivenUpIsFreed ==
  Spec /\ []RuntimeReadsRight => [](Delivered(query) => GivenUpFreed)
<1>1. DeliveredInv => (Delivered(query) => GivenUpFreed)
  BY Zenon DEF DeliveredInv, Handled, GivenUpFreed
<1> QED BY <1>1, DeliveredInvariant, PTL
=============================================================================
