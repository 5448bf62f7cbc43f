--------------------------------- MODULE Scp ---------------------------------
(***************************************************************************)
(* The whole program: the session of Vscp with the data pipeline behind    *)
(* it, and the messages as they are on the wire.  What the gateway reads   *)
(* in the messages that reach it is what NumberService promises.           *)
(***************************************************************************)
EXTENDS Exchange

CONSTANTS Queries,      \* the queries the gateway may ask
          SendMayFail,  \* whether sctp_sendmsg may fail on a working association
          Limit         \* messages of management the gateway leaves unread

ASSUME QueriesAssumption == Queries \subseteq Query
ASSUME BoundAssumption   == SendMayFail \in BOOLEAN /\ Limit \in Nat \ {0}

VARIABLES pc, cur, stdin, link, rx, tx, peer, asked, got

(* What a gateway sends besides queries: the two acknowledgements, a       *)
(* notification, and a heartbeat, which the program does not know.         *)
AspUpAck     == M3uaMessage(3, 4, <<>>)
AspActiveAck == M3uaMessage(4, 3, <<>>)
Notify       == M3uaMessage(0, 1, Parameter(<<0, 13>>, <<0, 1, 0, 2>>))
Heartbeat    == M3uaMessage(3, 3, <<>>)

Wire    == [q \in Queries |-> DataMessage(q)]
Message == {Wire[q] : q \in Queries} \cup {AspUpAck, AspActiveAck, Notify, Heartbeat}

OutcomesOf == [m \in {Wire[q] : q \in Queries} |-> Outcomes(m)]
Handled(m) == OutcomesOf[m]

Session == INSTANCE Vscp WITH Outcomes <- Handled

Spec == Session!Spec

-----------------------------------------------------------------------------
(* The right answers to a query: those of the program's replies in which   *)
(* the gateway reads its own query, with the number translated (or the     *)
(* default number, when the statement may be refused).                     *)
Replies == {o.msg : o \in {p \in UNION {OutcomesOf[Wire[q]] : q \in Queries} : p.kind = "send"}}
Right   == [q \in Queries |->
              {r \in Replies : \/ View(r) = Expected(q, Translation(q))
                               \/ "prepare" \in Faults /\ View(r) = Expected(q, NoNum)}]
Asked   == [m \in DOMAIN OutcomesOf |-> CHOOSE q \in Queries : Wire[q] = m]
Certain == {q \in Queries : /\ Plain(q) /\ Faults \subseteq {"prepare"}
                            /\ Translation(q) \notin {Null, <<>>}
                            /\ AnswerFits(q, Translation(q)) /\ AnswerFits(q, NoNum)}

(* The queries the program keeps that promise for: those it is written for *)
(* that no number makes too long, where the asn1c runtime does its part,   *)
(* and those it never answers.                                             *)
Served(q) ==
  IF Plain(q)
  THEN RuntimeServes(q) /\ \A n \in {NoNum, Translation(q)} \ {Null, <<>>} : AnswerFits(q, n)
  ELSE \A o \in OutcomesOf[Wire[q]] : o.kind # "send"

(* What that takes of a query and of the asn1c runtime, whatever the       *)
(* program makes of it: the others reach the TCAP layer, are read as what  *)
(* they are, ask for no number, and have none that the program could take  *)
(* for one it is asked for because it does not tell the operation.         *)
Suited(q) ==
  IF Plain(q) THEN Served(q)
  ELSE Delivered(q) /\ RuntimeReads(q) /\ ~AsksNumber(q) /\ (CodeHeld(q) \/ ~HoldsNumber(q))

AnswersTo(m) == Right[Asked[m]]
MayIgnore(m) == SendMayFail \/ Asked[m] \notin Certain

(* From the registration to the last octet of the answer, the program is   *)
(* NumberService: every query the gateway has asked is answered in turn,   *)
(* at most once, and what the gateway reads in the answer is its own query *)
(* with the number translated; a query the program is written for is not   *)
(* passed over while the association stands.                               *)
Service == INSTANCE NumberService
             WITH Query <- DOMAIN OutcomesOf, Answers <- AnswersTo, MayDrop <- MayIgnore,
                  pending <- Session!Pending, answers <- tx[1], open <- (link = "up")
NumberServiceProvided == Service!Spec

(* While the terminal is left alone, the gateway that has asked such a     *)
(* query reads the right answer, unless the association or the program     *)
(* goes first.                                                             *)
RightAnswerArrives ==
  Session!Quiet => \A q \in Certain :
    Wire[q] \in asked ~> got \cap Right[q] # {} \/ link # "up" \/ pc \in Session!Ended
=============================================================================
