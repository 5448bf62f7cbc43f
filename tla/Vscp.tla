-------------------------------- MODULE Vscp --------------------------------
(***************************************************************************)
(* The service control point as a process (main in protoVSCP.cpp, with     *)
(* SctpConnection.cpp): it opens one SCTP association, registers as an     *)
(* M3UA application server process, then waits in select for the terminal  *)
(* or the association and handles one message at a time.  Around it: the   *)
(* association, the terminal, and the signalling gateway (the peer), which *)
(* follows RFC 4666.  What the messages say is left to the constants.      *)
(***************************************************************************)
EXTENDS Naturals, Sequences

CONSTANTS
  Message,         \* the messages the peer may send
  M3UAMsgType(_),  \* how the program classifies a message
  Outcomes(_),     \* what may come of a DATA message
  AspUp, AspActive,\* the two messages of the registration
  SendMayFail,     \* whether sctp_sendmsg may fail on a working association
  Limit            \* messages of management the peer leaves unread at most

OfType(t) == {m \in Message : M3UAMsgType(m) = t}
Query     == OfType("TM_DATA")
Replies   == {o.msg : o \in {p \in UNION {Outcomes(q) : q \in Query} : p.kind = "send"}}

ASSUME MessageAssumption ==
  /\ OfType("ASPSM_ASPUP_ACK") # {} /\ OfType("ASPTM_ASPAC_ACK") # {}
  /\ AspUp # AspActive
ASSUME OutcomeAssumption ==
  \A q \in Query : Outcomes(q) # {} /\ \A o \in Outcomes(q) : o.kind \in {"none", "crash", "send"}
ASSUME BoundAssumption == SendMayFail \in BOOLEAN /\ Limit \in Nat \ {0}

VARIABLES
  pc,      \* where main is: "connect", "aspup", "select", "handle", or how it ended
  cur,     \* the message being handled, a sequence of at most one
  stdin,   \* the terminal: "idle", "ready" with a line, or at "eof"
  link,    \* the association: "none", "up", "shut" by the peer, "lost"
  rx, tx,  \* messages under way to and from the program, by SCTP stream
  peer,    \* the state of the program at the peer: "down", "inactive", "active"
  asked,   \* the queries the peer has sent
  got      \* the replies the peer has received

vars    == <<pc, cur, stdin, link, rx, tx, peer, asked, got>>
program == <<pc, cur>>
gateway == <<peer, asked, got>>

Stream == {0, 1}
Empty  == [s \in Stream |-> <<>>]
Ended  == {"exit0", "exit1", "killed"}

Init ==
  /\ pc = "connect" /\ cur = <<>> /\ stdin = "idle"
  /\ link = "none" /\ rx = Empty /\ tx = Empty
  /\ peer = "down" /\ asked = {} /\ got = {}

-----------------------------------------------------------------------------
(* The program.                                                            *)

(* connectTo: 0, or 1 or 2 for the call that failed; anything but 0 ends   *)
(* the program.                                                            *)
Connect ==
  /\ pc = "connect"
  /\ \E rc \in {0, 1, 2} :
       IF rc = 0 THEN pc' = "aspup" /\ link' = "up"
                 ELSE pc' = "exit1" /\ UNCHANGED link
  /\ UNCHANGED <<cur, stdin, rx, tx, gateway>>

(* sendMsg, whose result nobody looks at: a failed send changes nothing,   *)
(* but on an association that is gone it may also raise SIGPIPE.           *)
SendMsg(m, s) ==
  \/ link = "up" /\ tx' = [tx EXCEPT ![s] = Append(@, m)] /\ pc' = "select"
  \/ link = "up" /\ SendMayFail /\ UNCHANGED tx /\ pc' = "select"
  \/ link # "up" /\ UNCHANGED tx /\ pc' \in {"select", "killed"}

(* Mutant of SendAspUp: the call is left out.                              *)
NoAspUp ==
  /\ pc = "aspup" /\ pc' = "select"
  /\ UNCHANGED <<cur, stdin, link, rx, tx, gateway>>

SendAspUp ==
  /\ pc = "aspup"
  /\ SendMsg(AspUp, 0)
  /\ UNCHANGED <<cur, stdin, link, rx, gateway>>

(* select returned: the terminal is looked at first, and alone.  At end of *)
(* file it stays readable and read returns 0 for ever.                     *)
ReadStdin ==
  /\ pc = "select" /\ stdin # "idle"
  /\ stdin' = IF stdin = "ready" THEN "idle" ELSE "eof"
  /\ UNCHANGED <<program, link, rx, tx, gateway>>

(* Mutants of Receive: the message is read but not kept; it is read but    *)
(* stays in the queue (MSG_PEEK).                                          *)
ReceiveNothing(s) ==
  /\ pc = "select" /\ stdin = "idle" /\ rx[s] # <<>>
  /\ pc' = "handle" /\ rx' = [rx EXCEPT ![s] = Tail(@)]
  /\ UNCHANGED <<cur, stdin, link, tx, gateway>>

Peek(s) ==
  /\ pc = "select" /\ stdin = "idle" /\ rx[s] # <<>>
  /\ cur' = <<Head(rx[s])>> /\ pc' = "handle"
  /\ UNCHANGED <<stdin, link, rx, tx, gateway>>

(* waitForMsg returned a message.                                          *)
Receive(s) ==
  /\ pc = "select" /\ stdin = "idle" /\ rx[s] # <<>>
  /\ cur' = <<Head(rx[s])>> /\ pc' = "handle"
  /\ rx' = [rx EXCEPT ![s] = Tail(@)]
  /\ UNCHANGED <<stdin, link, tx, gateway>>

(* Mutant of EndOfAssociation: continue instead of break.                  *)
GoOn ==
  /\ pc = "select" /\ stdin = "idle" /\ rx = Empty /\ link \in {"shut", "lost"}
  /\ pc' = "select"
  /\ UNCHANGED <<cur, stdin, link, rx, tx, gateway>>

(* waitForMsg returned 0 or less: the loop ends.                           *)
EndOfAssociation ==
  /\ pc = "select" /\ stdin = "idle" /\ rx = Empty /\ link \in {"shut", "lost"}
  /\ pc' = "exit0"
  /\ UNCHANGED <<cur, stdin, link, rx, tx, gateway>>

Handling(types) == pc = "handle" /\ M3UAMsgType(cur[1]) \in types

(* Mutant of Ignore: a case without its break, so that a notification is   *)
(* handled as an acknowledgement.                                          *)
FallThrough ==
  /\ Handling({"UNKNOWN", "MGMT_NTFY", "ASPTM_ASPAC_ACK"})
  /\ IF Handling({"MGMT_NTFY"}) THEN SendMsg(AspActive, 0) ELSE pc' = "select" /\ UNCHANGED tx
  /\ cur' = <<>>
  /\ UNCHANGED <<stdin, link, rx, gateway>>

(* An unknown message, a notification, ASP Active Ack: nothing is done.    *)
Ignore ==
  /\ Handling({"UNKNOWN", "MGMT_NTFY", "ASPTM_ASPAC_ACK"})
  /\ pc' = "select" /\ cur' = <<>>
  /\ UNCHANGED <<stdin, link, rx, tx, gateway>>

(* Mutant of OnAspUpAck: the registration stops half way.                  *)
StayInactive ==
  /\ Handling({"ASPSM_ASPUP_ACK"})
  /\ pc' = "select" /\ cur' = <<>>
  /\ UNCHANGED <<stdin, link, rx, tx, gateway>>

OnAspUpAck ==
  /\ Handling({"ASPSM_ASPUP_ACK"})
  /\ SendMsg(AspActive, 0) /\ cur' = <<>>
  /\ UNCHANGED <<stdin, link, rx, gateway>>

(* Mutant of OnData: the answer goes out on the stream of management.      *)
AnswerOnStream0 ==
  /\ Handling({"TM_DATA"})
  /\ cur' = <<>>
  /\ \E o \in Outcomes(cur[1]) :
       \/ o.kind = "none"  /\ pc' = "select" /\ UNCHANGED tx
       \/ o.kind = "crash" /\ pc' = "killed" /\ UNCHANGED tx
       \/ o.kind = "send"  /\ SendMsg(o.msg, 0)
  /\ UNCHANGED <<stdin, link, rx, gateway>>

OnData ==
  /\ Handling({"TM_DATA"})
  /\ cur' = <<>>
  /\ \E o \in Outcomes(cur[1]) :
       \/ o.kind = "none"  /\ pc' = "select" /\ UNCHANGED tx
       \/ o.kind = "crash" /\ pc' = "killed" /\ UNCHANGED tx
       \/ o.kind = "send"  /\ SendMsg(o.msg, 1)
  /\ UNCHANGED <<stdin, link, rx, gateway>>

Program ==
  \/ Connect \/ SendAspUp \/ ReadStdin \/ EndOfAssociation
  \/ \E s \in Stream : Receive(s)
  \/ Ignore \/ OnAspUpAck \/ OnData

-----------------------------------------------------------------------------
(* The peer and the outside world.                                         *)

PeerSends(m, s) == rx' = [rx EXCEPT ![s] = Append(@, m)]
PeerTakes(s)    == link = "up" /\ tx[s] # <<>> /\ tx' = [tx EXCEPT ![s] = Tail(@)]

PeerOnAspUp ==
  /\ PeerTakes(0) /\ Head(tx[0]) = AspUp
  /\ peer' = "inactive"
  /\ \E m \in OfType("ASPSM_ASPUP_ACK") : PeerSends(m, 0)
  /\ UNCHANGED <<program, stdin, link, asked, got>>

PeerOnAspActive ==
  /\ PeerTakes(0) /\ Head(tx[0]) = AspActive
  /\ peer' = "active"
  /\ \E m \in OfType("ASPTM_ASPAC_ACK") : PeerSends(m, 0)
  /\ UNCHANGED <<program, stdin, link, asked, got>>

PeerAsks(q) ==
  /\ link = "up" /\ peer = "active" /\ q \notin asked
  /\ PeerSends(q, 1) /\ asked' = asked \cup {q}
  /\ UNCHANGED <<program, stdin, link, tx, peer, got>>

PeerCollects ==
  /\ PeerTakes(1) /\ got' = got \cup {Head(tx[1])}
  /\ UNCHANGED <<program, stdin, link, rx, peer, asked>>

(* Notifications, and messages the program does not know.                  *)
PeerNotifies ==
  /\ link = "up" /\ Len(rx[0]) < Limit
  /\ \E m \in OfType("MGMT_NTFY") \cup OfType("UNKNOWN") : PeerSends(m, 0)
  /\ UNCHANGED <<program, stdin, link, tx, gateway>>

(* The peer shuts the association down in order: what it sent is delivered *)
(* first.                                                                  *)
PeerShutsDown ==
  /\ link = "up" /\ link' = "shut" /\ tx' = Empty /\ peer' = "down"
  /\ UNCHANGED <<program, stdin, rx, asked, got>>

(* The association breaks: what was under way may be lost.                 *)
LinkLost ==
  /\ link = "up" /\ link' = "lost" /\ tx' = Empty /\ peer' = "down"
  /\ rx' \in {rx, Empty}
  /\ UNCHANGED <<program, stdin, asked, got>>

Terminal ==
  /\ stdin = "idle" /\ pc \notin Ended /\ stdin' \in {"ready", "eof"}
  /\ UNCHANGED <<program, link, rx, tx, gateway>>

Environment ==
  \/ PeerOnAspUp \/ PeerOnAspActive \/ PeerCollects \/ PeerNotifies
  \/ \E q \in Query : PeerAsks(q)
  \/ PeerShutsDown \/ LinkLost \/ Terminal

Next == Program \/ Environment

(* The process is scheduled; SCTP delivers what arrived on every stream    *)
(* sooner or later; the peer reads and answers.  Nothing makes it ask, hang *)
(* up or type.                                                             *)
Fairness ==
  /\ WF_vars(Program)
  /\ \A s \in Stream : SF_vars(Receive(s))
  /\ WF_vars(PeerOnAspUp) /\ WF_vars(PeerOnAspActive) /\ WF_vars(PeerCollects)

Spec == Init /\ [][Next]_vars /\ Fairness

-----------------------------------------------------------------------------
(* Properties.                                                             *)

(* Every variable holds a value of its kind; there is a message in hand    *)
(* exactly while one is handled; management and data keep to their streams *)
(* in both directions (stream 0 in aspUP and aspACTIVE, stream 1 in main). *)
TypeOK ==
  /\ pc \in {"connect", "aspup", "select", "handle"} \cup Ended
  /\ cur \in {<<>>} \cup {<<m>> : m \in Message} /\ (pc = "handle" <=> cur # <<>>)
  /\ stdin \in {"idle", "ready", "eof"} /\ link \in {"none", "up", "shut", "lost"}
  /\ rx \in [Stream -> Seq(Message)] /\ rx[0] \in Seq(Message \ Query) /\ rx[1] \in Seq(Query)
  /\ tx \in [Stream -> Seq({AspUp, AspActive} \cup Replies)]
  /\ tx[0] \in Seq({AspUp, AspActive}) /\ tx[1] \in Seq(Replies)
  /\ peer \in {"down", "inactive", "active"} /\ asked \subseteq Query /\ got \subseteq Replies

(* Where the registration has got to: the steps of the dialogue that are   *)
(* still under way.                                                        *)
IsAck(m)  == M3UAMsgType(m) = "ASPSM_ASPUP_ACK"
AcksIn(q) == {i \in DOMAIN q : IsAck(q[i])}
Acks      == AcksIn(rx[0])
InStage(st) ==
  \/ st = "to connect"    /\ pc \in {"connect", "aspup"}
  \/ st = "asp up"        /\ tx[0] # <<>> /\ Head(tx[0]) = AspUp
  \/ st = "ack under way" /\ Acks # {}
  \/ st = "ack in hand"   /\ cur # <<>> /\ IsAck(cur[1])
  \/ st = "asp active"    /\ tx[0] # <<>> /\ Head(tx[0]) = AspActive
  \/ st = "active"        /\ peer = "active"
Stages == {st \in {"to connect", "asp up", "ack under way", "ack in hand", "asp active", "active"} :
             InStage(st)}

(* The registration runs through once: ASP Up, its acknowledgement, ASP    *)
(* Active and the active state never exist side by side or twice, whatever *)
(* else arrives in between (main, case ASPSM_ASPUP_ACK).                   *)
HandshakeOnce ==
  /\ \A s, t \in Stages : s = t
  /\ \A i, j \in Acks : i = j
  /\ Len(tx[0]) <= 1

(* While sends do not fail, the registration is never lost either: on a    *)
(* working association some stage of it is always under way, so the        *)
(* program, which has no timer and never repeats ASP Up, is not left       *)
(* waiting for an acknowledgement nobody will send.                        *)
HandshakeNotLost ==
  link = "up" /\ pc \notin Ended /\ ~SendMayFail => Stages # {}

(* Queries sent and not dealt with, the oldest first.                      *)
Pending == (IF cur # <<>> /\ cur[1] \in Query THEN cur ELSE <<>>) \o rx[1]

(* The peer is owed an answer to each query in order, and gets that answer *)
(* and no other: the program implements NumberService.                     *)
AnswersTo(q)  == {o.msg : o \in {p \in Outcomes(q) : p.kind = "send"}}
MayIgnore(q)  == SendMayFail \/ \E o \in Outcomes(q) : o.kind # "send"
Service == INSTANCE NumberService
             WITH Answers <- AnswersTo, MayDrop <- MayIgnore,
                  pending <- Pending, answers <- tx[1], open <- (link = "up")
ServiceRefined == Service!Spec

(* The terminal is left alone from some time on: as long as it is readable *)
(* the program does not look at the association.                           *)
Quiet == <>[](stdin = "idle")

(* Once connected, the program becomes active at the peer, unless the      *)
(* association goes first: the acknowledgement makes it send ASP Active.   *)
Registers == Quiet => (link = "up" ~> peer = "active" \/ link # "up" \/ pc \in Ended)

(* A query that always has an answer gets it, unless the association or    *)
(* the program goes first (another message may end it).                    *)
AlwaysAnswered ==
  Quiet => \A q \in {p \in Query : ~MayIgnore(p)} :
             q \in asked ~> got \cap AnswersTo(q) # {} \/ link # "up" \/ pc \in Ended

(* When the association is gone the program notices and ends, having dealt *)
(* with what it had received.                                              *)
Stops == Quiet => (link \in {"shut", "lost"} ~> pc \in Ended /\ cur = <<>>)
=============================================================================
