------------------------------ MODULE Vscp_proof ------------------------------
(***************************************************************************)
(* Proofs about the session, for any messages, any outcomes of a query,    *)
(* failing sends or not.                                                   *)
(***************************************************************************)
EXTENDS Vscp, SequenceTheorems, TLAPS

(* A message taken from a queue leaves the rest of the queue.              *)
LEMMA TakenFromQueue ==
  ASSUME NEW S, NEW q \in Seq(S), q # <<>>
  PROVE  Head(q) \in S /\ Tail(q) \in Seq(S)
BY HeadTailProperties

(* A message put into a queue makes it a longer queue.                     *)
LEMMA PutIntoQueue ==
  ASSUME NEW S, NEW q \in Seq(S), NEW m \in S
  PROVE  Append(q, m) \in Seq(S)
BY AppendProperties

(* What sendMsg does to the variables it changes.                          *)
TxType ==
  /\ tx \in [Stream -> Seq({AspUp, AspActive} \cup Replies)]
  /\ tx[0] \in Seq({AspUp, AspActive}) /\ tx[1] \in Seq(Replies)

(* sendMsg keeps to the types of what it changes.                          *)
LEMMA SendMsgType ==
  ASSUME TxType, NEW m, NEW s \in Stream, SendMsg(m, s),
         s = 0 => m \in {AspUp, AspActive}, s = 1 => m \in Replies
  PROVE  pc' \in {"select", "killed"} /\ TxType'
<1>1. pc' \in {"select", "killed"}
  BY DEF SendMsg
<1>2. CASE UNCHANGED tx
  BY <1>1, <1>2 DEF TxType
<1>3. CASE tx' = [tx EXCEPT ![s] = Append(@, m)]
  <2>1. Append(tx[s], m) \in Seq({AspUp, AspActive} \cup Replies)
    BY PutIntoQueue DEF TxType, Stream
  <2>2. s = 0 => Append(tx[0], m) \in Seq({AspUp, AspActive})
    BY PutIntoQueue DEF TxType
  <2>3. s = 1 => Append(tx[1], m) \in Seq(Replies)
    BY PutIntoQueue DEF TxType
  <2> QED BY <1>1, <1>3, <2>1, <2>2, <2>3 DEF TxType, Stream
<1> QED BY <1>1, <1>2, <1>3 DEF SendMsg

(* The outcomes of a query that are sent are replies.                      *)
LEMMA SentIsReply ==
  ASSUME NEW q \in Query, NEW o \in Outcomes(q), o.kind = "send"
  PROVE  o.msg \in Replies
BY DEF Replies

(* Acknowledgements, notifications and unknown messages are no queries.    *)
LEMMA ManagementIsNoQuery ==
  ASSUME NEW t \in {"ASPSM_ASPUP_ACK", "ASPTM_ASPAC_ACK", "MGMT_NTFY", "UNKNOWN"},
         NEW m \in OfType(t)
  PROVE  m \in Message \ Query
BY DEF OfType, Query

(* At the start every variable holds a value of its kind.                  *)
LEMMA TypeInit == Init => TypeOK
BY DEF Init, TypeOK, Empty, Stream, Ended

(* No step of the program, the gateway or the association changes that.    *)
LEMMA TypeStep ==
  ASSUME TypeOK, [Next]_vars
  PROVE  TypeOK'
<1>t. TxType
  BY DEF TypeOK, TxType
<1>1. CASE Connect
  BY <1>1 DEF Connect, TypeOK, gateway, Ended
<1>2. CASE SendAspUp
  <2>1. pc' \in {"select", "killed"} /\ TxType'
    BY <1>2, <1>t, SendMsgType DEF SendAspUp, Stream
  <2> QED BY <1>2, <2>1 DEF SendAspUp, TypeOK, TxType, gateway, Ended
<1>3. CASE ReadStdin
  BY <1>3 DEF ReadStdin, TypeOK, program, gateway
<1>4. CASE EndOfAssociation
  BY <1>4 DEF EndOfAssociation, TypeOK, gateway, Ended
<1>5. ASSUME NEW s \in Stream, Receive(s) PROVE TypeOK'
  <2>1. Head(rx[s]) \in Message /\ Tail(rx[s]) \in Seq(Message)
    BY <1>5, TakenFromQueue DEF Receive, TypeOK
  <2>2. s = 0 => Tail(rx[s]) \in Seq(Message \ Query)
    BY <1>5, TakenFromQueue DEF Receive, TypeOK
  <2>3. s = 1 => Tail(rx[s]) \in Seq(Query)
    BY <1>5, TakenFromQueue DEF Receive, TypeOK
  <2> QED BY <1>5, <2>1, <2>2, <2>3 DEF Receive, TypeOK, gateway, Stream, Ended
<1>6. CASE Ignore
  BY <1>6 DEF Ignore, TypeOK, gateway, Handling
<1>7. CASE OnAspUpAck
  <2>1. pc' \in {"select", "killed"} /\ TxType'
    BY <1>7, <1>t, SendMsgType DEF OnAspUpAck, Stream
  <2> QED BY <1>7, <2>1 DEF OnAspUpAck, TypeOK, TxType, gateway, Ended
<1>8. CASE OnData
  <2>1. cur[1] \in Query
    BY <1>8 DEF OnData, Handling, TypeOK, Query, OfType
  <2>2. PICK o \in Outcomes(cur[1]) :
          \/ o.kind = "none"  /\ pc' = "select" /\ UNCHANGED tx
          \/ o.kind = "crash" /\ pc' = "killed" /\ UNCHANGED tx
          \/ o.kind = "send"  /\ SendMsg(o.msg, 1)
    BY <1>8 DEF OnData
  <2>3. o.kind = "send" => o.msg \in Replies
    BY <2>1, SentIsReply
  <2>4. pc' \in {"select", "killed"} /\ TxType'
    <3>1. CASE o.kind = "send" /\ SendMsg(o.msg, 1)
      BY <3>1, <2>3, <1>t, SendMsgType DEF Stream
    <3>2. CASE UNCHANGED tx /\ pc' \in {"select", "killed"}
      BY <3>2, <1>t DEF TxType
    <3> QED BY <2>2, <3>1, <3>2
  <2> QED BY <1>8, <2>4 DEF OnData, TypeOK, TxType, gateway, Ended
<1>9. ASSUME NEW m, NEW s \in Stream, PeerSends(m, s),
             s = 0 => m \in Message \ Query, s = 1 => m \in Query
      PROVE  /\ rx' \in [Stream -> Seq(Message)]
             /\ rx'[0] \in Seq(Message \ Query) /\ rx'[1] \in Seq(Query)
  <2>1. m \in Message
    BY <1>9 DEF Stream, Query, OfType
  <2>2. Append(rx[s], m) \in Seq(Message)
    BY <2>1, PutIntoQueue DEF TypeOK
  <2>3. s = 0 => Append(rx[0], m) \in Seq(Message \ Query)
    BY <1>9, PutIntoQueue DEF TypeOK
  <2>4. s = 1 => Append(rx[1], m) \in Seq(Query)
    BY <1>9, PutIntoQueue DEF TypeOK
  <2> QED BY <1>9, <2>2, <2>3, <2>4 DEF PeerSends, TypeOK, Stream
<1>10. ASSUME NEW s \in Stream, PeerTakes(s)
       PROVE  /\ TxType' /\ Head(tx[s]) \in {AspUp, AspActive} \cup Replies
              /\ s = 1 => Head(tx[s]) \in Replies
  <2>1. /\ Tail(tx[s]) \in Seq({AspUp, AspActive} \cup Replies)
        /\ Head(tx[s]) \in {AspUp, AspActive} \cup Replies
    BY <1>10, TakenFromQueue DEF PeerTakes, TypeOK
  <2>2. s = 0 => Tail(tx[s]) \in Seq({AspUp, AspActive})
    BY <1>10, TakenFromQueue DEF PeerTakes, TypeOK
  <2>3. s = 1 => Tail(tx[s]) \in Seq(Replies) /\ Head(tx[s]) \in Replies
    BY <1>10, TakenFromQueue DEF PeerTakes, TypeOK
  <2> QED BY <1>10, <2>1, <2>2, <2>3 DEF PeerTakes, TypeOK, TxType, Stream
<1>11. CASE PeerOnAspUp
  <2>1. PICK m \in OfType("ASPSM_ASPUP_ACK") : PeerSends(m, 0)
    BY <1>11 DEF PeerOnAspUp
  <2> QED BY <1>11, <2>1, <1>9, <1>10, ManagementIsNoQuery
          DEF PeerOnAspUp, TypeOK, TxType, program, Stream
<1>12. CASE PeerOnAspActive
  <2>1. PICK m \in OfType("ASPTM_ASPAC_ACK") : PeerSends(m, 0)
    BY <1>12 DEF PeerOnAspActive
  <2> QED BY <1>12, <2>1, <1>9, <1>10, ManagementIsNoQuery
          DEF PeerOnAspActive, TypeOK, TxType, program, Stream
<1>13. ASSUME NEW q \in Query, PeerAsks(q) PROVE TypeOK'
  BY <1>13, <1>9 DEF PeerAsks, TypeOK, program, Stream
<1>14. CASE PeerCollects
  BY <1>14, <1>10 DEF PeerCollects, TypeOK, TxType, program, Stream
<1>15. CASE PeerNotifies
  <2>1. PICK m \in OfType("MGMT_NTFY") \cup OfType("UNKNOWN") : PeerSends(m, 0)
    BY <1>15 DEF PeerNotifies
  <2>2. m \in Message \ Query
    BY <2>1, ManagementIsNoQuery
  <2> QED BY <1>15, <2>1, <2>2, <1>9 DEF PeerNotifies, TypeOK, program, gateway, Stream
<1>16. CASE PeerShutsDown
  BY <1>16 DEF PeerShutsDown, TypeOK, program, Empty, Stream
<1>17. CASE LinkLost
  <2>1. CASE rx' = rx
    BY <1>17, <2>1 DEF LinkLost, TypeOK, program, Empty, Stream
  <2>2. CASE rx' = Empty
    BY <1>17, <2>2 DEF LinkLost, TypeOK, program, Empty, Stream
  <2> QED BY <1>17, <2>1, <2>2 DEF LinkLost
<1>18. CASE Terminal
  BY <1>18 DEF Terminal, TypeOK, program, gateway
<1>19. CASE UNCHANGED vars
  BY <1>19 DEF vars, TypeOK
<1> QED BY <1>1, <1>2, <1>3, <1>4, <1>5, <1>6, <1>7, <1>8, <1>11, <1>12, <1>13, <1>14, <1>15,
           <1>16, <1>17, <1>18, <1>19 DEF Next, Program, Environment

(* The type invariant: every variable holds a value of its kind, a message *)
(* is in hand exactly while one is handled, and management and data keep   *)
(* to their streams.                                                       *)
THEOREM TypeCorrect == Spec => []TypeOK
BY TypeInit, TypeStep, PTL DEF Spec

-----------------------------------------------------------------------------
(* The registration.                                                       *)

(* Taking a message from a queue with at most one acknowledgement leaves   *)
(* at most one, and none if the message is the acknowledgement.            *)
LEMMA AckTaken ==
  ASSUME NEW S, NEW q \in Seq(S), q # <<>>, \A i, j \in AcksIn(q) : i = j
  PROVE  /\ \A i, j \in AcksIn(Tail(q)) : i = j
         /\ IsAck(Head(q)) => AcksIn(Tail(q)) = {}
         /\ AcksIn(q) = {} => AcksIn(Tail(q)) = {} /\ ~IsAck(Head(q))
<1>1. /\ Tail(q) \in Seq(S) /\ Len(q) \in Nat /\ Len(q) >= 1
      /\ DOMAIN q = 1..Len(q) /\ DOMAIN Tail(q) = 1..(Len(q) - 1)
      /\ Head(q) = q[1] /\ \A i \in 1..(Len(q) - 1) : Tail(q)[i] = q[i + 1]
  OBVIOUS
<1>2. \A i \in AcksIn(Tail(q)) : i \in Nat /\ i >= 1 /\ i + 1 \in AcksIn(q)
  BY <1>1 DEF AcksIn
<1>3. IsAck(Head(q)) => 1 \in AcksIn(q)
  BY <1>1 DEF AcksIn
<1> QED BY <1>2, <1>3

(* Putting a message into a queue adds at most that one acknowledgement.   *)
LEMMA AckPut ==
  ASSUME NEW S, NEW q \in Seq(S), NEW m \in S
  PROVE  /\ ~IsAck(m) => AcksIn(Append(q, m)) = AcksIn(q)
         /\ AcksIn(q) = {} => \A i, j \in AcksIn(Append(q, m)) : i = j
<1>1. /\ Len(q) \in Nat /\ DOMAIN q = 1..Len(q) /\ DOMAIN Append(q, m) = 1..(Len(q) + 1)
      /\ Append(q, m)[Len(q) + 1] = m /\ \A i \in 1..Len(q) : Append(q, m)[i] = q[i]
  OBVIOUS
<1>2. \A i \in AcksIn(Append(q, m)) : i \in AcksIn(q) \/ (i = Len(q) + 1 /\ IsAck(m))
  BY <1>1 DEF AcksIn
<1>3. AcksIn(q) \subseteq AcksIn(Append(q, m))
  BY <1>1 DEF AcksIn
<1> QED BY <1>2, <1>3

(* The stages as formulas, and the inductive invariant: no two at a time,  *)
(* one message and one acknowledgement at most.                            *)
ToConnect  == pc \in {"connect", "aspup"}
UpSent     == tx[0] # <<>> /\ Head(tx[0]) = AspUp
AckInHand  == cur # <<>> /\ IsAck(cur[1])
ActiveSent == tx[0] # <<>> /\ Head(tx[0]) = AspActive
Active     == peer = "active"
OneStage ==
  /\ ToConnect     => ~UpSent /\ Acks = {} /\ ~AckInHand /\ ~ActiveSent /\ ~Active
  /\ UpSent        => Acks = {} /\ ~AckInHand /\ ~ActiveSent /\ ~Active
  /\ Acks # {}     => ~AckInHand /\ ~ActiveSent /\ ~Active
  /\ AckInHand     => ~ActiveSent /\ ~Active
  /\ ActiveSent    => ~Active
  /\ \A i, j \in Acks : i = j
  /\ Len(tx[0]) <= 1

(* The inductive invariant says what HandshakeOnce says of the stages.     *)
LEMMA OneStageSuffices == OneStage => HandshakeOnce
BY DEF OneStage, HandshakeOnce, Stages, InStage, ToConnect, UpSent, AckInHand, ActiveSent, Active

(* Only ASP Up and ASP Active wait on stream 0 towards the peer.           *)
LEMMA NothingSent ==
  ASSUME TypeOK
  PROVE  /\ tx[0] = <<>> <=> ~UpSent /\ ~ActiveSent
         /\ ~(UpSent /\ ActiveSent)
<1>1. tx[0] # <<>> => Head(tx[0]) \in {AspUp, AspActive}
  BY TakenFromQueue DEF TypeOK
<1> QED BY <1>1, MessageAssumption DEF UpSent, ActiveSent

(* A message sent on an empty stream 0 is alone there.                     *)
LEMMA SentAlone ==
  ASSUME TypeOK, tx[0] = <<>>, NEW m, SendMsg(m, 0)
  PROVE  /\ pc' \in {"select", "killed"}
         /\ tx'[0] = <<>> \/ (tx'[0] = <<m>> /\ Head(tx'[0]) = m)
<1>1. Append(<<>>, m) = <<m>> /\ Head(<<m>>) = m
  OBVIOUS
<1> QED BY <1>1 DEF SendMsg, TypeOK, Stream

(* What the peer takes from stream 0 was alone there.                      *)
LEMMA TakenAlone ==
  ASSUME TypeOK, Len(tx[0]) <= 1, PeerTakes(0)
  PROVE  tx'[0] = <<>>
<1>1. \A q \in Seq({AspUp, AspActive}) : q # <<>> /\ Len(q) <= 1 => Tail(q) = <<>>
  <2> SUFFICES ASSUME NEW q \in Seq({AspUp, AspActive}), q # <<>>, Len(q) <= 1
               PROVE  Tail(q) = <<>>
    OBVIOUS
  <2>1. Tail(q) \in Seq({AspUp, AspActive}) /\ Len(Tail(q)) = Len(q) - 1 /\ Len(q) \in Nat
    BY HeadTailProperties
  <2>2. Len(Tail(q)) = 0
    BY <2>1
  <2> QED BY <2>1, <2>2, EmptySeq
<1> QED BY <1>1 DEF PeerTakes, TypeOK, Stream

(* Every step keeps to one stage: it stays, moves on or is lost.           *)
LEMMA OneStageStep ==
  ASSUME TypeOK, TypeOK', OneStage, [Next]_vars
  PROVE  OneStage'
<1> USE DEF OneStage, ToConnect, UpSent, AckInHand, ActiveSent, Active
<1>0. tx[0] = <<>> <=> ~UpSent /\ ~ActiveSent
  BY NothingSent
<1>e. Len(<<>>) <= 1
  OBVIOUS
<1>f. \A m : Len(<<m>>) <= 1 /\ <<m>> # <<>>
  OBVIOUS
<1>1. CASE Connect
  BY <1>1 DEF Connect, gateway, Acks
<1>2. CASE SendAspUp
  BY <1>2, <1>0, <1>e, <1>f, SentAlone, MessageAssumption DEF SendAspUp, gateway, Acks, TypeOK
<1>3. CASE ReadStdin
  BY <1>3 DEF ReadStdin, program, gateway, Acks
<1>4. CASE EndOfAssociation
  BY <1>4 DEF EndOfAssociation, gateway, Acks
<1>5. ASSUME NEW s \in Stream, Receive(s) PROVE OneStage'
  <2>1. CASE s = 0
    <3>1. rx[0] \in Seq(Message \ Query) /\ rx[0] # <<>>
      BY <1>5, <2>1 DEF Receive, TypeOK
    <3>2. Acks' = AcksIn(Tail(rx[0])) /\ cur' = <<Head(rx[0])>> /\ pc' = "handle"
      BY <1>5, <2>1 DEF Receive, TypeOK, Acks, AcksIn, Stream
    <3>3. AckInHand' <=> IsAck(Head(rx[0]))
      BY <3>2
    <3>4. /\ \A i, j \in Acks' : i = j
          /\ AckInHand' => Acks' = {}
          /\ Acks = {} => Acks' = {} /\ ~AckInHand'
      BY <3>1, <3>2, <3>3, AckTaken DEF Acks
    <3> QED BY <1>5, <3>2, <3>4 DEF Receive, gateway
  <2>2. CASE s = 1
    <3>1. Acks' = Acks
      BY <1>5, <2>2 DEF Receive, TypeOK, Acks, AcksIn, Stream
    <3>2. Head(rx[1]) \in Query
      BY <1>5, <2>2, TakenFromQueue DEF Receive, TypeOK
    <3>3. ~AckInHand' /\ pc' = "handle"
      BY <1>5, <2>2, <3>2 DEF Receive, IsAck, Query, OfType
    <3> QED BY <1>5, <3>1, <3>3 DEF Receive, gateway
  <2> QED BY <2>1, <2>2 DEF Stream
<1>6. CASE Ignore
  BY <1>6 DEF Ignore, gateway, Acks, Handling
<1>7. CASE OnAspUpAck
  <2>1. AckInHand
    BY <1>7 DEF OnAspUpAck, Handling, TypeOK, IsAck
  <2> QED BY <1>7, <2>1, <1>0, <1>e, <1>f, SentAlone, MessageAssumption
          DEF OnAspUpAck, gateway, Acks, Handling
<1>8. CASE OnData
  <2>1. tx'[0] = tx[0] /\ pc' \in {"select", "killed"}
    BY <1>8 DEF OnData, SendMsg, TypeOK, Stream
  <2> QED BY <1>8, <2>1 DEF OnData, gateway, Acks, Handling
<1>9. ASSUME NEW m \in Message, PeerSends(m, 0)
      PROVE  /\ ~IsAck(m) => Acks' = Acks
             /\ Acks = {} => \A i, j \in Acks' : i = j
  <2>1. rx[0] \in Seq(Message) /\ rx'[0] = Append(rx[0], m)
    BY <1>9 DEF PeerSends, TypeOK, Stream
  <2> QED BY <2>1, AckPut DEF Acks
<1>10. CASE PeerOnAspUp
  <2>1. \A i, j \in Acks' : i = j
    BY <1>9, <1>10 DEF PeerOnAspUp, PeerTakes, OfType
  <2> QED BY <1>10, <2>1, <1>e, TakenAlone DEF PeerOnAspUp, PeerTakes, program
<1>11. CASE PeerOnAspActive
  <2>1. Acks' = Acks
    BY <1>9, <1>11 DEF PeerOnAspActive, OfType, IsAck
  <2> QED BY <1>11, <2>1, <1>e, TakenAlone DEF PeerOnAspActive, PeerTakes, program
<1>12. ASSUME NEW q \in Query, PeerAsks(q) PROVE OneStage'
  <2>1. rx'[0] = rx[0]
    BY <1>12 DEF PeerAsks, PeerSends, TypeOK, Stream
  <2> QED BY <1>12, <2>1 DEF PeerAsks, Acks, program
<1>13. CASE PeerCollects
  <2>1. tx'[0] = tx[0]
    BY <1>13 DEF PeerCollects, PeerTakes, TypeOK, Stream
  <2> QED BY <1>13, <2>1 DEF PeerCollects, Acks, program
<1>14. CASE PeerNotifies
  <2>1. Acks' = Acks
    BY <1>9, <1>14 DEF PeerNotifies, OfType, IsAck
  <2> QED BY <1>14, <2>1 DEF PeerNotifies, program, gateway
<1>15. CASE PeerShutsDown
  BY <1>15, <1>e DEF PeerShutsDown, Acks, program, Empty, Stream
<1>16. CASE LinkLost
  <2>1. tx'[0] = <<>>
    BY <1>16 DEF LinkLost, Empty, Stream
  <2>2. CASE rx' = rx
    BY <1>16, <1>e, <2>1, <2>2 DEF LinkLost, Acks, program
  <2>3. CASE rx' = Empty
    <3>1. Acks' = {}
      BY <2>3 DEF Acks, AcksIn, Empty, Stream
    <3> QED BY <1>16, <1>e, <2>1, <3>1 DEF LinkLost, program
  <2> QED BY <1>16, <2>2, <2>3 DEF LinkLost
<1>17. CASE Terminal
  BY <1>17 DEF Terminal, Acks, program, gateway
<1>18. CASE UNCHANGED vars
  BY <1>18 DEF vars, Acks
<1> QED BY <1>1, <1>2, <1>3, <1>4, <1>5, <1>6, <1>7, <1>8, <1>10, <1>11, <1>12, <1>13, <1>14,
           <1>15, <1>16, <1>17, <1>18 DEF Next, Program, Environment

(* The registration runs through once, whatever is lost, fails or arrives  *)
(* in between.                                                             *)
THEOREM RegisteredOnce == Spec => []HandshakeOnce
<1>1. Init => OneStage
  BY DEF Init, OneStage, ToConnect, UpSent, AckInHand, ActiveSent, Active, Acks, AcksIn, Empty,
         Stream
<1>2. TypeOK /\ TypeOK' /\ OneStage /\ [Next]_vars => OneStage'
  BY OneStageStep
<1>3. OneStage => HandshakeOnce
  BY OneStageSuffices
<1> QED BY <1>1, <1>2, <1>3, TypeCorrect, PTL DEF Spec

-----------------------------------------------------------------------------
(* The registration is not lost.                                           *)

(* The acknowledgement in a queue is taken from it, or stays in it.        *)
LEMMA AckNotDropped ==
  ASSUME NEW S, NEW q \in Seq(S), q # <<>>, AcksIn(q) # {}
  PROVE  IsAck(Head(q)) \/ AcksIn(Tail(q)) # {}
<1>1. /\ Tail(q) \in Seq(S) /\ Len(q) \in Nat /\ Len(q) >= 1
      /\ DOMAIN q = 1..Len(q) /\ DOMAIN Tail(q) = 1..(Len(q) - 1)
      /\ Head(q) = q[1] /\ \A i \in 1..(Len(q) - 1) : Tail(q)[i] = q[i + 1]
  OBVIOUS
<1>2. PICK i \in AcksIn(q) : TRUE
  OBVIOUS
<1>3. i \in 1..Len(q) /\ IsAck(q[i])
  BY <1>1, <1>2 DEF AcksIn
<1>4. CASE i = 1
  BY <1>1, <1>3, <1>4
<1>5. CASE i # 1
  <2>1. i - 1 \in 1..(Len(q) - 1) /\ (i - 1) + 1 = i
    BY <1>1, <1>3, <1>5
  <2>2. i - 1 \in AcksIn(Tail(q))
    BY <1>1, <1>3, <2>1 DEF AcksIn
  <2> QED BY <2>2
<1> QED BY <1>4, <1>5

(* An acknowledgement put into a queue is in it.                           *)
LEMMA AckArrives ==
  ASSUME NEW S, NEW q \in Seq(S), NEW m \in S, IsAck(m)
  PROVE  AcksIn(Append(q, m)) # {}
<1>1. /\ Len(q) \in Nat /\ DOMAIN Append(q, m) = 1..(Len(q) + 1)
      /\ Append(q, m)[Len(q) + 1] = m
  OBVIOUS
<1>2. Len(q) + 1 \in AcksIn(Append(q, m))
  BY <1>1 DEF AcksIn
<1> QED BY <1>2

(* HandshakeNotLost in terms of the stages.                                *)
SomeStage == ToConnect \/ UpSent \/ Acks # {} \/ AckInHand \/ ActiveSent \/ Active
NotLost   == link = "up" /\ pc \notin Ended /\ ~SendMayFail => SomeStage

(* What was proved of the registration is what the property says.          *)
LEMMA NotLostSuffices == NotLost => HandshakeNotLost
<1> SUFFICES ASSUME NotLost, link = "up", pc \notin Ended, ~SendMayFail
             PROVE  Stages # {}
  BY DEF HandshakeNotLost
<1>1. SomeStage
  BY DEF NotLost
<1>2. \E st \in {"to connect", "asp up", "ack under way", "ack in hand", "asp active", "active"} :
        InStage(st)
  BY <1>1 DEF SomeStage, InStage, ToConnect, UpSent, AckInHand, ActiveSent, Active
<1> QED BY <1>2 DEF Stages

(* A message sent on an empty stream 0 of a working association is there.  *)
LEMMA SentForSure ==
  ASSUME TypeOK, ~SendMayFail, link = "up", tx[0] = <<>>, NEW m, SendMsg(m, 0)
  PROVE  tx'[0] # <<>> /\ Head(tx'[0]) = m
<1>1. Append(<<>>, m) = <<m>> /\ Head(<<m>>) = m /\ <<m>> # <<>>
  OBVIOUS
<1> QED BY <1>1 DEF SendMsg, TypeOK, Stream

(* Every step of a stage leaves it for the next one.                       *)
LEMMA NotLostStep ==
  ASSUME TypeOK, OneStage, NotLost, [Next]_vars
  PROVE  NotLost'
<1> SUFFICES ASSUME link' = "up", pc' \notin Ended, ~SendMayFail
             PROVE  SomeStage'
  BY DEF NotLost
<1> USE DEF SomeStage, ToConnect, UpSent, AckInHand, ActiveSent, Active
<1>0. tx[0] = <<>> <=> ~UpSent /\ ~ActiveSent
  BY NothingSent
<1>s. link = "up" /\ pc \notin Ended => SomeStage
  BY DEF NotLost
<1>1. CASE Connect
  BY <1>1 DEF Connect, Ended
<1>2. CASE SendAspUp
  BY <1>2, <1>0, SentForSure DEF SendAspUp, OneStage
<1>3. CASE ReadStdin
  BY <1>3, <1>s DEF ReadStdin, program, gateway, Acks
<1>4. CASE EndOfAssociation
  BY <1>4 DEF EndOfAssociation
<1>5. ASSUME NEW s \in Stream, Receive(s) PROVE SomeStage'
  <2>1. SomeStage /\ cur = <<>> /\ ~ToConnect
    BY <1>5, <1>s DEF Receive, TypeOK, Ended
  <2>2. tx' = tx /\ peer' = peer
    BY <1>5 DEF Receive, gateway
  <2>3. CASE Acks = {}
    BY <2>1, <2>2, <2>3
  <2>4. CASE Acks # {} /\ s = 0
    <3>1. rx[0] \in Seq(Message) /\ rx[0] # <<>>
      BY <1>5, <2>4 DEF Receive, TypeOK, Stream
    <3>2. Acks' = AcksIn(Tail(rx[0])) /\ cur' = <<Head(rx[0])>>
      BY <1>5, <2>4 DEF Receive, TypeOK, Acks, AcksIn, Stream
    <3>3. IsAck(Head(rx[0])) \/ AcksIn(Tail(rx[0])) # {}
      BY <2>4, <3>1, AckNotDropped DEF Acks
    <3> QED BY <3>2, <3>3
  <2>5. CASE Acks # {} /\ s = 1
    BY <1>5, <2>5 DEF Receive, TypeOK, Acks, AcksIn, Stream
  <2> QED BY <2>3, <2>4, <2>5 DEF Stream
<1>6. CASE Ignore
  <2>1. ~AckInHand
    BY <1>6 DEF Ignore, Handling, IsAck
  <2> QED BY <1>6, <1>s, <2>1 DEF Ignore, Handling, gateway, Acks, Ended
<1>7. CASE OnAspUpAck
  <2>1. AckInHand
    BY <1>7 DEF OnAspUpAck, Handling, TypeOK, IsAck
  <2> QED BY <1>7, <2>1, <1>0, SentForSure DEF OnAspUpAck, OneStage
<1>8. CASE OnData
  <2>1. tx'[0] = tx[0]
    BY <1>8 DEF OnData, SendMsg, TypeOK, Stream
  <2>2. ~AckInHand
    BY <1>8 DEF OnData, Handling, IsAck
  <2> QED BY <1>8, <1>s, <2>1, <2>2 DEF OnData, gateway, Acks, Handling, Ended
<1>9. ASSUME NEW m \in Message, PeerSends(m, 0)
      PROVE  /\ IsAck(m) => Acks' # {}
             /\ ~IsAck(m) => Acks' = Acks
  <2>1. rx[0] \in Seq(Message) /\ rx'[0] = Append(rx[0], m)
    BY <1>9 DEF PeerSends, TypeOK, Stream
  <2> QED BY <2>1, AckPut, AckArrives DEF Acks
<1>10. CASE PeerOnAspUp
  BY <1>9, <1>10 DEF PeerOnAspUp, OfType, IsAck
<1>11. CASE PeerOnAspActive
  BY <1>11 DEF PeerOnAspActive
<1>12. ASSUME NEW q \in Query, PeerAsks(q) PROVE SomeStage'
  BY <1>12, <1>s DEF PeerAsks
<1>13. CASE PeerCollects
  <2>1. tx'[0] = tx[0]
    BY <1>13 DEF PeerCollects, PeerTakes, TypeOK, Stream
  <2> QED BY <1>13, <1>s, <2>1 DEF PeerCollects, Acks, program
<1>14. CASE PeerNotifies
  <2>1. Acks' = Acks
    BY <1>9, <1>14 DEF PeerNotifies, OfType, IsAck
  <2> QED BY <1>14, <1>s, <2>1 DEF PeerNotifies, program, gateway
<1>15. CASE PeerShutsDown \/ LinkLost
  BY <1>15 DEF PeerShutsDown, LinkLost
<1>16. CASE Terminal
  BY <1>16, <1>s DEF Terminal, Acks, program, gateway
<1>17. CASE UNCHANGED vars
  BY <1>17, <1>s DEF vars, Acks
<1> QED BY <1>1, <1>2, <1>3, <1>4, <1>5, <1>6, <1>7, <1>8, <1>10, <1>11, <1>12, <1>13, <1>14,
           <1>15, <1>16, <1>17 DEF Next, Program, Environment

(* While sends do not fail, a working association always has the           *)
(* registration done or under way.                                         *)
THEOREM RegistrationNotLost == Spec => []HandshakeNotLost
<1>1. Init => OneStage /\ NotLost
  BY DEF Init, OneStage, ToConnect, UpSent, AckInHand, ActiveSent, Active, Acks, AcksIn, Empty,
         Stream, NotLost, SomeStage
<1>2. TypeOK /\ TypeOK' /\ OneStage /\ [Next]_vars => OneStage'
  BY OneStageStep
<1>3. TypeOK /\ OneStage /\ NotLost /\ [Next]_vars => NotLost'
  BY NotLostStep
<1>4. NotLost => HandshakeNotLost
  BY NotLostSuffices
<1> QED BY <1>1, <1>2, <1>3, <1>4, TypeCorrect, PTL DEF Spec

-----------------------------------------------------------------------------
(* The session implements the number service (NumberService), for any      *)
(* messages and any outcomes of a query, failing sends or not.             *)

(* The query in hand, which is the oldest one not dealt with.              *)
InHand == IF cur # <<>> /\ cur[1] \in Query THEN cur ELSE <<>>

(* Until it is connected the program has done nothing.                     *)
Untouched ==
  pc = "connect" => cur = <<>> /\ rx = Empty /\ tx = Empty /\ link = "none"

(* Every step keeps that: to connect is the first one.                     *)
LEMMA UntouchedStep ==
  ASSUME Untouched, [Next]_vars
  PROVE  Untouched'
<1>1. pc' = "connect" => pc = "connect"
  BY DEF Next, Program, Environment, vars, program, Connect, SendAspUp, SendMsg, ReadStdin,
         EndOfAssociation, Receive, Ignore, OnAspUpAck, OnData, PeerOnAspUp, PeerOnAspActive,
         PeerCollects, PeerNotifies, PeerAsks, PeerShutsDown, LinkLost, Terminal
<1>2. CASE pc = "connect"
  <2>1. Connect \/ Terminal \/ UNCHANGED vars
    BY <1>2 DEF Untouched, Next, Program, Environment, SendAspUp, ReadStdin, EndOfAssociation,
           Receive, Ignore, OnAspUpAck, OnData, Handling, PeerOnAspUp, PeerOnAspActive,
           PeerCollects, PeerTakes, PeerNotifies, PeerAsks, PeerShutsDown, LinkLost
  <2> QED BY <2>1 DEF Untouched, Connect, Terminal, vars, program, gateway
<1> QED BY <1>1, <1>2 DEF Untouched

(* What is in hand is a query or nothing to the service.                   *)
LEMMA PendingType ==
  ASSUME TypeOK
  PROVE  /\ Pending = InHand \o rx[1] /\ rx[1] \in Seq(Query) /\ InHand \in Seq(Query)
         /\ InHand = <<>> \/ \E q \in Query : InHand = <<q>>
<1>1. InHand = <<>> \/ \E q \in Query : InHand = <<q>>
  BY DEF InHand, TypeOK
<1>2. InHand \in Seq(Query) /\ rx[1] \in Seq(Query)
  <2>1. \A q \in Query : <<q>> \in Seq(Query)
    OBVIOUS
  <2>2. <<>> \in Seq(Query)
    BY EmptySeq
  <2> QED BY <1>1, <2>1, <2>2 DEF TypeOK
<1>3. Pending = InHand \o rx[1]
  BY DEF Pending, InHand
<1> QED BY <1>1, <1>2, <1>3

(* A step that leaves these alone is none to the service.                  *)
LEMMA Stutter ==
  ASSUME InHand' = InHand, rx'[1] = rx[1], tx'[1] = tx[1], link' = link
  PROVE  UNCHANGED <<Pending, tx[1], link = "up">>
BY DEF Pending, InHand

(* sendMsg leaves the other stream alone.                                  *)
LEMMA SentElsewhere ==
  ASSUME TypeOK, NEW m, SendMsg(m, 0)
  PROVE  tx'[1] = tx[1]
BY DEF SendMsg, TypeOK, Stream

-----------------------------------------------------------------------------
(* The steps of the service.                                               *)

(* The association is made: nothing has been asked.                        *)
LEMMA Opens ==
  ASSUME Untouched, Connect, link' = "up"
  PROVE  Service!Open
<1>1. /\ cur = <<>> /\ rx[1] = <<>> /\ tx[1] = <<>> /\ link = "none"
      /\ UNCHANGED <<cur, rx, tx>>
  BY DEF Untouched, Connect, Empty, Stream
<1>2. <<>> \o <<>> = <<>>
  OBVIOUS
<1>3. Pending = <<>> /\ Pending' = <<>>
  BY <1>1, <1>2 DEF Pending
<1> QED BY <1>1, <1>3 DEF Service!Open

(* The query in hand is dealt with: answered with an answer to it, or not  *)
(* at all if the outcome, a failed send or the end of the association      *)
(* allows it.                                                              *)
LEMMA Serves ==
  ASSUME TypeOK, OnData
  PROVE  Service!Serve
<1> DEFINE q == cur[1]
<1>1. cur = <<q>> /\ q \in Query /\ cur' = <<>> /\ rx' = rx /\ link' = link
  BY DEF OnData, Handling, TypeOK, Query, OfType
<1>2. Pending = <<q>> \o rx[1] /\ Pending' = <<>> \o rx[1] /\ rx[1] \in Seq(Query)
  BY <1>1 DEF Pending, TypeOK
<1> HIDE DEF q
<1>3. Pending # <<>> /\ Head(Pending) = q /\ Pending' = Tail(Pending)
  <2>1. \A s \in Seq(Query) :
          <<q>> \o s # <<>> /\ Head(<<q>> \o s) = q /\ Tail(<<q>> \o s) = s /\ <<>> \o s = s
    BY <1>1
  <2> QED BY <1>2, <2>1
<1>4. PICK o \in Outcomes(q) :
        \/ o.kind = "none"  /\ UNCHANGED tx
        \/ o.kind = "crash" /\ UNCHANGED tx
        \/ o.kind = "send"  /\ SendMsg(o.msg, 1)
  BY DEF OnData, q
<1>5. \/ link = "up" /\ \E a \in AnswersTo(q) : tx'[1] = Append(tx[1], a)
      \/ (link = "up" => MayIgnore(q)) /\ tx'[1] = tx[1]
  <2>1. CASE o.kind # "send"
    BY <1>4, <2>1 DEF MayIgnore
  <2>2. CASE o.kind = "send"
    <3>1. SendMsg(o.msg, 1) /\ o.msg \in AnswersTo(q)
      BY <1>4, <2>2 DEF AnswersTo
    <3> QED BY <3>1 DEF SendMsg, MayIgnore, TypeOK, Stream
  <2> QED BY <2>1, <2>2
<1> QED BY <1>1, <1>3, <1>5 DEF Service!Serve

(* The peer asks.                                                          *)
LEMMA Asks ==
  ASSUME TypeOK, NEW q \in Query, PeerAsks(q)
  PROVE  Service!Ask(q)
<1>1. /\ link = "up" /\ link' = link /\ cur' = cur /\ tx' = tx
      /\ rx[1] \in Seq(Query) /\ rx'[1] = Append(rx[1], q)
  BY DEF PeerAsks, PeerSends, TypeOK, Stream, program
<1>2. InHand \in Seq(Query) /\ InHand' = InHand
  BY <1>1, PendingType DEF InHand
<1>3. \A s, t \in Seq(Query) : s \o Append(t, q) = Append(s \o t, q)
  BY AppendIsConcat, ConcatAssociative
<1>4. Pending' = Append(Pending, q)
  BY <1>1, <1>2, <1>3 DEF Pending, InHand
<1> QED BY <1>1, <1>4 DEF Service!Ask

(* The peer reads.                                                         *)
LEMMA Reads ==
  ASSUME TypeOK, PeerCollects
  PROVE  Service!Read
<1>1. /\ tx[1] # <<>> /\ tx'[1] = Tail(tx[1])
      /\ UNCHANGED <<cur, rx, link>>
  BY DEF PeerCollects, PeerTakes, TypeOK, Stream, program
<1>2. Pending' = Pending
  BY <1>1 DEF Pending
<1> QED BY <1>1, <1>2 DEF Service!Read

(* The association goes, with the queries not received or without.         *)
LEMMA Closes ==
  ASSUME TypeOK, PeerShutsDown \/ LinkLost
  PROVE  Service!Close
<1>1. link = "up" /\ link' # "up" /\ tx'[1] = <<>> /\ cur' = cur /\ (rx' = rx \/ rx' = Empty)
  BY DEF PeerShutsDown, LinkLost, Empty, Stream, program
<1>2. /\ Pending = InHand \o rx[1] /\ Pending \in Seq(Query) /\ Pending' = InHand \o rx'[1]
      /\ InHand \in Seq(Query) /\ rx[1] \in Seq(Query)
  BY <1>1, PendingType, ConcatProperties DEF Pending, InHand
<1>3. CASE rx' = rx
  <2>1. \A s \in Seq(Query) : Len(s) \in 0..Len(s) /\ SubSeq(s, 1, Len(s)) = s
    BY SubSeqFull
  <2>2. Len(Pending) \in 0..Len(Pending) /\ Pending' = SubSeq(Pending, 1, Len(Pending))
    BY <1>2, <1>3, <2>1
  <2> QED BY <1>1, <2>2 DEF Service!Close
<1>4. CASE rx' = Empty
  <2>1. \A s, t \in Seq(Query) :
          Len(s) \in 0..Len(s \o t) /\ s \o <<>> = s /\ SubSeq(s \o t, 1, Len(s)) = s
    <3> SUFFICES ASSUME NEW s \in Seq(Query), NEW t \in Seq(Query)
                 PROVE  /\ Len(s) \in 0..Len(s \o t) /\ s \o <<>> = s
                        /\ SubSeq(s \o t, 1, Len(s)) = s
      OBVIOUS
    <3>1. s \o t \in Seq(Query) /\ Len(s \o t) = Len(s) + Len(t) /\ Len(s) \in Nat /\ Len(t) \in Nat
      BY ConcatProperties, LenProperties
    <3>2. SubSeq(s \o t, 1, Len(s)) = s
      OBVIOUS
    <3> QED BY <3>1, <3>2, ConcatEmptySeq
  <2>2. rx'[1] = <<>>
    BY <1>4 DEF Empty, Stream
  <2>3. Len(InHand) \in 0..Len(Pending) /\ Pending' = SubSeq(Pending, 1, Len(InHand))
    BY <1>2, <2>1, <2>2
  <2> QED BY <1>1, <2>3 DEF Service!Close
<1> QED BY <1>1, <1>3, <1>4

-----------------------------------------------------------------------------
(* Every step of the session is a step of the service, or none.            *)
LEMMA StepRefined ==
  ASSUME TypeOK, Untouched, [Next]_vars
  PROVE  [Service!Next]_<<Pending, tx[1], link = "up">>
<1>1. CASE Connect
  <2>1. CASE link' = "up"
    BY <1>1, <2>1, Opens DEF Service!Next
  <2>2. CASE link' # "up"
    <3>1. link' = link
      BY <1>1, <2>2 DEF Connect
    <3> QED BY <1>1, <3>1, Stutter DEF Connect, InHand
  <2> QED BY <2>1, <2>2
<1>2. CASE SendAspUp
  BY <1>2, SentElsewhere, Stutter DEF SendAspUp, InHand
<1>3. CASE ReadStdin
  BY <1>3, Stutter DEF ReadStdin, program, InHand
<1>4. CASE EndOfAssociation
  BY <1>4, Stutter DEF EndOfAssociation, InHand
<1>5. ASSUME Receive(0) PROVE UNCHANGED <<Pending, tx[1], link = "up">>
  <2>1. /\ cur = <<>> /\ cur' = <<Head(rx[0])>> /\ rx'[1] = rx[1] /\ UNCHANGED <<tx, link>>
        /\ Head(rx[0]) \notin Query
    <3>1. Head(rx[0]) \in Message \ Query
      BY <1>5, TakenFromQueue DEF Receive, TypeOK
    <3> QED BY <1>5, <3>1 DEF Receive, TypeOK, Stream
  <2>2. InHand' = InHand
    BY <2>1 DEF InHand
  <2> QED BY <2>1, <2>2, Stutter
<1>6. ASSUME Receive(1) PROVE UNCHANGED <<Pending, tx[1], link = "up">>
  <2>1. /\ cur = <<>> /\ cur' = <<Head(rx[1])>> /\ rx'[1] = Tail(rx[1]) /\ UNCHANGED <<tx, link>>
        /\ rx[1] \in Seq(Query) /\ rx[1] # <<>>
    BY <1>6 DEF Receive, TypeOK, Stream
  <2>2. Head(rx[1]) \in Query
    BY <2>1, TakenFromQueue
  <2>3. \A s \in Seq(Query) : s # <<>> => <<Head(s)>> \o Tail(s) = s /\ <<>> \o s = s
    OBVIOUS
  <2>4. Pending' = Pending
    BY <2>1, <2>2, <2>3 DEF Pending
  <2> QED BY <2>1, <2>4
<1>7. CASE Ignore
  <2>1. InHand = <<>> /\ InHand' = <<>>
    BY <1>7 DEF Ignore, Handling, InHand, Query, OfType
  <2> QED BY <1>7, <2>1, Stutter DEF Ignore
<1>8. CASE OnAspUpAck
  <2>1. InHand = <<>> /\ InHand' = <<>>
    BY <1>8 DEF OnAspUpAck, Handling, InHand, Query, OfType
  <2> QED BY <1>8, <2>1, SentElsewhere, Stutter DEF OnAspUpAck
<1>9. CASE OnData
  BY <1>9, Serves DEF Service!Next
<1>10. CASE PeerOnAspUp \/ PeerOnAspActive \/ PeerNotifies
  <2>1. rx'[1] = rx[1] /\ tx'[1] = tx[1] /\ UNCHANGED <<cur, link>>
    BY <1>10 DEF PeerOnAspUp, PeerOnAspActive, PeerNotifies, PeerTakes, PeerSends, TypeOK, Stream,
                 program
  <2> QED BY <2>1, Stutter DEF InHand
<1>11. ASSUME NEW q \in Query, PeerAsks(q) PROVE Service!Next
  BY <1>11, Asks DEF Service!Next
<1>12. CASE PeerCollects
  BY <1>12, Reads DEF Service!Next
<1>13. CASE PeerShutsDown \/ LinkLost
  BY <1>13, Closes DEF Service!Next
<1>14. CASE Terminal
  BY <1>14, Stutter DEF Terminal, program, InHand
<1>15. CASE UNCHANGED vars
  BY <1>15, Stutter DEF vars, InHand
<1> QED BY <1>1, <1>2, <1>3, <1>4, <1>5, <1>6, <1>7, <1>8, <1>9, <1>10, <1>11, <1>12, <1>13,
           <1>14, <1>15 DEF Next, Program, Environment, Stream

(* The session starts where the service does.                              *)
LEMMA ServiceInit == Init => Service!Init /\ Untouched
<1>1. <<>> \o <<>> = <<>>
  OBVIOUS
<1> QED BY <1>1 DEF Init, Service!Init, Pending, Empty, Stream, Untouched

(* Queries are dealt with in the order they were asked, each at most once, *)
(* answered with an answer to it, and none is passed over that has one     *)
(* while the association stands and sends work.                            *)
THEOREM ServiceProvided == Spec => ServiceRefined
<1>1. Init => Service!Init /\ Untouched
  BY ServiceInit
<1>2. Untouched /\ [Next]_vars => Untouched'
  BY UntouchedStep
<1>3. TypeOK /\ Untouched /\ [Next]_vars => [Service!Next]_<<Pending, tx[1], link = "up">>
  BY StepRefined
<1> QED BY <1>1, <1>2, <1>3, TypeCorrect, PTL DEF Spec, ServiceRefined, Service!Spec
=============================================================================
