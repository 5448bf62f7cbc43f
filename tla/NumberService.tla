---------------------------- MODULE NumberService ----------------------------
(***************************************************************************)
(* What the service control point promises the exchange that asks it for   *)
(* numbers: queries are answered one by one in the order they were asked,  *)
(* each at most once and with an answer to that query, and none goes       *)
(* unanswered that has an answer while the association stands.             *)
(***************************************************************************)
EXTENDS Naturals, Sequences

CONSTANTS Query,       \* the queries there are
          Answers(_),  \* the answers to a query
          MayDrop(_)   \* whether a query may go unanswered

VARIABLES pending,     \* queries asked and not dealt with, oldest first
          answers,     \* answers given and not yet read
          open         \* whether the association stands

Init == pending = <<>> /\ answers = <<>> /\ open = FALSE

Open == ~open /\ pending = <<>> /\ answers = <<>> /\ open' = TRUE /\ UNCHANGED <<pending, answers>>

Ask(q) == open /\ pending' = Append(pending, q) /\ UNCHANGED <<answers, open>>

Serve ==
  /\ pending # <<>> /\ pending' = Tail(pending)
  /\ \/ open /\ \E a \in Answers(Head(pending)) : answers' = Append(answers, a)
     \/ (open => MayDrop(Head(pending))) /\ UNCHANGED answers
  /\ UNCHANGED open

Read == answers # <<>> /\ answers' = Tail(answers) /\ UNCHANGED <<pending, open>>

(* The association goes: answers under way are lost, and so may be the     *)
(* queries the service has not begun with.                                 *)
Close ==
  /\ open /\ open' = FALSE /\ answers' = <<>>
  /\ \E n \in 0..Len(pending) : pending' = SubSeq(pending, 1, n)

Next == Open \/ (\E q \in Query : Ask(q)) \/ Serve \/ Read \/ Close

Spec == Init /\ [][Next]_<<pending, answers, open>>
=============================================================================
