----------------------------- MODULE Transaction -----------------------------
(***************************************************************************)
(* One transaction from end to end: the gateway asks, the program handles  *)
(* the DATA message, the gateway reads what comes back.                    *)
(***************************************************************************)
EXTENDS Exchange

CONSTANT Queries     \* the queries the gateway may ask

ASSUME QueriesAssumption == Queries \subseteq Query

VARIABLES query,     \* the query
          fault,     \* what fails outside while it is handled
          wire,      \* the message under way: the query, then the outcome
          kept,      \* blocks of memory the program will never free
          view       \* what the gateway makes of the answer

vars == <<query, fault, wire, kept, view>>

Unread == [wellFormed |-> FALSE, unread |-> TRUE]

Init ==
  /\ query \in Queries /\ fault \in Faults \cup {"none"}
  /\ wire = [kind |-> "query", msg |-> DataMessage(query)] /\ kept = 0 /\ view = Unread

Handle ==
  /\ wire.kind = "query"
  /\ \E heap \in HeapBytes : /\ wire' = HandleData(wire.msg, heap, fault)
                             /\ kept' = MemoryKept(wire.msg, heap)
  /\ UNCHANGED <<query, fault, view>>

Read ==
  /\ wire.kind = "send" /\ view = Unread
  /\ view' = View(wire.msg)
  /\ UNCHANGED <<query, fault, wire, kept>>

Next == Handle \/ Read

Spec == Init /\ [][Next]_vars

(* The number the program should find: the default one if the database     *)
(* refuses the statement.                                                  *)
NewNumber == IF fault = "prepare" THEN NoNum ELSE Translation(query)

(* A query the program is written for is read back, whatever lies behind   *)
(* the buffers, as the answer to that very query: label, addresses and     *)
(* transaction survive four codecs in each direction, up to the longest    *)
(* number an answer can carry.                                             *)
AnswerCorrect ==
  Plain(query) /\ view # Unread /\ AnswerFits(query, NewNumber) =>
    view = Expected(query, NewNumber)

(* Such a query does not go unanswered, and does not end the program,      *)
(* unless something fails outside (data.txt at any of its three uses, the  *)
(* database in the middle of the statement); or the table holds NULL or no *)
(* characters for the number, or more than an answer can carry or the send *)
(* buffer can hold.                                                        *)
PlainAnswered ==
  Plain(query) =>
    /\ wire.kind = "none"  =>
         fault \in {"step"} \cup LineFaults \/ (fault = "none" /\ NewNumber = <<>>)
    /\ wire.kind = "crash" =>
         fault = "fopen" \/ (fault = "none" /\ (NewNumber = Null \/ ~AnswerFits(query, NewNumber)))

(* The asn1c runtime does for every such query what the program relies on: *)
(* it reads the fields the standard puts there, and writes the answer that *)
(* the standard asks for, whatever number the query translates to.         *)
RuntimeKeepsStandard == Plain(query) => RuntimeServes(query)

(* Nor does it read in any other query what is not there, or keep what it  *)
(* allocated for one that it gives up.                                     *)
RuntimeReadsRight == Delivered(query) => RuntimeReads(query)

(* Nothing is ever answered but a single invoke with a number of 3 to 16   *)
(* octets, and only InitialDP among the operation codes that the program   *)
(* can tell (local ones that an int holds): whatever else a message holds, *)
(* no octets of it are taken for a number that was not asked for.          *)
OnlyNumbersAnswered ==
  wire.kind = "send" => HoldsNumber(query) /\ (CodeHeld(query) => AsksNumber(query))

(* A message the program gives up, for an EXTERNAL in the middle of it or  *)
(* for its count of components, is freed to the last block.  (Any other    *)
(* message is never freed.)                                                *)
GivenUpFreed == GivenUp(query) => kept = 0

-----------------------------------------------------------------------------
(* What the grammar the TCAP codec is generated from says (asn/tcap.asn).  *)

Answered == view # Unread /\ view.wellFormed

(* "OrigTransactionID ::= ... OCTET STRING (SIZE (1..4))": an answer goes  *)
(* to the transaction that asked, however long its identifier.             *)
TransactionIdSize == Answered => view.dtid = query.otid

(* "The Component Portion may be absent": such a Begin does not end the    *)
(* program.                                                                *)
ComponentPortionMayBeAbsent == query.components = NoPortion => wire.kind # "crash"
=============================================================================
