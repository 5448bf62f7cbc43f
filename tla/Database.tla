------------------------------ MODULE Database ------------------------------
(***************************************************************************)
(* The number table (Database.cpp, numsi.db).  Nums maps the numbers of    *)
(* column ORIGNUM to the characters of TRANSNUM, Null where it is NULL.    *)
(***************************************************************************)
EXTENDS Octets

CONSTANTS Nums, Null

ASSUME NumsAssumption ==
  Null \notin Seq(Byte) /\ \A n \in DOMAIN Nums : Nums[n] \in Seq(Byte) \cup {Null}

NoNum == <<51, 66, 68>>      \* "3BD"

(* Mutant of Find: a number not in the table is answered with nothing.     *)
FindOrNothing(number, sqlite) ==
  CASE sqlite = "prepare" -> NoNum
    [] sqlite = "step"    -> <<>>
    [] sqlite = "ok"      -> IF number \in DOMAIN Nums THEN Nums[number] ELSE <<>>

(* find, for the way sqlite answers: "prepare" the statement is refused,   *)
(* which includes a database that could not be opened; "step" it fails     *)
(* while it runs (busy, I/O error); "ok" it runs.  A NULL translation ends *)
(* the program: std::string is built from a null pointer.                  *)
Find(number, sqlite) ==
  CASE sqlite = "prepare" -> NoNum
    [] sqlite = "step"    -> <<>>
    [] sqlite = "ok"      -> IF number \in DOMAIN Nums THEN Nums[number] ELSE NoNum
=============================================================================
