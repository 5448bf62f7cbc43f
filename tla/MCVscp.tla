------------------------------- MODULE MCVscp -------------------------------
(***************************************************************************)
(* Vscp for TLC: messages are names, with one query of each way the data   *)
(* pipeline can end.                                                       *)
(***************************************************************************)
EXTENDS Vscp

Types ==
  [upAck    |-> "ASPSM_ASPUP_ACK", activeAck |-> "ASPTM_ASPAC_ACK",
   notify   |-> "MGMT_NTFY",       other     |-> "UNKNOWN",
   known    |-> "TM_DATA",         late      |-> "TM_DATA",
   nonsense |-> "TM_DATA",         deadly    |-> "TM_DATA"]

MCMessage        == DOMAIN Types
MCM3UAMsgType(m) == Types[m]

Send(r) == [kind |-> "send", msg |-> r]
None    == [kind |-> "none", msg |-> "nothing"]
Crash   == [kind |-> "crash", msg |-> "nothing"]

(* known is always answered, late only while the database works, nonsense  *)
(* never, and deadly ends the program unless the heap is kind.             *)
MCOutcomes(q) ==
  CASE q = "known"    -> {Send("reply known")}
    [] q = "late"     -> {Send("reply late"), None}
    [] q = "nonsense" -> {None}
    [] q = "deadly"   -> {Crash, None}
    [] OTHER          -> {}
=============================================================================
