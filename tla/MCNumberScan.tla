---------------------------- MODULE MCNumberScan ----------------------------
(***************************************************************************)
(* Called party numbers for TLC: every one of up to five octets over three *)
(* octets that differ in all their halves, and one of every size up to 22. *)
(***************************************************************************)
EXTENDS NumberScan

MCNumbers ==
  UNION {[1..n -> {18, 131, 105}] : n \in 0..5} \cup
  {[k \in 1..n |-> IF k = 1 THEN odd ELSE (37 * k) % 256] : n \in 1..22, odd \in {3, 131}}
=============================================================================
