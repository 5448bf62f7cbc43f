---------------------------- MODULE MCPayloadScan ----------------------------
(***************************************************************************)
(* DATA messages for TLC: every user data of up to four octets over the    *)
(* two octets of the tag and zero, behind and before other parameters.     *)
(***************************************************************************)
EXTENDS PayloadScan, Sgp

UserData == UNION {[1..n -> {0, 2, 16}] : n \in 0..4}

RoutingContexts == {<<0, 0, 0, 2>>, <<0, 0, 2, 16>>}
CorrelationIds  == {<<0, 0, 0, 9>>}

Before == {<<>>} \cup {Parameter(<<0, 6>>, rc) : rc \in RoutingContexts}
Behind == {<<>>} \cup {Parameter(<<0, 19>>, c) : c \in CorrelationIds}

Label == <<0, 0, 0, 1, 0, 0, 2, 5, 3, 2, 0, 7>>

(* Parameters about as long as fit the low octet of the length.            *)
LongMessages ==
  {M3uaMessage(1, 1, Parameter(<<2, 16>>, Label \o [k \in 1..n |-> 7])) : n \in 236..242}

MCDataMessages ==
  LongMessages \cup
  {M3uaMessage(1, 1, b \o Parameter(<<2, 16>>, Label \o u) \o a) :
     b \in Before, u \in UserData, a \in Behind}
=============================================================================
