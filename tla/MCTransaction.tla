---------------------------- MODULE MCTransaction ----------------------------
(***************************************************************************)
(* Queries for TLC: one plain query, and every way of varying two of its   *)
(* fields at a time.                                                       *)
(***************************************************************************)
EXTENDS Transaction, AsnCodec

Plain1 ==
  [before |-> <<>>, opc |-> <<0, 0, 0, 1>>, dpc |-> <<0, 0, 0, 5>>, sio |-> <<3, 2, 0, 7>>,
   called |-> <<66, 1, 0, 146>>, calling |-> <<66, 2, 0, 8>>,
   otid |-> <<1, 2, 3, 4>>, dialogue |-> <<>>, components |-> 1,
   invokeId |-> 1, opCode |-> <<2, 1, 0>>,
   number |-> <<131, 144, 32, 70, 151, 18, 1>>]

RoutingContext(n) == <<0, 6, 0, 8>> \o BigEndian32(n)

(* A dialogue request (AARQ) in an EXTERNAL.                               *)
Aarq == <<107, 30, 40, 28, 6, 7, 0, 17, 134, 5, 1, 1, 1, 160, 17, 96, 15, 128, 2, 7, 128,
          161, 9, 6, 7, 4, 0, 1, 1, 0, 0, 0>>

Long(n) == [k \in 1..n |-> 49]

Variants ==
  [before   |-> {<<>>, RoutingContext(2), <<2, 0, 0, 8, 0, 0, 0, 9>> \o RoutingContext(1)},
   dpc      |-> {<<0, 0, 0, 5>>, <<0, 0, 2, 15>>},
   called   |-> {<<66, 1, 0, 146>>, <<65, 8>>, <<18, 8, 0, 18, 4, 83, 132, 9>>},
   calling  |-> {<<66, 2, 0, 8>>, <<18, 146, 0, 18, 4, 83, 132, 9, 33>>, Long(195), Long(196)},
   otid     |-> {<<1, 2, 3, 4>>, <<255, 128, 0, 127>>, <<9>>, <<2, 16>>, <<7, 8, 9>>},
   dialogue |-> {<<>>, <<75, 3, 1, 2, 3>>, <<107, 3, 75, 1, 65>>, Aarq},
   components |-> {NoPortion, 0, 1, 2},
   invokeId |-> {1, 0, -1, -128, 126, 127},
   opCode   |-> {<<2, 1, 0>>, <<2, 1, 20>>, <<2, 1, 22>>, <<2, 5, 1, 0, 0, 0, 0>>, <<6, 2, 40, 1>>},
   number   |-> {<<131, 144, 32, 70, 151, 18, 1>>, <<131, 144, 2, 98, 116, 41, 1>>,
                 <<3, 144, 32, 70, 151, 18>>, <<131, 144, 7>>, <<131, 144, 8>>, <<131, 144, 9>>, <<131, 144, 10>>,
                 <<131, 144, 5>>, <<131, 144>>, <<131>>, <<>>,
                 <<131, 144>> \o [k \in 1..14 |-> 17], <<131, 144>> \o [k \in 1..15 |-> 17]}]

MCQueries ==
  UNION {{[Plain1 EXCEPT ![f] = a, ![g] = b] : a \in Variants[f], b \in Variants[g]} :
           f, g \in DOMAIN Variants}

(* The table of numsi.db: both rows, one with a NULL translation, and some *)
(* with the longest numbers that fit and ones that do not.                 *)
MCNums ==
  <<0, 2, 6, 4, 7, 9, 2, 1, 1>> :> <<49, 68, 53, 50, 55>> @@
  <<2, 0, 6, 4, 7, 9, 2, 1, 0>> :> <<49, 68, 53, 50, 55>> @@
  <<7>> :> Null @@ <<5>> :> <<>> @@ <<8>> :> Long(190) @@ <<9>> :> Long(191) @@ <<10>> :> Long(1100)
=============================================================================
