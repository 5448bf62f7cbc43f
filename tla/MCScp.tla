-------------------------------- MODULE MCScp --------------------------------
(***************************************************************************)
(* Scp for TLC: a query whose number is in the table, one whose number is  *)
(* not, one that is not an InitialDP, and one whose number has no digits   *)
(* and ends the program.                                                   *)
(***************************************************************************)
EXTENDS Scp, AsnCodec

Known ==
  [before |-> <<>>, opc |-> <<0, 0, 0, 1>>, dpc |-> <<0, 0, 0, 5>>, sio |-> <<3, 2, 0, 7>>,
   called |-> <<66, 1, 0, 146>>, calling |-> <<66, 2, 0, 8>>,
   otid |-> <<1, 2, 3, 4>>, dialogue |-> <<>>, components |-> 1,
   invokeId |-> 1, opCode |-> <<2, 1, 0>>, number |-> <<131, 144, 32, 70, 151, 18, 1>>]

Release  == [Known EXCEPT !.otid = <<1, 2, 3, 5>>, !.opCode = <<2, 1, 22>>]
NoDigits == [Known EXCEPT !.otid = <<1, 2, 3, 6>>, !.number = <<131, 144>>]
Unknown  == [Known EXCEPT !.otid = <<1, 2, 3, 7>>, !.number = <<131, 144, 119, 5>>]

(* All four ask for a number that an answer can carry, or for none.        *)
ASSUME SuitedAssumption == \A q \in Queries : Suited(q)

MCQueries == {Known, Unknown, Release, NoDigits}
MCNums    == <<0, 2, 6, 4, 7, 9, 2, 1, 1>> :> <<49, 68, 53, 50, 55>>
=============================================================================
