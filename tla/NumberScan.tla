----------------------------- MODULE NumberScan -----------------------------
(***************************************************************************)
(* InapMessage::parseNum from the octets of calledPartyNumber to strCpn:   *)
(* the digits as printed to data.txt and read back, the first two octets   *)
(* cut off, a loop that exchanges digits, the last digit cut off.  Every   *)
(* turn of the loop exchanges the first two digits again.                  *)
(***************************************************************************)
EXTENDS DigitLine

CONSTANT Numbers     \* the calledPartyNumber octet strings received

ASSUME NumbersAssumption == Numbers \subseteq Seq(Byte)

VARIABLES number,    \* the octets
          fault,     \* what fails with data.txt, or "none"
          line,      \* the digits
          i,         \* turns of the loop done
          at         \* "printed", "loop", "done" or "aborted"

vars == <<number, fault, line, i, at>>

Init ==
  /\ number \in Numbers /\ fault \in {"none"} \cup LineFaults
  /\ line = PrintedDigits(number) /\ i = 0 /\ at = "printed"

(* data.txt does not open, or has no line of a number: strCpn stays empty. *)
NoLine ==
  /\ at = "printed" /\ fault \in LineFaults
  /\ at' = "done" /\ line' = <<>>
  /\ UNCHANGED <<number, fault, i>>

(* line = line.substr(pos - 1), or the exception it throws.                *)
Cut ==
  /\ at = "printed" /\ fault \notin LineFaults
  /\ IF SubstrThrows(line)
     THEN at' = "aborted" /\ UNCHANGED line
     ELSE at' = "loop" /\ line' = Substr(line)
  /\ UNCHANGED <<number, fault, i>>

Turn ==
  /\ at = "loop" /\ i < Len(line)
  /\ line' = SwapStep(line, i) /\ i' = i + 1
  /\ UNCHANGED <<number, fault, at>>

(* Mutant of CutLast: the last digit is kept.                              *)
KeepLast ==
  /\ at = "loop" /\ i = Len(line)
  /\ at' = (IF EraseThrows(line) THEN "aborted" ELSE "done")
  /\ UNCHANGED <<number, fault, line, i>>

(* line.erase(line.size() - 1), or the exception it throws.                *)
CutLast ==
  /\ at = "loop" /\ i = Len(line)
  /\ IF EraseThrows(line)
     THEN at' = "aborted" /\ UNCHANGED line
     ELSE at' = "done" /\ line' = EraseLast(line)
  /\ UNCHANGED <<number, fault, i>>

Next == NoLine \/ Cut \/ Turn \/ CutLast

Spec == Init /\ [][Next]_vars

-----------------------------------------------------------------------------
(* The digits of the number: filler, if any, is the last.                  *)
Half(d)      == HalfOctet(number, d)
AllDigits    == NumberDigits(number)
OddIndicator == number[1] >= 128
CalledNumber == IF OddIndicator THEN EraseLast(AllDigits) ELSE AllDigits

(* What the loop has done after i turns: pair k of digits has been         *)
(* exchanged if its turn 2k is over.  The first pair is exchanged again by *)
(* every turn, twice by turn 0, and is in order after an even number only: *)
(* the loop is right because a number has an even count of half octets.    *)
Exchanged(k)  == IF k = 0 THEN i > 0 /\ i % 2 = 0 ELSE 2 * k < i
AsPrinted(d)  == IF d % 2 = 1 THEN Half(d + 1) ELSE Half(d - 1)
PairsInOrder ==
  at = "loop" =>
    /\ Len(line) = Len(AllDigits) /\ i <= Len(line)
    /\ \A d \in DOMAIN line :
         line[d] = IF Exchanged((d - 1) \div 2) THEN Half(d) ELSE AsPrinted(d)

(* A number with an odd count of digits is decoded right, and of any other *)
(* all digits but the last are right and in order, if they can be read     *)
(* back.                                                                   *)
OddNumbersRight ==
  at = "done" /\ fault = "none" =>
    /\ line = EraseLast(AllDigits)
    /\ OddIndicator => line = CalledNumber

(* The program is aborted by exactly the numbers without digits, by those  *)
(* of one octet, and by those of more octets than fit a line of the text;  *)
(* but not when there is no line to read.                                  *)
AbortsOnLength ==
  /\ at = "aborted" => Len(number) \notin 3..16 /\ fault = "none"
  /\ at = "done"    => Len(number) \in 3..16 \/ fault # "none"

(* parseNum is what the operator ParseNum of the data pipeline says.       *)
ParseAgrees ==
  /\ at = "done"    => ParseNum(number, fault) = Found(line)
  /\ at = "aborted" => ParseNum(number, fault) = Aborted

-----------------------------------------------------------------------------
(* What the grammar the program is compiled from says of the field.        *)

(* INAP_DEF.asn, CalledPartyNumber: "Refer to ETS 300 356-1 [8] for        *)
(* encoding."  An even number is not cut.                                  *)
EncodingEts300356 == at = "done" /\ fault = "none" => line = CalledNumber
=============================================================================
