------------------------------ MODULE DigitLine ------------------------------
(***************************************************************************)
(* InapMessage::parseNum: the called number read back from the text that   *)
(* asn_fprint writes to data.txt.  A number is the sequence of its         *)
(* hexadecimal digits.                                                     *)
(***************************************************************************)
EXTENDS Octets

(* The digits after "calledPartyNumber: " in the text: OCTET_STRING_print  *)
(* breaks the line before the first octet when there are more than 16.     *)
PrintedDigits(octets) ==
  IF Len(octets) > 16 THEN <<>>
  ELSE [d \in 1..(2 * Len(octets)) |->
          IF d % 2 = 1 THEN octets[(d + 1) \div 2] \div 16 ELSE octets[d \div 2] % 16]

Swapped(line, a, b) == [line EXCEPT ![a + 1] = line[b + 1], ![b + 1] = line[a + 1]]

(* Mutant of SwapStep: the first pair is left alone.                       *)
SwapOnce(line, i) == IF i % 2 = 0 THEN Swapped(line, i, i + 1) ELSE line

(* One turn of parseNum's loop.                                            *)
SwapStep(line, i) ==
  LET first == Swapped(line, 0, 1)
  IN  IF i % 2 = 0 THEN Swapped(first, i, i + 1) ELSE first

(* The line after each of the turns, and after all of them.                *)
SwapsDone(line) ==
  LET After[i \in 0..Len(line)] ==
        IF i = 0 THEN line ELSE SwapStep(After[i - 1], i - 1)
  IN  After

SwapAll(line) == SwapsDone(line)[Len(line)]

(* Mutants of DroppedDigits and EraseThrows: substr at another position,   *)
(* an erase that lets an empty line pass.                                  *)
DropTwo          == 2
EraseEmpty(line) == FALSE

(* substr drops the two octets before the digits, erase the last digit:    *)
(* the assignment in its condition makes every number an odd one.          *)
DroppedDigits == 4
SubstrThrows(line) == Len(line) < DroppedDigits
Substr(line)       == SubSeq(line, DroppedDigits + 1, Len(line))
EraseThrows(line)  == line = <<>>
EraseLast(line)    == SubSeq(line, 1, Len(line) - 1)

-----------------------------------------------------------------------------
(* The digits of a Q.763 number: behind two octets of header, two an       *)
(* octet, the low half first.                                              *)
HalfOctet(octets, d) ==
  IF d % 2 = 1 THEN octets[2 + (d + 1) \div 2] % 16 ELSE octets[2 + d \div 2] \div 16

NumberDigits(octets) == [d \in 1..(2 * (Len(octets) - 2)) |-> HalfOctet(octets, d)]

-----------------------------------------------------------------------------
(* parseNum: the number, or the end of the program (an exception nobody    *)
(* catches).                                                               *)
Found(number) == [crash |-> FALSE, number |-> number]
Aborted       == [crash |-> TRUE,  number |-> <<>>]

(* What may fail between the octets and the line: the text is not written  *)
(* (asn_fprint and fclose are not asked), or data.txt does not open again. *)
(* A text shorter than a buffer of stdio is written by one call of write,  *)
(* in fclose, and is taken to be there as a whole or not at all.           *)
LineFaults == {"write", "reopen"}

(* The line of the number, once it is found.                               *)
ParseLine(octets) ==
  LET line == PrintedDigits(octets)
  IN  IF SubstrThrows(line) \/ EraseThrows(Substr(line)) THEN Aborted
      ELSE Found(EraseLast(SwapAll(Substr(line))))

(* Without a line the number stays empty.                                  *)
ParseNum(octets, fault) == IF fault \in LineFaults THEN Found(<<>>) ELSE ParseLine(octets)
=============================================================================
