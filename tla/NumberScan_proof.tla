-------------------------- MODULE NumberScan_proof --------------------------
(***************************************************************************)
(* Proofs about parseNum's loop, for numbers of any octets and any size.   *)
(***************************************************************************)
EXTENDS NumberScan, Layers_proof

(* How many pairs of digits there are behind the header.                   *)
Pairs == Len(number) - 2

(* The strengthening: in the loop the number is one that neither substr    *)
(* nor the printing refuses, and after it all pairs have been exchanged;   *)
(* neither is reached when there is no line to read.                       *)
InLoop ==
  /\ Len(number) \in 2..16 /\ i \in 0..(2 * Pairs)
  /\ line \in [1..(2 * Pairs) -> Int]
  /\ \A k \in 0..(Pairs - 1) : PairIs(number, line, k, ExchangedAfter(k, i))

IInv ==
  /\ number \in Seq(Byte) /\ fault \in {"none"} \cup LineFaults
  /\ at \in {"printed", "loop", "aborted", "done"}
  /\ at = "printed" => i = 0 /\ line = PrintedDigits(number)
  /\ at = "loop"    => fault = "none" /\ InLoop
  /\ at = "aborted" => fault = "none" /\ Len(number) \notin 3..16
  /\ at = "done"    => IF fault = "none"
                       THEN Len(number) \in 3..16 /\ line = EraseLast(AllDigits)
                       ELSE line = <<>>

(* A file that holds the line is not one of the failing ones.              *)
LEMMA NoneIsNoFault == "none" \notin LineFaults
BY DEF LineFaults

-----------------------------------------------------------------------------
(* Every step of parseNum keeps the invariant.                             *)
LEMMA Induction == IInv /\ [Next]_vars => IInv'
<1> SUFFICES ASSUME IInv, [Next]_vars PROVE IInv'
  OBVIOUS
<1>0. CASE NoLine
  BY <1>0, NoneIsNoFault DEF NoLine, IInv
<1>1. CASE Cut
  <2>1. /\ number \in Seq(Byte) /\ i = 0 /\ line = PrintedDigits(number)
        /\ number' = number /\ i' = i /\ fault = "none" /\ fault' = "none"
    BY <1>1 DEF Cut, IInv
  <2>2. Len(number) \in Nat
    BY <2>1
  <2>3. CASE Len(number) \in 2..16
    <3>1. /\ at' = "loop" /\ line' = Substr(PrintedDigits(number))
      BY <1>1, <2>1, <2>3, CutDigits DEF Cut
    <3>2. /\ line' \in [1..(2 * Pairs) -> Int]
          /\ \A k \in 0..(Pairs - 1) : PairIs(number, line', k, FALSE)
      <4>1. Pairs - 1 = Len(number) - 3
        BY <2>2 DEF Pairs
      <4> QED BY <2>1, <2>3, <3>1, <4>1, CutDigits DEF Pairs
    <3>3. Pairs' = Pairs /\ Pairs \in Nat
      BY <2>1, <2>3, SizeOf DEF Pairs
    <3>4. \A k \in 0..(Pairs - 1) : PairIs(number, line, k, ExchangedAfter(k, i))'
      <4>1. \A k \in 0..(Pairs - 1) : ~ExchangedAfter(k, 0)
        BY <3>3 DEF ExchangedAfter
      <4>2. \A k \in 0..(Pairs - 1) : PairIs(number, line', k, ExchangedAfter(k, 0))
        BY <3>2, <4>1 DEF PairIs
      <4> QED BY <2>1, <3>3, <4>2
    <3>5. InLoop'
      BY <2>1, <2>3, <3>2, <3>3, <3>4 DEF InLoop
    <3> QED BY <2>1, <3>1, <3>5 DEF IInv
  <2>4. CASE Len(number) \notin 2..16
    <3>1. SubstrThrows(line)
      BY <2>1, <2>4, CutRefuses
    <3>2. at' = "aborted"
      BY <1>1, <3>1 DEF Cut
    <3> QED BY <2>1, <2>2, <2>4, <3>2 DEF IInv
  <2> QED BY <2>3, <2>4
<1>2. CASE Turn
  <2>1. /\ InLoop /\ at' = "loop" /\ number' = number /\ i' = i + 1
        /\ line' = SwapStep(line, i) /\ i < Len(line) /\ number \in Seq(Byte)
        /\ fault = "none" /\ fault' = "none"
    BY <1>2 DEF Turn, IInv
  <2>2. Pairs' = Pairs /\ Pairs \in Nat /\ i \in Nat
    BY <2>1 DEF Pairs, InLoop
  <2>3. i < 2 * Pairs
    <3>1. Len(line) = 2 * Pairs
      BY <2>1, <2>2 DEF InLoop
    <3> QED BY <2>1, <3>1
  <2>4. /\ line' \in [1..(2 * Pairs) -> Int]
        /\ \A k \in 0..(Pairs - 1) : PairIs(number, line', k, ExchangedAfter(k, i + 1))
    BY <2>1, <2>2, <2>3, SwapStepPairs DEF InLoop
  <2>5. \A k \in 0..(Pairs - 1) : PairIs(number, line, k, ExchangedAfter(k, i))'
    BY <2>1, <2>2, <2>4
  <2>6. InLoop'
    BY <2>1, <2>2, <2>3, <2>4, <2>5 DEF InLoop
  <2> QED BY <2>1, <2>6 DEF IInv
<1>3. CASE CutLast
  <2>1. /\ InLoop /\ i = Len(line) /\ number' = number /\ number \in Seq(Byte)
        /\ fault = "none" /\ fault' = "none"
    BY <1>3 DEF CutLast, IInv
  <2>2. Pairs \in Nat /\ Len(line) = 2 * Pairs /\ i = 2 * Pairs
    BY <2>1 DEF Pairs, InLoop
  <2>3. CASE Pairs = 0
    <3>1. line = <<>>
      <4>1. line \in Seq(Int) /\ Len(line) = 0
        BY <2>1, <2>2, <2>3 DEF InLoop
      <4> QED BY <4>1, EmptySeq
    <3>2. at' = "aborted"
      BY <1>3, <3>1 DEF CutLast, EraseThrows
    <3>3. Len(number) \notin 3..16
      BY <2>1, <2>3, SizeOf DEF Pairs, InLoop
    <3> QED BY <2>1, <3>2, <3>3 DEF IInv
  <2>4. CASE Pairs > 0
    <3>1. line # <<>>
      BY <2>2, <2>4
    <3>2. at' = "done" /\ line' = EraseLast(line)
      BY <1>3, <3>1 DEF CutLast, EraseThrows
    <3>3. line = AllDigits
      <4>0. Len(number) \in Nat
        BY <2>1
      <4>3. Len(number) \in 3..16
        BY <2>1, <2>4, SizeOf DEF InLoop, Pairs
      <4>1. Len(number) \in 3..16 /\ Pairs - 1 = Len(number) - 3
        BY <4>0, <4>3 DEF Pairs
      <4>2. /\ line \in [1..(2 * (Len(number) - 2)) -> Int]
            /\ \A k \in 0..(Len(number) - 3) :
                 PairIs(number, line, k, ExchangedAfter(k, 2 * (Len(number) - 2)))
        BY <2>1, <2>2, <4>1 DEF InLoop, Pairs
      <4> QED BY <2>1, <4>1, <4>2, AllExchanged DEF AllDigits
    <3>4. AllDigits' = AllDigits
      BY <2>1 DEF AllDigits
    <3>5. Len(number) \in 3..16
      BY <2>1, <2>4, SizeOf DEF InLoop, Pairs
    <3> QED BY <2>1, <3>2, <3>3, <3>4, <3>5 DEF IInv
  <2> QED BY <2>2, <2>3, <2>4
<1>4. CASE UNCHANGED vars
  <2>1. /\ number' = number /\ line' = line /\ i' = i /\ at' = at /\ fault' = fault
        /\ Pairs' = Pairs /\ AllDigits' = AllDigits
    BY <1>4 DEF vars, Pairs, AllDigits
  <2>2. InLoop' = InLoop
    BY <2>1 DEF InLoop
  <2> QED BY <2>1, <2>2 DEF IInv
<1> QED BY <1>0, <1>1, <1>2, <1>3, <1>4 DEF Next

(* The invariant holds in every reachable state.                           *)
LEMMA Invariance == Spec => []IInv
<1>1. Init => IInv
  BY NumbersAssumption DEF Init, IInv
<1> QED BY <1>1, Induction, PTL DEF Spec

-----------------------------------------------------------------------------
(* After i turns of parseNum's loop pair k of the digits has been          *)
(* exchanged if 2k < i, and the first one if i is even: for every number.  *)
THEOREM NumberPairsInOrder == Spec => []PairsInOrder
<1>1. IInv => PairsInOrder
  <2> SUFFICES ASSUME IInv, at = "loop"
               PROVE  /\ Len(line) = Len(AllDigits) /\ i <= Len(line)
                      /\ \A d \in DOMAIN line :
                           line[d] = IF Exchanged((d - 1) \div 2) THEN Half(d) ELSE AsPrinted(d)
    BY DEF PairsInOrder
  <2>1. InLoop /\ Pairs \in Nat
    BY DEF IInv, InLoop, Pairs
  <2>2. Len(line) = 2 * Pairs /\ i <= 2 * Pairs /\ DOMAIN line = 1..(2 * Pairs)
    BY <2>1 DEF InLoop
  <2>3. Len(AllDigits) = 2 * Pairs
    BY <2>1 DEF AllDigits, NumberDigits, Pairs
  <2>4. ASSUME NEW d \in 1..(2 * Pairs)
        PROVE  line[d] = IF Exchanged((d - 1) \div 2) THEN Half(d) ELSE AsPrinted(d)
    <3> DEFINE k == (d - 1) \div 2
    <3>1. k \in 0..(Pairs - 1) /\ (d = 2 * k + 1 \/ d = 2 * k + 2)
      BY <2>1, PairOf
    <3>2. PairIs(number, line, k, ExchangedAfter(k, i))
      BY <2>1, <3>1 DEF InLoop
    <3>3. AsPrinted(2 * k + 1) = Half(2 * k + 2) /\ AsPrinted(2 * k + 2) = Half(2 * k + 1)
      <4>1. (2 * k + 1) % 2 = 1 /\ (2 * k + 2) % 2 # 1
            /\ (2 * k + 1) + 1 = 2 * k + 2 /\ (2 * k + 2) - 1 = 2 * k + 1
        BY <3>1
      <4> QED BY <4>1 DEF AsPrinted
    <3> HIDE DEF k
    <3>4. line[d] = IF Exchanged(k) THEN Half(d) ELSE AsPrinted(d)
      BY <3>1, <3>2, <3>3 DEF PairIs, Half, ExchangedAfter, Exchanged
    <3> QED BY <3>4 DEF k
  <2> QED BY <2>2, <2>3, <2>4
<1> QED BY <1>1, Invariance, PTL

(* A number of an odd count of digits that can be read back is decoded     *)
(* right, of any other all digits but the last are right and in order.     *)
THEOREM NumberOddRight == Spec => []OddNumbersRight
<1>1. IInv => OddNumbersRight
  BY DEF IInv, OddNumbersRight, CalledNumber
<1> QED BY <1>1, Invariance, PTL

(* parseNum ends the program for exactly the numbers of less than three    *)
(* octets and of more than sixteen, of those it reads back.                *)
THEOREM NumberAbortsOnLength == Spec => []AbortsOnLength
<1>1. IInv => AbortsOnLength
  BY DEF IInv, AbortsOnLength
<1> QED BY <1>1, Invariance, PTL

-----------------------------------------------------------------------------
(* The inductive invariant: the line is that of the function's value at    *)
(* the turn, and the way the loop ended that of ParseNum.                  *)
Digits == Substr(PrintedDigits(number))

SwapsInvariant ==
  /\ at = "loop" => /\ ~SubstrThrows(PrintedDigits(number)) /\ Len(Digits) = 2 * Pairs
                    /\ line = SwapsDone(Digits)[i]
  /\ ParseAgrees

(* A turn of the loop goes from one value of the function to the next.     *)
LEMMA SwapsStep ==
  ASSUME IInv, SwapsInvariant, [Next]_vars
  PROVE  SwapsInvariant'
<1>0. CASE NoLine
  <2>1. number' = number /\ fault' = fault /\ at' = "done" /\ line' = <<>>
        /\ ParseNum(number, fault) = Found(<<>>)
    BY <1>0, Zenon DEF NoLine, ParseNum
  <2> QED BY <2>1 DEF SwapsInvariant, ParseAgrees
<1>a. fault = "none" => ParseNum(number, fault) = ParseLine(number)
  BY NoneIsNoFault, Zenon DEF ParseNum
<1>1. CASE Cut
  <2>1. /\ number \in Seq(Byte) /\ line = PrintedDigits(number) /\ number' = number
        /\ i = 0 /\ i' = 0 /\ fault = "none" /\ fault' = "none"
    BY <1>1 DEF Cut, IInv
  <2>2. CASE SubstrThrows(line)
    <3>1. at' = "aborted"
      BY <1>1, <2>2 DEF Cut
    <3>2. ParseNum(number, fault) = Aborted
      BY <1>a, <2>1, <2>2 DEF ParseLine
    <3> QED BY <2>1, <3>1, <3>2 DEF SwapsInvariant, ParseAgrees
  <2>3. CASE ~SubstrThrows(line)
    <3>1. at' = "loop" /\ line' = Digits
      BY <1>1, <2>1, <2>3 DEF Cut, Digits
    <3>2. Len(number) \in 2..16 /\ Pairs \in Nat
      <4>1. IInv'
        BY <1>1, Induction DEF Next
      <4> QED BY <2>1, <3>1, <4>1, SizeOf DEF IInv, InLoop, Pairs
    <3>3. Digits \in [1..(2 * Pairs) -> Int]
      BY <2>1, <3>2, CutDigits DEF Digits, Pairs
    <3>4. Len(Digits) = 2 * Pairs /\ Len(Digits) \in Nat
      <4>1. 2 * Pairs \in Nat
        BY <3>2
      <4> DEFINE n == 2 * Pairs
                 d == Digits
      <4> HIDE DEF n, d
      <4>2. n \in Nat /\ d \in [1..n -> Int]
        BY <3>3, <4>1 DEF n, d
      <4>3. Len(d) = n
        BY <4>2
      <4> QED BY <4>2, <4>3 DEF n, d
    <3>5. SwapsDone(Digits)[0] = Digits
      BY <3>4, SwapsDoneDefined DEF SwapsTurn
    <3>6. Digits' = Digits /\ Pairs' = Pairs
      BY <2>1 DEF Digits, Pairs
    <3> QED BY <2>1, <2>3, <3>1, <3>4, <3>5, <3>6 DEF SwapsInvariant, ParseAgrees
  <2> QED BY <2>2, <2>3
<1>2. CASE Turn
  <2>1. /\ InLoop /\ at = "loop" /\ at' = "loop" /\ number' = number /\ i' = i + 1
        /\ line' = SwapStep(line, i) /\ i < Len(line) /\ number \in Seq(Byte)
    BY <1>2 DEF Turn, IInv
  <2>2. Pairs \in Nat /\ i \in Nat /\ i < 2 * Pairs
    BY <2>1 DEF Pairs, InLoop
  <2>3. Len(Digits) = 2 * Pairs /\ line = SwapsDone(Digits)[i]
    BY <2>1 DEF SwapsInvariant
  <2>4. SwapsDone(Digits)[i + 1] = SwapStep(line, i)
    <3>1. Len(Digits) \in Nat /\ i + 1 \in 0..Len(Digits) /\ i + 1 # 0 /\ (i + 1) - 1 = i
      BY <2>2, <2>3
    <3> QED BY <2>3, <3>1, SwapsDoneDefined DEF SwapsTurn
  <2>5. Digits' = Digits /\ Pairs' = Pairs
    BY <2>1 DEF Digits, Pairs
  <2> QED BY <2>1, <2>3, <2>4, <2>5 DEF SwapsInvariant, ParseAgrees
<1>3. CASE CutLast
  <2>1. /\ InLoop /\ i = Len(line) /\ number' = number /\ at = "loop"
        /\ number \in Seq(Byte) /\ at' \in {"done", "aborted"}
        /\ fault = "none" /\ fault' = fault
    BY <1>3 DEF CutLast, IInv
  <2>2. Pairs \in Nat /\ i = 2 * Pairs
    BY <2>1 DEF Pairs, InLoop
  <2>3. line = SwapAll(Digits) /\ ~SubstrThrows(PrintedDigits(number))
    BY <2>1, <2>2 DEF SwapsInvariant, SwapAll
  <2>4. EraseThrows(line) <=> EraseThrows(Digits)
    <3>1. Digits \in [1..(2 * Pairs) -> Int] /\ line \in [1..(2 * Pairs) -> Int]
      BY <2>1, CutDigits DEF InLoop, Digits, Pairs
    <3>2. DOMAIN Digits = DOMAIN line
      BY <3>1
    <3>3. \A f \in [1..(2 * Pairs) -> Int] : f = <<>> <=> Pairs = 0
      <4>1. ASSUME NEW f \in [1..(2 * Pairs) -> Int] PROVE f = <<>> <=> Pairs = 0
        <5>1. f \in Seq(Int) /\ Len(f) = 2 * Pairs
          BY <2>2
        <5> QED BY <2>2, <5>1, EmptySeq
      <4> QED BY <4>1
    <3> QED BY <3>1, <3>3 DEF EraseThrows
  <2>5. CASE EraseThrows(line)
    <3>1. at' = "aborted"
      BY <1>3, <2>5 DEF CutLast
    <3>2. ParseNum(number, fault) = Aborted
      BY <1>a, <2>1, <2>4, <2>5 DEF ParseLine, Digits
    <3> QED BY <2>1, <3>1, <3>2 DEF SwapsInvariant, ParseAgrees
  <2>6. CASE ~EraseThrows(line)
    <3>1. at' = "done" /\ line' = EraseLast(line)
      BY <1>3, <2>6 DEF CutLast
    <3>2. ParseNum(number, fault) = Found(EraseLast(line))
      BY <1>a, <2>1, <2>3, <2>4, <2>6 DEF ParseLine, Digits
    <3> QED BY <2>1, <3>1, <3>2 DEF SwapsInvariant, ParseAgrees
  <2> QED BY <2>5, <2>6
<1>4. CASE UNCHANGED vars
  BY <1>4 DEF vars, SwapsInvariant, ParseAgrees, Digits, Pairs
<1> QED BY <1>0, <1>1, <1>2, <1>3, <1>4 DEF Next

(* The operator the other modules use is the code of parseNum, whatever    *)
(* the number and whatever fails: the same digits, and the end of the      *)
(* program for the same numbers.                                           *)
THEOREM NumberParsed == Spec => []ParseAgrees
<1>1. Init => SwapsInvariant
  BY DEF Init, SwapsInvariant, ParseAgrees
<1>2. IInv /\ SwapsInvariant /\ [Next]_vars => SwapsInvariant'
  BY SwapsStep
<1>3. SwapsInvariant => ParseAgrees
  BY DEF SwapsInvariant
<1> QED BY <1>1, <1>2, <1>3, Invariance, PTL DEF Spec
=============================================================================
