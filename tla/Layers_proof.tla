---------------------------- MODULE Layers_proof ----------------------------
(***************************************************************************)
(* Facts about the operators of the layers: what loops and recursive       *)
(* functions compute, for any octets.  They have no state; the proofs      *)
(* about the modules that do build on them.                                *)
(***************************************************************************)
EXTENDS M3UAmessage, SccpMessage, DigitLine, Sgp, BerTlv,
        SequenceTheorems, WellFoundedInduction, TLAPS

(* Induction: a claim about numbers that fails somewhere fails at a least  *)
(* number.  It is stated of a set of numbers (those where the claim fails) *)
(* and not of a predicate, so that every prover can use it.                *)
LEMMA LeastOf ==
  ASSUME NEW T \in SUBSET Nat, T # {}
  PROVE  \E n \in T : \A k \in T : n <= k
<1> DEFINE R == OpToRel(<, Nat)
<1>1. IsWellFoundedOn(R, Nat)
  BY NatLessThanWellFounded
<1>2. \A a, b \in Nat : a < b => <<a, b>> \in R
  BY DEF OpToRel
<1> HIDE DEF R
<1>3. PICK n \in T : \A k \in T : ~(<<k, n>> \in R)
  BY <1>1, WFMin
<1>4. ASSUME NEW k \in T PROVE n <= k
  <2>1. k \in Nat /\ n \in Nat
    BY <1>3
  <2>2. ~(k < n)
    BY <1>2, <1>3, <2>1, Zenon
  <2> QED BY <2>1, <2>2
<1> QED BY <1>3, <1>4

(* What holds of 0, and of n + 1 if it holds of n, holds of every number.  *)
LEMMA NumbersAll ==
  ASSUME NEW S \in SUBSET Nat, 0 \in S, \A n \in S : n + 1 \in S
  PROVE  S = Nat
<1> SUFFICES ASSUME Nat \ S # {} PROVE FALSE
  OBVIOUS
<1>1. PICK n \in Nat \ S : \A k \in Nat \ S : n <= k
  BY LeastOf
<1>2. n - 1 \in Nat /\ n - 1 \notin Nat \ S
  BY <1>1
<1>3. (n - 1) + 1 \in S
  BY <1>2
<1> QED BY <1>1, <1>3

-----------------------------------------------------------------------------
(* A copying loop that stays inside the vector yields that part of it.     *)
LEMMA CopyInside ==
  ASSUME NEW m \in Seq(Byte), NEW from \in Nat, NEW to \in Nat, NEW h,
         from <= to, to <= Len(m)
  PROVE  Copy(m, from, to, h) = SubSeq(m, from + 1, to)
<1> DEFINE c == Copy(m, from, to, h)
           s == SubSeq(m, from + 1, to)
<1>1. /\ s \in Seq(Byte) /\ Len(s) = to - from
      /\ \A x \in 1..(to - from) : s[x] = m[from + x]
  OBVIOUS
<1>2. CASE to <= from
  <2>1. Len(s) = 0
    BY <1>1, <1>2
  <2> QED BY <1>1, <1>2, <2>1, EmptySeq DEF Copy
<1>3. CASE to > from
  <2>1. c = [x \in 1..(to - from) |-> At(m, from + x - 1, h)]
    BY <1>3 DEF Copy
  <2>2. \A x \in 1..(to - from) : At(m, from + x - 1, h) = m[from + x]
    BY DEF At
  <2>3. s = [x \in 1..(to - from) |-> s[x]]
    BY <1>1
  <2> QED BY <1>1, <2>1, <2>2, <2>3
<1> QED BY <1>2, <1>3

(* What is read is an octet, inside the vector or behind it.               *)
LEMMA AtType ==
  ASSUME NEW m \in Seq(Byte), NEW h \in Byte, NEW k \in Nat
  PROVE  At(m, k, h) \in Byte
<1>1. k < Len(m) => m[k + 1] \in Byte
  BY ElementOfSeq
<1> QED BY <1>1 DEF At

(* However far it runs, it yields octets, as many as it was asked for.     *)
LEMMA CopyType ==
  ASSUME NEW m \in Seq(Byte), NEW h \in Byte, NEW from \in Nat, NEW to \in Int
  PROVE  /\ Copy(m, from, to, h) \in Seq(Byte)
         /\ from <= to => Len(Copy(m, from, to, h)) = to - from
<1>1. CASE to <= from
  BY <1>1 DEF Copy
<1>2. CASE to > from
  <2> DEFINE n == to - from
  <2>1. n \in Nat /\ \A x \in 1..n : At(m, from + x - 1, h) \in Byte
    BY <1>2, AtType
  <2>2. Copy(m, from, to, h) = [x \in 1..n |-> At(m, from + x - 1, h)]
    BY <1>2 DEF Copy
  <2>3. Copy(m, from, to, h) \in [1..n -> Byte]
    BY <2>1, <2>2
  <2>4. Copy(m, from, to, h) \in Seq(Byte)
    BY <2>1, <2>3, SeqDef
  <2> QED BY <2>1, <2>3, <2>4, LenProperties
<1> QED BY <1>1, <1>2

-----------------------------------------------------------------------------
(* The members of the object, and what the loop appends to them.           *)
Data == [opc : Seq(Byte), dpc : Seq(Byte), si : Seq(Byte), ni : Seq(Byte),
         mp : Seq(Byte), sls : Seq(Byte), payload : Seq(Byte)]

(* The members of a new object are empty, and of their types.              *)
LEMMA NoDataType == NoData \in Data
BY EmptySeq DEF NoData, Data

(* A field of n octets comes to n octets.                                  *)
LEMMA CopyPart ==
  ASSUME NEW m \in Seq(Byte), NEW h \in Byte, NEW k \in Nat,
         NEW a \in Nat, NEW b \in Nat, a <= b
  PROVE  /\ Copy(m, k + a, k + b, h) \in Seq(Byte)
         /\ Len(Copy(m, k + a, k + b, h)) = b - a
<1> DEFINE f == k + a
           t == k + b
<1>1. f \in Nat /\ t \in Int /\ f <= t /\ t - f = b - a
  OBVIOUS
<1> HIDE DEF f, t
<1>2. Copy(m, f, t, h) \in Seq(Byte) /\ Len(Copy(m, f, t, h)) = t - f
  BY <1>1, CopyType
<1> QED BY <1>1, <1>2 DEF f, t

(* What is taken at a tag are octets; of the routing label as many as each *)
(* field has, wherever the message ends.                                   *)
LEMMA DataAtType ==
  ASSUME NEW m \in Seq(Byte), NEW h \in Byte, NEW k \in Nat
  PROVE  LET d == DataAt(m, k, h)
         IN  /\ d \in Data
             /\ Len(d.opc) = 4 /\ Len(d.dpc) = 4 /\ Len(d.si) = 1
             /\ Len(d.ni) = 1 /\ Len(d.mp) = 1 /\ Len(d.sls) = 1
<1>1. At(m, k + 3, h) \in Byte
  BY AtType
<1>2. k + 16 \in Nat /\ \A x \in Byte : k + x \in Int
  BY DEF Byte
<1>3. \A a, b \in Nat : a <= b =>
        Copy(m, k + a, k + b, h) \in Seq(Byte) /\ Len(Copy(m, k + a, k + b, h)) = b - a
  BY CopyPart
<1>4. /\ 4 <= 8 /\ 8 <= 12 /\ 12 <= 13 /\ 13 <= 14 /\ 14 <= 15 /\ 15 <= 16
      /\ 8 - 4 = 4 /\ 12 - 8 = 4 /\ 13 - 12 = 1 /\ 14 - 13 = 1 /\ 15 - 14 = 1 /\ 16 - 15 = 1
      /\ {4, 8, 12, 13, 14, 15, 16} \subseteq Nat
  OBVIOUS
<1>5. Copy(m, k + 16, k + At(m, k + 3, h), h) \in Seq(Byte)
  BY <1>2, <1>1, CopyType
<1>6. Copy(m, k + 4, k + 8, h) \in Seq(Byte) /\ Len(Copy(m, k + 4, k + 8, h)) = 4
  BY <1>4, <1>3, Zenon
<1>7. Copy(m, k + 8, k + 12, h) \in Seq(Byte) /\ Len(Copy(m, k + 8, k + 12, h)) = 4
  BY <1>4, <1>3, Zenon
<1>8. Copy(m, k + 12, k + 13, h) \in Seq(Byte) /\ Len(Copy(m, k + 12, k + 13, h)) = 1
  BY <1>4, <1>3, Zenon
<1>9. Copy(m, k + 13, k + 14, h) \in Seq(Byte) /\ Len(Copy(m, k + 13, k + 14, h)) = 1
  BY <1>4, <1>3, Zenon
<1>10. Copy(m, k + 14, k + 15, h) \in Seq(Byte) /\ Len(Copy(m, k + 14, k + 15, h)) = 1
  BY <1>4, <1>3, Zenon
<1>11. Copy(m, k + 15, k + 16, h) \in Seq(Byte) /\ Len(Copy(m, k + 15, k + 16, h)) = 1
  BY <1>4, <1>3, Zenon
<1> DEFINE d == DataAt(m, k, h)
<1>12. d \in Data
  BY <1>5, <1>6, <1>7, <1>8, <1>9, <1>10, <1>11 DEF DataAt, Data
<1>13. /\ Len(d.opc) = 4 /\ Len(d.dpc) = 4 /\ Len(d.si) = 1
      /\ Len(d.ni) = 1 /\ Len(d.mp) = 1 /\ Len(d.sls) = 1
  BY <1>6, <1>7, <1>8, <1>9, <1>10, <1>11 DEF DataAt
<1> QED BY <1>12, <1>13

(* Appending adds up the lengths, field by field.                          *)
LEMMA AppendedType ==
  ASSUME NEW d \in Data, NEW e \in Data
  PROVE  LET a == Appended(d, e)
         IN  /\ a \in Data
             /\ Len(a.opc) = Len(d.opc) + Len(e.opc) /\ Len(a.dpc) = Len(d.dpc) + Len(e.dpc)
             /\ Len(a.si) = Len(d.si) + Len(e.si) /\ Len(a.ni) = Len(d.ni) + Len(e.ni)
             /\ Len(a.mp) = Len(d.mp) + Len(e.mp) /\ Len(a.sls) = Len(d.sls) + Len(e.sls)
<1>1. \A s, t \in Seq(Byte) : s \o t \in Seq(Byte) /\ Len(s \o t) = Len(s) + Len(t)
  BY ConcatProperties
<1> QED BY <1>1 DEF Appended, Data

(* Appending to nothing.                                                   *)
LEMMA AppendedToNothing ==
  ASSUME NEW e \in Data
  PROVE  Appended(NoData, e) = e
<1>1. \A s \in Seq(Byte) : <<>> \o s = s
  BY ConcatEmptySeq
<1> QED BY <1>1 DEF Appended, NoData, Data

-----------------------------------------------------------------------------
(* The recursive function behind DecodePayload.  One turn of its recursion *)
(* with g for the function itself:                                         *)
ScanTurn(m, h, g, k) ==
  IF k >= Len(m) THEN NoData
  ELSE IF TagAt(m, k, h) THEN Appended(DataAt(m, k, h), g[k + 17])
  ELSE g[k + 1]

(* The function obeys the equation for the last n octets.                  *)
ScanObeys(m, h, g, n) ==
  g = [k \in Nat |-> IF k + n >= Len(m) THEN ScanTurn(m, h, g, k) ELSE NoData]

(* There is a function that does: the one for the last n - 1 octets with   *)
(* one value more.                                                         *)
LEMMA ScanOfLast ==
  ASSUME NEW m \in Seq(Byte), NEW h
  PROVE  \A n \in Nat : \E g : ScanObeys(m, h, g, n)
<1> DEFINE S == {n \in Nat : \E g : ScanObeys(m, h, g, n)}
<1>0. Len(m) \in Nat
  BY LenProperties
<1>1. 0 \in S
  <2> DEFINE g == [k \in Nat |-> NoData]
  <2>1. \A k \in Nat : (IF k + 0 >= Len(m) THEN ScanTurn(m, h, g, k) ELSE NoData) = NoData
    BY DEF ScanTurn
  <2>2. ScanObeys(m, h, g, 0)
    BY <2>1 DEF ScanObeys
  <2> QED BY <2>2
<1>2. ASSUME NEW n \in S PROVE n + 1 \in S
  <2>1. PICK f : ScanObeys(m, h, f, n)
    OBVIOUS
  <2> DEFINE g == [k \in Nat |-> IF k + (n + 1) >= Len(m) THEN ScanTurn(m, h, f, k) ELSE NoData]
  <2>2. \A k \in Nat : f[k] = IF k + n >= Len(m) THEN ScanTurn(m, h, f, k) ELSE NoData
    BY <2>1 DEF ScanObeys
  <2>3. \A k \in Nat : k + n >= Len(m) => f[k] = g[k]
    <3>1. \A k \in Nat : k + n >= Len(m) => k + (n + 1) >= Len(m)
      BY <1>0
    <3> QED BY <2>2, <3>1
  <2> HIDE DEF g
  <2>4. ASSUME NEW k \in Nat, k + (n + 1) >= Len(m)
        PROVE  ScanTurn(m, h, f, k) = ScanTurn(m, h, g, k)
    <3>1. k + 1 \in Nat /\ k + 17 \in Nat /\ (k + 1) + n >= Len(m) /\ (k + 17) + n >= Len(m)
      BY <1>0, <2>4
    <3>2. f[k + 1] = g[k + 1] /\ f[k + 17] = g[k + 17]
      BY <2>3, <3>1
    <3> QED BY <3>2 DEF ScanTurn
  <2>5. ScanObeys(m, h, g, n + 1)
    BY <2>4 DEF g, ScanObeys
  <2> QED BY <2>5
<1>3. S = Nat
  <2>1. S \in SUBSET Nat
    OBVIOUS
  <2> HIDE DEF S
  <2> QED BY <1>1, <1>2, <2>1, NumbersAll
<1> QED BY <1>3

(* The function obeys its equation.                                        *)
LEMMA ScanFromDefined ==
  ASSUME NEW m \in Seq(Byte), NEW h
  PROVE  \A k \in Nat : ScanFrom(m, h)[k] = ScanTurn(m, h, ScanFrom(m, h), k)
<1> DEFINE f == ScanFrom(m, h)
<1>1. Len(m) \in Nat /\ \A k \in Nat : k + Len(m) >= Len(m)
  BY LenProperties
<1>2. PICK g : ScanObeys(m, h, g, Len(m))
  BY <1>1, ScanOfLast
<1>3. g = [k \in Nat |-> ScanTurn(m, h, g, k)]
  BY <1>1, <1>2 DEF ScanObeys
<1>4. f = [k \in Nat |-> ScanTurn(m, h, f, k)]
  BY <1>3 DEF ScanFrom, ScanTurn
<1> QED BY <1>4

(* What is still to be appended are octets.                                *)
LEMMA ScanFromType ==
  ASSUME NEW m \in Seq(Byte), NEW h \in Byte
  PROVE  \A k \in Nat : ScanFrom(m, h)[k] \in Data
<1> DEFINE f == ScanFrom(m, h)
           S == {n \in Nat : \A k \in Nat : k + n >= Len(m) => f[k] \in Data}
<1>0. Len(m) \in Nat
  BY LenProperties
<1>1. \A k \in Nat : f[k] = ScanTurn(m, h, f, k)
  BY ScanFromDefined
<1> HIDE DEF f
<1>2. 0 \in S
  <2>1. ASSUME NEW k \in Nat, k + 0 >= Len(m) PROVE f[k] \in Data
    <3>1. k >= Len(m)
      BY <1>0, <2>1
    <3> QED BY <1>1, <3>1, NoDataType DEF ScanTurn
  <2> QED BY <2>1
<1>3. ASSUME NEW n \in S PROVE n + 1 \in S
  <2>1. ASSUME NEW k \in Nat, k + (n + 1) >= Len(m) PROVE f[k] \in Data
    <3>1. k + 1 \in Nat /\ k + 17 \in Nat /\ (k + 1) + n >= Len(m) /\ (k + 17) + n >= Len(m)
      BY <1>0, <2>1
    <3>2. f[k + 1] \in Data /\ f[k + 17] \in Data
      BY <3>1
    <3>3. DataAt(m, k, h) \in Data
      BY DataAtType
    <3>4. Appended(DataAt(m, k, h), f[k + 17]) \in Data
      BY <3>2, <3>3, AppendedType
    <3> QED BY <1>1, <3>2, <3>4, NoDataType DEF ScanTurn
  <2> QED BY <2>1
<1>4. S = Nat
  <2>1. S \in SUBSET Nat
    OBVIOUS
  <2> HIDE DEF S
  <2> QED BY <1>2, <1>3, <2>1, NumbersAll
<1>5. Len(m) \in S
  BY <1>0, <1>4
<1> QED BY <1>0, <1>5 DEF f

(* Appending is associative, and nothing appended changes nothing.         *)
LEMMA AppendedAssociative ==
  ASSUME NEW c \in Data, NEW d \in Data, NEW e \in Data
  PROVE  /\ Appended(Appended(c, d), e) = Appended(c, Appended(d, e))
         /\ Appended(c, NoData) = c
<1>1. \A s, t, u \in Seq(Byte) : (s \o t) \o u = s \o (t \o u)
  BY ConcatAssociative
<1>2. \A s \in Seq(Byte) : s \o <<>> = s
  BY ConcatEmptySeq
<1>3. Appended(Appended(c, d), e) = Appended(c, Appended(d, e))
  <2> DEFINE Fields == {"opc", "dpc", "si", "ni", "mp", "sls", "payload"}
  <2>1. \A f \in Fields : c[f] \in Seq(Byte) /\ d[f] \in Seq(Byte) /\ e[f] \in Seq(Byte)
    BY DEF Data
  <2>2. \A f \in Fields : (c[f] \o d[f]) \o e[f] = c[f] \o (d[f] \o e[f])
    <3> HIDE DEF Fields
    <3> QED BY <1>1, <2>1, Zenon
  <2> QED BY <2>2 DEF Appended
<1>4. Appended(c, NoData) = c
  BY <1>2 DEF Appended, NoData, Data
<1> QED BY <1>3, <1>4

-----------------------------------------------------------------------------
(* The digits of a number, pair by pair: pair k exchanged, or as it is      *)
(* printed.                                                                *)
PairIs(number, s, k, exchanged) ==
  /\ s[2 * k + 1] = HalfOctet(number, IF exchanged THEN 2 * k + 1 ELSE 2 * k + 2)
  /\ s[2 * k + 2] = HalfOctet(number, IF exchanged THEN 2 * k + 2 ELSE 2 * k + 1)

(* Pair k has been exchanged after i turns of parseNum's loop.             *)
ExchangedAfter(k, i) == IF k = 0 THEN i > 0 /\ i % 2 = 0 ELSE 2 * k < i

(* A size in these bounds is an integer.                                   *)
LEMMA SizeOf ==
  ASSUME NEW m, m \in 2..16
  PROVE  m \in Nat /\ m - 2 \in Nat /\ m - 2 <= 14 /\ 2 * m = 2 * (m - 2) + 4 /\ ~(m > 16)
         /\ (m - 2 = 0 => m \notin 3..16) /\ (m - 2 > 0 => m \in 3..16)
OBVIOUS

(* The digits: a pair of them is one octet.                                *)
LEMMA HalfOfPair ==
  ASSUME NEW number, NEW k \in Nat
  PROVE  /\ HalfOctet(number, 2 * k + 1) = number[k + 3] % 16
         /\ HalfOctet(number, 2 * k + 2) = number[k + 3] \div 16
<1>1. /\ (2 * k + 1) % 2 = 1 /\ (2 * k + 2) % 2 # 1
      /\ 2 + ((2 * k + 1) + 1) \div 2 = k + 3 /\ 2 + (2 * k + 2) \div 2 = k + 3
  OBVIOUS
<1>2. HalfOctet(number, 2 * k + 1) = number[k + 3] % 16
  BY <1>1 DEF HalfOctet
<1>3. HalfOctet(number, 2 * k + 2) = number[k + 3] \div 16
  BY <1>1 DEF HalfOctet
<1> QED BY <1>2, <1>3

(* A position is in one place of one pair.                                 *)
LEMMA PairOf ==
  ASSUME NEW p \in Nat, NEW d \in 1..(2 * p)
  PROVE  /\ (d - 1) \div 2 \in 0..(p - 1)
         /\ d = 2 * ((d - 1) \div 2) + 1 \/ d = 2 * ((d - 1) \div 2) + 2
OBVIOUS

(* A turn keeps the pairs that are right, and makes one more so.           *)
LEMMA SwapStepPairs ==
  ASSUME NEW number, NEW pairs \in Nat, NEW line \in [1..(2 * pairs) -> Int],
         NEW i \in Nat, i < 2 * pairs,
         \A k \in 0..(pairs - 1) : PairIs(number, line, k, ExchangedAfter(k, i))
  PROVE  /\ SwapStep(line, i) \in [1..(2 * pairs) -> Int]
         /\ \A k \in 0..(pairs - 1) :
              PairIs(number, SwapStep(line, i), k, ExchangedAfter(k, i + 1))
<1> DEFINE n     == 2 * pairs
           first == Swapped(line, 0, 1)
           t     == SwapStep(line, i)
<1>1. pairs \in Nat /\ i \in Nat /\ n \in Nat /\ line \in [1..n -> Int] /\ n >= 2
  OBVIOUS
<1>2. /\ first \in [1..n -> Int] /\ first[1] = line[2] /\ first[2] = line[1]
      /\ \A d \in 1..n : d # 1 /\ d # 2 => first[d] = line[d]
  BY <1>1 DEF Swapped
<1>3. \A k \in 0..(pairs - 1) : PairIs(number, line, k, ExchangedAfter(k, i))
  OBVIOUS
<1>4. CASE i % 2 = 1
  <2>1. t = first
    BY <1>4 DEF SwapStep
  <2>2. \A k \in 0..(pairs - 1) : k # 0 => t[2 * k + 1] = line[2 * k + 1] /\ t[2 * k + 2] = line[2 * k + 2]
    BY <1>1, <1>2, <2>1
  <2>3. \A k \in 0..(pairs - 1) : (2 * k < i) = (2 * k < i + 1)
    BY <1>1, <1>4
  <2>4. ~(i > 0 /\ i % 2 = 0) /\ (i + 1) % 2 = 0
    BY <1>1, <1>4
  <2>5. ASSUME NEW k \in 0..(pairs - 1)
        PROVE  PairIs(number, t, k, ExchangedAfter(k, i + 1))
    <3>1. CASE k = 0
      <4>1. line[1] = HalfOctet(number, 2) /\ line[2] = HalfOctet(number, 1)
        BY <1>3, <2>4, <3>1 DEF PairIs, ExchangedAfter
      <4>2. t[1] = HalfOctet(number, 1) /\ t[2] = HalfOctet(number, 2)
        BY <1>2, <2>1, <4>1
      <4> QED BY <2>4, <3>1, <4>2 DEF PairIs, ExchangedAfter
    <3>2. CASE k # 0
      BY <1>3, <2>2, <2>3, <3>2 DEF PairIs, ExchangedAfter
    <3> QED BY <3>1, <3>2
  <2> QED BY <1>2, <2>1, <2>5, Zenon
<1>5. CASE i % 2 = 0
  <2> DEFINE j == i \div 2
  <2>1. j \in 0..(pairs - 1) /\ i = 2 * j
    BY <1>1, <1>5
  <2>2. t = Swapped(first, i, i + 1)
    BY <1>5 DEF SwapStep
  <2> HIDE DEF first, j
  <2>3. /\ t \in [1..n -> Int] /\ t[2 * j + 1] = first[2 * j + 2] /\ t[2 * j + 2] = first[2 * j + 1]
        /\ \A d \in 1..n : d # 2 * j + 1 /\ d # 2 * j + 2 => t[d] = first[d]
    <3>1. i \in Nat /\ i + 1 \in Nat /\ i + 1 \in 1..n /\ (i + 1) + 1 \in 1..n /\ i # i + 1
      BY <1>1, <2>1
    <3>2. /\ Swapped(first, i, i + 1) \in [1..n -> Int]
          /\ Swapped(first, i, i + 1)[i + 1] = first[(i + 1) + 1]
          /\ Swapped(first, i, i + 1)[(i + 1) + 1] = first[i + 1]
          /\ \A d \in 1..n : d # i + 1 /\ d # (i + 1) + 1 => Swapped(first, i, i + 1)[d] = first[d]
      BY <1>1, <1>2, <3>1 DEF Swapped
    <3>3. i + 1 = 2 * j + 1 /\ (i + 1) + 1 = 2 * j + 2
      BY <1>1, <2>1
    <3> QED BY <2>2, <3>2, <3>3
  <2> HIDE DEF t
  <2>4. (i + 1) % 2 # 0
    BY <1>1, <1>5
  <2>5. ASSUME NEW k \in 0..(pairs - 1)
        PROVE  PairIs(number, t, k, ExchangedAfter(k, i + 1))
    <3>1. CASE k = 0 /\ j = 0
      <4>1. line[1] = HalfOctet(number, 2) /\ line[2] = HalfOctet(number, 1)
        BY <1>3, <2>1, <3>1 DEF PairIs, ExchangedAfter
      <4>2. t[1] = line[1] /\ t[2] = line[2]
        BY <1>2, <2>3, <3>1
      <4> QED BY <2>4, <3>1, <4>1, <4>2 DEF PairIs, ExchangedAfter
    <3>2. CASE k = 0 /\ j # 0
      <4>1. line[1] = HalfOctet(number, 1) /\ line[2] = HalfOctet(number, 2)
        <5>1. ExchangedAfter(k, i)
          BY <1>1, <1>5, <2>1, <3>2 DEF ExchangedAfter
        <5>2. PairIs(number, line, 0, TRUE)
          BY <1>3, <3>2, <5>1
        <5> QED BY <5>2 DEF PairIs
      <4>2. t[1] = first[1] /\ t[2] = first[2]
        <5>1. 1 \in 1..n /\ 2 \in 1..n /\ 1 # 2 * j + 1 /\ 1 # 2 * j + 2 /\ 2 # 2 * j + 1 /\ 2 # 2 * j + 2
          BY <1>1, <2>1, <3>2
        <5> QED BY <2>3, <5>1
      <4> QED BY <1>2, <2>4, <3>2, <4>1, <4>2 DEF PairIs, ExchangedAfter
    <3>3. CASE k # 0 /\ k = j
      <4>1. line[2 * k + 1] = HalfOctet(number, 2 * k + 2) /\ line[2 * k + 2] = HalfOctet(number, 2 * k + 1)
        BY <1>3, <2>1, <3>3 DEF PairIs, ExchangedAfter
      <4>2. first[2 * k + 1] = line[2 * k + 1] /\ first[2 * k + 2] = line[2 * k + 2]
        BY <1>1, <1>2, <3>3
      <4>3. 2 * k < i + 1
        BY <2>1, <3>3
      <4> QED BY <2>3, <3>3, <4>1, <4>2, <4>3 DEF PairIs, ExchangedAfter
    <3>4. CASE k # 0 /\ k # j
      <4>1. first[2 * k + 1] = line[2 * k + 1] /\ first[2 * k + 2] = line[2 * k + 2]
        BY <1>1, <1>2, <3>4
      <4>2. t[2 * k + 1] = first[2 * k + 1] /\ t[2 * k + 2] = first[2 * k + 2]
        <5>1. /\ 2 * k + 1 \in 1..n /\ 2 * k + 2 \in 1..n
              /\ 2 * k + 1 # 2 * j + 1 /\ 2 * k + 1 # 2 * j + 2
              /\ 2 * k + 2 # 2 * j + 1 /\ 2 * k + 2 # 2 * j + 2
          BY <1>1, <2>1, <3>4
        <5> QED BY <2>3, <5>1
      <4>3. (2 * k < i) = (2 * k < i + 1)
        BY <2>1, <3>4
      <4> QED BY <1>3, <3>4, <4>1, <4>2, <4>3 DEF PairIs, ExchangedAfter
    <3> QED BY <3>1, <3>2, <3>3, <3>4
  <2> QED BY <2>3, <2>5, Zenon DEF t
<1>6. i % 2 = 0 \/ i % 2 = 1
  BY <1>1
<1> QED BY <1>4, <1>5, <1>6

-----------------------------------------------------------------------------
(* substr leaves the digits behind the header, as they are printed.        *)
LEMMA CutDigits ==
  ASSUME NEW number \in Seq(Byte), Len(number) \in 2..16
  PROVE  /\ ~SubstrThrows(PrintedDigits(number))
         /\ Substr(PrintedDigits(number)) \in [1..(2 * (Len(number) - 2)) -> Int]
         /\ \A k \in 0..(Len(number) - 3) : PairIs(number, Substr(PrintedDigits(number)), k, FALSE)
<1> DEFINE p == PrintedDigits(number)
           n == 2 * (Len(number) - 2)
           r == Substr(p)
<1>1. Len(number) \in Nat /\ ~(Len(number) > 16) /\ (Len(number) - 2) \in Nat /\ 2 * Len(number) = n + 4
  BY SizeOf
<1>2. p = [d \in 1..(n + 4) |->
             IF d % 2 = 1 THEN number[(d + 1) \div 2] \div 16 ELSE number[d \div 2] % 16]
  BY <1>1 DEF PrintedDigits
<1>3. \A d \in 1..(n + 4) : p[d] \in Int
  <2> SUFFICES ASSUME NEW d \in 1..(n + 4) PROVE p[d] \in Int
    OBVIOUS
  <2>1. (d % 2 = 1 => (d + 1) \div 2 \in 1..Len(number)) /\ (d % 2 # 1 => d \div 2 \in 1..Len(number))
    BY <1>1
  <2>2. \A x \in 1..Len(number) : number[x] \in 0..255
    BY ElementOfSeq DEF Byte
  <2>3. \A x \in 0..255 : x \div 16 \in Int /\ x % 16 \in Int
    OBVIOUS
  <2> QED BY <1>2, <2>1, <2>2, <2>3
<1>4. p \in Seq(Int) /\ Len(p) = n + 4
  <2>1. p \in [1..(n + 4) -> Int]
    BY <1>2, <1>3
  <2>2. n + 4 \in Nat
    BY <1>1
  <2> QED BY <2>1, <2>2, SeqDef, LenProperties
<1>5. /\ r \in Seq(Int) /\ Len(r) = n
      /\ \A d \in 1..n : r[d] = p[d + 4]
  <2>1. r = SubSeq(p, 5, n + 4)
    BY <1>4 DEF Substr, DroppedDigits
  <2>2. \A d \in 5..(n + 4) : p[d] \in Int
    BY <1>3
  <2>3. /\ SubSeq(p, 5, n + 4) \in Seq(Int)
        /\ Len(SubSeq(p, 5, n + 4)) = IF 5 <= n + 4 THEN (n + 4) - 5 + 1 ELSE 0
        /\ \A d \in 1..((n + 4) - 5 + 1) : SubSeq(p, 5, n + 4)[d] = p[5 + d - 1]
    <3> HIDE DEF p, n
    <3>1. n \in Nat
      BY <1>1 DEF n
    <3> QED BY <2>2, <3>1, SubSeqProperties
  <2> HIDE DEF p, n, r
  <2>4. n \in Nat
    BY <1>1 DEF n
  <2>5. \A d \in 1..n : d \in 1..((n + 4) - 5 + 1) /\ 5 + d - 1 = d + 4
    BY <2>4
  <2> QED BY <2>1, <2>3, <2>4, <2>5
<1>6. r \in [1..n -> Int]
  BY <1>5, LenProperties
<1>7. ASSUME NEW k \in 0..(Len(number) - 3)
      PROVE  PairIs(number, r, k, FALSE)
  <2>1. k \in Nat /\ 2 * k + 1 \in 1..n /\ 2 * k + 2 \in 1..n
    BY <1>1
  <2>2. r[2 * k + 1] = p[2 * k + 5] /\ r[2 * k + 2] = p[2 * k + 6]
    <3>1. r[2 * k + 1] = p[(2 * k + 1) + 4] /\ r[2 * k + 2] = p[(2 * k + 2) + 4]
      BY <1>5, <2>1
    <3>2. (2 * k + 1) + 4 = 2 * k + 5 /\ (2 * k + 2) + 4 = 2 * k + 6
      BY <2>1
    <3> QED BY <3>1, <3>2
  <2>3. /\ 2 * k + 5 \in 1..(n + 4) /\ (2 * k + 5) % 2 = 1 /\ ((2 * k + 5) + 1) \div 2 = k + 3
        /\ 2 * k + 6 \in 1..(n + 4) /\ (2 * k + 6) % 2 # 1 /\ (2 * k + 6) \div 2 = k + 3
    BY <1>1, <2>1
  <2>4. p[2 * k + 5] = number[k + 3] \div 16 /\ p[2 * k + 6] = number[k + 3] % 16
    BY <1>2, <2>3
  <2> HIDE DEF r, p, n
  <2> QED BY <2>1, <2>2, <2>4, HalfOfPair DEF PairIs
<1>8. ~SubstrThrows(p)
  BY <1>1, <1>4 DEF SubstrThrows, DroppedDigits
<1> HIDE DEF p, r
<1> QED BY <1>6, <1>7, <1>8 DEF p, r

(* When every pair is exchanged the line is the number.                    *)
LEMMA AllExchanged ==
  ASSUME NEW number \in Seq(Byte), Len(number) \in 3..16,
         NEW line \in [1..(2 * (Len(number) - 2)) -> Int],
         \A k \in 0..(Len(number) - 3) :
           PairIs(number, line, k, ExchangedAfter(k, 2 * (Len(number) - 2)))
  PROVE  line = NumberDigits(number)
<1> DEFINE p == Len(number) - 2
           n == 2 * p
<1>1. p \in Nat /\ n \in Nat /\ p > 0 /\ p - 1 = Len(number) - 3
  <2>1. \A m \in 3..16 : m - 2 \in Nat /\ 2 * (m - 2) \in Nat /\ m - 2 > 0 /\ (m - 2) - 1 = m - 3
    OBVIOUS
  <2> QED BY <2>1
<1>2. ASSUME NEW k \in 0..(p - 1)
      PROVE  line[2 * k + 1] = HalfOctet(number, 2 * k + 1) /\ line[2 * k + 2] = HalfOctet(number, 2 * k + 2)
  <2>1. ExchangedAfter(k, n)
    BY <1>1 DEF ExchangedAfter
  <2>2. PairIs(number, line, k, ExchangedAfter(k, n))
    BY <1>1
  <2> QED BY <2>1, <2>2 DEF PairIs
<1>3. ASSUME NEW d \in 1..n
      PROVE  line[d] = HalfOctet(number, d)
  <2> HIDE DEF p
  <2> QED BY <1>1, <1>2, PairOf
<1>4. NumberDigits(number) = [d \in 1..n |-> HalfOctet(number, d)]
  BY DEF NumberDigits
<1> HIDE DEF n
<1> QED BY <1>1, <1>3, <1>4 DEF n

(* substr finds too few digits in any number of another size: there are    *)
(* less than four, or else they are not on the line.                       *)
LEMMA CutRefuses ==
  ASSUME NEW number \in Seq(Byte), Len(number) \notin 2..16
  PROVE  SubstrThrows(PrintedDigits(number))
<1> DEFINE line == PrintedDigits(number)
<1>1. Len(number) \in Nat
  OBVIOUS
<1>2. CASE Len(number) > 16
  <2>1. line = <<>>
    BY <1>2 DEF PrintedDigits
  <2> QED BY <2>1 DEF SubstrThrows, DroppedDigits
<1>3. CASE Len(number) \in 0..1
  <2> DEFINE f(d) == IF d % 2 = 1 THEN number[(d + 1) \div 2] \div 16 ELSE number[d \div 2] % 16
  <2>1. line = [d \in 1..(2 * Len(number)) |-> f(d)]
    BY <1>3 DEF PrintedDigits
  <2> HIDE DEF f
  <2>2. Len(line) = 2 * Len(number)
    BY <1>1, <2>1
  <2>3. 2 * Len(number) < 4
    <3>1. \A m \in 0..1 : 2 * m < 4
      OBVIOUS
    <3> QED BY <1>3, <3>1
  <2> QED BY <2>2, <2>3 DEF SubstrThrows, DroppedDigits
<1>4. ASSUME NEW m \in Nat, m \notin 2..16 PROVE m > 16 \/ m \in 0..1
  BY <1>4
<1> QED BY <1>1, <1>2, <1>3, <1>4

-----------------------------------------------------------------------------
(* The recursive function behind ParseLine.  A turn of its recursion with  *)
(* g for the function itself, and the equation for the first n turns:      *)
SwapsTurn(l, g, k) == IF k = 0 THEN l ELSE SwapStep(g[k - 1], k - 1)

SwapsObey(l, g, n) ==
  g = [k \in 0..Len(l) |-> IF k <= n THEN SwapsTurn(l, g, k) ELSE l]

(* There is a function that obeys it: the one for n - 1 turns with one     *)
(* value more.                                                             *)
LEMMA SwapsOfFirst ==
  ASSUME NEW l, Len(l) \in Nat
  PROVE  \A n \in Nat : \E g : SwapsObey(l, g, n)
<1> DEFINE S == {n \in Nat : \E g : SwapsObey(l, g, n)}
<1>1. 0 \in S
  <2> DEFINE g == [k \in 0..Len(l) |-> l]
  <2>1. \A k \in 0..Len(l) : (IF k <= 0 THEN SwapsTurn(l, g, k) ELSE l) = l
    BY DEF SwapsTurn
  <2>2. SwapsObey(l, g, 0)
    BY <2>1 DEF SwapsObey
  <2> QED BY <2>2
<1>2. ASSUME NEW n \in S PROVE n + 1 \in S
  <2>1. PICK f : SwapsObey(l, f, n)
    OBVIOUS
  <2> DEFINE g == [k \in 0..Len(l) |-> IF k <= n + 1 THEN SwapsTurn(l, f, k) ELSE l]
  <2>2. \A k \in 0..Len(l) : f[k] = IF k <= n THEN SwapsTurn(l, f, k) ELSE l
    BY <2>1 DEF SwapsObey
  <2>3. \A k \in 0..Len(l) : k <= n => f[k] = g[k]
    <3>1. \A k \in 0..Len(l) : k <= n => k <= n + 1
      OBVIOUS
    <3> QED BY <2>2, <3>1
  <2> HIDE DEF g
  <2>4. ASSUME NEW k \in 0..Len(l), k <= n + 1
        PROVE  SwapsTurn(l, f, k) = SwapsTurn(l, g, k)
    <3>1. CASE k = 0
      BY <3>1 DEF SwapsTurn
    <3>2. CASE k # 0
      <4>1. k - 1 \in 0..Len(l) /\ k - 1 <= n
        BY <2>4, <3>2
      <4>2. f[k - 1] = g[k - 1]
        BY <2>3, <4>1
      <4> QED BY <4>2 DEF SwapsTurn
    <3> QED BY <3>1, <3>2
  <2>5. SwapsObey(l, g, n + 1)
    BY <2>4 DEF g, SwapsObey
  <2> QED BY <2>5
<1>3. S = Nat
  <2>1. S \in SUBSET Nat
    OBVIOUS
  <2> HIDE DEF S
  <2> QED BY <1>1, <1>2, <2>1, NumbersAll
<1> QED BY <1>3

(* The function obeys its equation.                                        *)
LEMMA SwapsDoneDefined ==
  ASSUME NEW l, Len(l) \in Nat
  PROVE  \A k \in 0..Len(l) : SwapsDone(l)[k] = SwapsTurn(l, SwapsDone(l), k)
<1> DEFINE f == SwapsDone(l)
<1>1. PICK g : SwapsObey(l, g, Len(l))
  BY SwapsOfFirst
<1>2. g = [k \in 0..Len(l) |-> SwapsTurn(l, g, k)]
  <2>1. \A k \in 0..Len(l) : k <= Len(l)
    OBVIOUS
  <2> QED BY <1>1, <2>1 DEF SwapsObey
<1>3. f = [k \in 0..Len(l) |-> SwapsTurn(l, f, k)]
  BY <1>2 DEF SwapsDone, SwapsTurn
<1> QED BY <1>3

(* After every turn the pairs are as the loop leaves them.                 *)
LEMMA SwapsPairs ==
  ASSUME NEW number, NEW pairs \in Nat, NEW l \in [1..(2 * pairs) -> Int],
         \A k \in 0..(pairs - 1) : PairIs(number, l, k, FALSE)
  PROVE  \A t \in 0..(2 * pairs) :
           /\ SwapsDone(l)[t] \in [1..(2 * pairs) -> Int]
           /\ \A k \in 0..(pairs - 1) : PairIs(number, SwapsDone(l)[t], k, ExchangedAfter(k, t))
<1> DEFINE n == 2 * pairs
           f == SwapsDone(l)
           Right(t) == /\ f[t] \in [1..n -> Int]
                       /\ \A k \in 0..(pairs - 1) : PairIs(number, f[t], k, ExchangedAfter(k, t))
           S == {t \in Nat : t <= n => Right(t)}
<1>1. n \in Nat /\ Len(l) = n
  <2>1. n \in Nat
    OBVIOUS
  <2> HIDE DEF n
  <2>2. l \in [1..n -> Int]
    BY DEF n
  <2> QED BY <2>1, <2>2
<1>2. \A k \in 0..n : f[k] = SwapsTurn(l, f, k)
  <2> HIDE DEF n
  <2> QED BY <1>1, SwapsDoneDefined
<1> HIDE DEF f
<1>3. 0 \in S
  <2>1. f[0] = l
    BY <1>1, <1>2 DEF SwapsTurn
  <2>2. \A k \in 0..(pairs - 1) : ~ExchangedAfter(k, 0)
    BY DEF ExchangedAfter
  <2>3. \A k \in 0..(pairs - 1) : PairIs(number, l, k, ExchangedAfter(k, 0))
    BY <2>2 DEF PairIs
  <2> QED BY <2>1, <2>3
<1>4. ASSUME NEW t \in S PROVE t + 1 \in S
  <2> SUFFICES ASSUME t + 1 <= n PROVE Right(t + 1)
    OBVIOUS
  <2>1. t \in Nat /\ t <= n /\ t < n /\ t + 1 \in 0..n /\ t + 1 # 0 /\ (t + 1) - 1 = t
    BY <1>1
  <2>2. f[t + 1] = SwapStep(f[t], t)
    BY <1>2, <2>1 DEF SwapsTurn
  <2>3. Right(t)
    BY <2>1
  <2>4. /\ f[t] \in [1..(2 * pairs) -> Int] /\ t < 2 * pairs
        /\ \A k \in 0..(pairs - 1) : PairIs(number, f[t], k, ExchangedAfter(k, t))
    BY <2>1, <2>3
  <2>5. /\ SwapStep(f[t], t) \in [1..(2 * pairs) -> Int]
        /\ \A k \in 0..(pairs - 1) :
             PairIs(number, SwapStep(f[t], t), k, ExchangedAfter(k, t + 1))
    <3> HIDE DEF S, Right, n
    <3> QED BY <2>1, <2>4, SwapStepPairs
  <2> QED BY <2>2, <2>5
<1>5. S = Nat
  <2>1. S \in SUBSET Nat
    OBVIOUS
  <2> HIDE DEF S
  <2> QED BY <1>3, <1>4, <2>1, NumbersAll
<1> QED BY <1>1, <1>5 DEF f

(* parseNum of a number of 3 to 16 octets: all its digits but the last.    *)
LEMMA ParseLineDigits ==
  ASSUME NEW number \in Seq(Byte), Len(number) \in 3..16
  PROVE  ParseLine(number) = Found(EraseLast(NumberDigits(number)))
<1> DEFINE pairs == Len(number) - 2
           l     == Substr(PrintedDigits(number))
<1>1. pairs \in Nat /\ pairs > 0 /\ pairs - 1 = Len(number) - 3 /\ Len(number) \in 2..16
  <2>1. \A m \in 3..16 : m - 2 \in Nat /\ m - 2 > 0 /\ (m - 2) - 1 = m - 3 /\ m \in 2..16
    OBVIOUS
  <2> QED BY <2>1
<1>2. /\ ~SubstrThrows(PrintedDigits(number)) /\ l \in [1..(2 * pairs) -> Int]
      /\ \A k \in 0..(pairs - 1) : PairIs(number, l, k, FALSE)
  BY <1>1, CutDigits
<1>3. Len(l) = 2 * pairs /\ 2 * pairs \in Nat /\ l # <<>>
  <2> DEFINE n == 2 * pairs
  <2>1. n \in Nat /\ n > 0
    BY <1>1
  <2> HIDE DEF n
  <2>2. l \in [1..n -> Int]
    BY <1>2 DEF n
  <2> HIDE DEF l
  <2>3. Len(l) = n /\ l # <<>>
    BY <2>1, <2>2
  <2> QED BY <2>1, <2>3 DEF n
<1> HIDE DEF l
<1>4. /\ SwapsDone(l)[2 * pairs] \in [1..(2 * pairs) -> Int]
      /\ \A k \in 0..(pairs - 1) :
           PairIs(number, SwapsDone(l)[2 * pairs], k, ExchangedAfter(k, 2 * pairs))
  <2> HIDE DEF pairs
  <2>1. 2 * pairs \in 0..(2 * pairs)
    BY <1>3
  <2>2. \A t \in 0..(2 * pairs) :
          /\ SwapsDone(l)[t] \in [1..(2 * pairs) -> Int]
          /\ \A k \in 0..(pairs - 1) : PairIs(number, SwapsDone(l)[t], k, ExchangedAfter(k, t))
    BY <1>1, <1>2, SwapsPairs
  <2> QED BY <2>1, <2>2
<1>5. SwapAll(l) = NumberDigits(number)
  BY <1>1, <1>3, <1>4, AllExchanged DEF SwapAll
<1> QED BY <1>2, <1>3, <1>5 DEF ParseLine, EraseThrows, l

(* Of any other number parseNum makes nothing: the header of one of two    *)
(* octets is all there is.                                                 *)
LEMMA ParseLineRefuses ==
  ASSUME NEW number \in Seq(Byte), Len(number) \notin 3..16
  PROVE  ParseLine(number) = Aborted
<1> DEFINE l == Substr(PrintedDigits(number))
<1>1. CASE Len(number) \notin 2..16
  BY <1>1, CutRefuses, Zenon DEF ParseLine
<1>2. CASE Len(number) \in 2..16
  <2>1. Len(number) = 2
    BY <1>2
  <2>2. l \in [1..(2 * (Len(number) - 2)) -> Int]
    BY <1>2, CutDigits
  <2> HIDE DEF l
  <2>3. l \in [1..0 -> Int]
    BY <2>1, <2>2
  <2>4. l = <<>>
    BY <2>3
  <2> QED BY <2>4 DEF ParseLine, EraseThrows, l
<1> QED BY <1>1, <1>2

(* With the odd indicator these are the digits of the number, and there is *)
(* one at least.                                                           *)
LEMMA OddDigits ==
  ASSUME NEW number \in Seq(Byte), Len(number) \in 3..16, number[1] >= 128
  PROVE  /\ EraseLast(NumberDigits(number)) = CalledDigits(number)
         /\ CalledDigits(number) # <<>>
<1> DEFINE n == 2 * (Len(number) - 2)
           d == NumberDigits(number)
           e == EraseLast(d)
           c == CalledDigits(number)
<1>1. n \in Nat /\ n >= 2
  <2>1. \A m \in 3..16 : 2 * (m - 2) \in Nat /\ 2 * (m - 2) >= 2
    OBVIOUS
  <2> QED BY <2>1
<1>2. \A x \in 1..n : HalfOctet(number, x) \in Int
  <2> SUFFICES ASSUME NEW x \in 1..n PROVE HalfOctet(number, x) \in Int
    OBVIOUS
  <2>0. Len(number) \in Nat /\ n = 2 * (Len(number) - 2)
    OBVIOUS
  <2> HIDE DEF n
  <2>1. (x % 2 = 1 => 2 + (x + 1) \div 2 \in 1..Len(number)) /\ (x % 2 # 1 => 2 + x \div 2 \in 1..Len(number))
    BY <1>1, <2>0
  <2>2. \A y \in 1..Len(number) : number[y] \in 0..255
    BY ElementOfSeq DEF Byte
  <2>3. \A y \in 0..255 : y \div 16 \in Int /\ y % 16 \in Int
    OBVIOUS
  <2> QED BY <2>1, <2>2, <2>3 DEF HalfOctet
<1>3. d = [x \in 1..n |-> HalfOctet(number, x)]
  BY DEF NumberDigits
<1> HIDE DEF d
<1>4. d \in [1..n -> Int]
  BY <1>2, <1>3
<1>5. c = [x \in 1..(n - 1) |-> HalfOctet(number, x)]
  <2>1. \A x \in 1..(n - 1) : x % 2 # 1 => x \div 2 = (x + 1) \div 2
    BY <1>1
  <2>2. c = [x \in 1..(n - 1) |-> IF x % 2 = 1 THEN number[2 + (x + 1) \div 2] % 16
                                  ELSE number[2 + (x + 1) \div 2] \div 16]
    BY DEF CalledDigits
  <2> QED BY <2>1, <2>2 DEF HalfOctet
<1>6. e = [x \in 1..(n - 1) |-> HalfOctet(number, x)]
  <2> HIDE DEF n, e
  <2>1. d \in Seq(Int) /\ Len(d) = n
    BY <1>1, <1>4
  <2>2. e = SubSeq(d, 1, n - 1)
    BY <2>1 DEF EraseLast, e
  <2>3. e = [x \in 1..(n - 1) |-> d[x]]
    BY <1>1, <2>1, <2>2
  <2>4. \A x \in 1..(n - 1) : d[x] = HalfOctet(number, x)
    BY <1>1, <1>3
  <2> QED BY <2>3, <2>4
<1> HIDE DEF c, e, n
<1>7. c # <<>>
  <2>1. 1 \in DOMAIN c
    BY <1>1, <1>5
  <2> QED BY <2>1
<1> QED BY <1>5, <1>6, <1>7 DEF c, d, e

-----------------------------------------------------------------------------
(* A function on the numbers that is defined by its values at larger       *)
(* numbers, and without them from n on, exists.                            *)
Downwards(T, V, v, n) ==
  /\ v \in V /\ n \in Nat /\ T \in [[Nat -> V] -> [Nat -> V]]
  /\ \A f \in [Nat -> V] : \A k \in Nat : k >= n => T[f][k] = v
  /\ \A f, g \in [Nat -> V] : \A k \in Nat :
       (\A j \in Nat : j > k => f[j] = g[j]) => T[f][k] = T[g][k]

(* It is built up from n down to 0, by induction over how far down it      *)
(* goes.                                                                   *)
LEMMA DefinedDownwards ==
  ASSUME NEW T, NEW V, NEW v, NEW n, Downwards(T, V, v, n)
  PROVE  \E f \in [Nat -> V] : f = T[f]
<1> USE DEF Downwards
<1> DEFINE Fixed(f, b) == \A k \in Nat : k + b >= n => f[k] = T[f][k]
           S == {b \in Nat : \E f \in [Nat -> V] : Fixed(f, b)}
<1>1. 0 \in S
  <2> DEFINE f == [k \in Nat |-> v]
  <2>1. f \in [Nat -> V]
    OBVIOUS
  <2>2. ASSUME NEW k \in Nat, k + 0 >= n PROVE f[k] = T[f][k]
    <3>1. k >= n
      BY <2>2
    <3> QED BY <2>1, <3>1
  <2> QED BY <2>1, <2>2
<1>2. ASSUME NEW b \in S PROVE b + 1 \in S
  <2>1. PICK f \in [Nat -> V] : Fixed(f, b)
    OBVIOUS
  <2> DEFINE g == T[f]
  <2>2. g \in [Nat -> V]
    OBVIOUS
  <2>3. ASSUME NEW k \in Nat, k + (b + 1) >= n PROVE g[k] = T[g][k]
    <3>1. ASSUME NEW j \in Nat, j > k PROVE f[j] = g[j]
      <4>1. j + b >= n
        BY <2>3, <3>1
      <4> QED BY <2>1, <4>1
    <3> QED BY <2>2, <3>1
  <2>4. Fixed(g, b + 1)
    BY <2>3
  <2> QED BY <2>2, <2>4
<1>3. S = Nat
  <2>1. S \in SUBSET Nat
    OBVIOUS
  <2> HIDE DEF S
  <2> QED BY <1>1, <1>2, <2>1, NumbersAll
<1>4. PICK f \in [Nat -> V] : Fixed(f, n)
  BY <1>3
<1>5. \A k \in Nat : f[k] = T[f][k]
  <2>1. \A k \in Nat : k + n >= n
    OBVIOUS
  <2> QED BY <1>4, <2>1
<1>6. f = T[f]
  BY <1>5
<1> QED BY <1>6

-----------------------------------------------------------------------------
(* What is left of a message.                                              *)
LEMMA RestType ==
  ASSUME NEW S, NEW m \in Seq(S), NEW k \in Nat
  PROVE  SubSeq(m, k + 1, Len(m)) \in Seq(S)
<1>1. Len(m) \in Nat
  BY LenProperties
<1>2. \A i \in (k + 1)..Len(m) : m[i] \in S
  BY <1>1, ElementOfSeq
<1> QED BY <1>1, <1>2, SubSeqProperties

(* The sizes of tag, length and contents.                                  *)
LEMMA HeadSizes ==
  ASSUME NEW m, m[2] \in 0..127 \cup {129, 130}
  PROVE  /\ TlvHead(m) \in Nat /\ TlvHead(m) >= 2
         /\ m[2] = 129 => TlvHead(m) = 3
         /\ m[2] = 130 => TlvHead(m) = 4
BY DEF TlvHead

(* The length of an element is a number.                                   *)
LEMMA LengthSizes ==
  ASSUME NEW m, m[2] \in 0..127 \cup {129, 130},
         m[2] = 129 => m[3] \in 0..255,
         m[2] = 130 => m[3] \in 0..255 /\ m[4] \in 0..255
  PROVE  TlvLength(m) \in Nat
<1>1. CASE m[2] < 128
  BY <1>1 DEF TlvLength
<1>2. CASE m[2] = 129
  BY <1>2 DEF TlvLength
<1>3. CASE m[2] = 130
  <2> DEFINE x == m[3]
             y == m[4]
  <2>1. TlvLength(m) = 256 * x + y
    BY <1>3 DEF TlvLength
  <2>2. x \in 0..255 /\ y \in 0..255
    BY <1>3
  <2> HIDE DEF x, y
  <2> QED BY <2>1, <2>2
<1> QED BY <1>1, <1>2, <1>3

(* An element lies inside the message, and takes at least one octet.       *)
LEMMA TlvTakes ==
  ASSUME NEW m \in Seq(Byte), Tlv(m).ok
  PROVE  /\ TlvHead(m) + TlvLength(m) \in 1..Len(m)
         /\ Len(Tlv(m).octets) = TlvHead(m) + TlvLength(m)
<1> DEFINE h == TlvHead(m)
           n == TlvLength(m)
<1>0. Len(m) \in Nat
  BY LenProperties
<1>1. ~(\/ Len(m) < 2
        \/ m[2] \notin 0..127 \cup {129, 130}
        \/ Len(m) < h
        \/ Len(m) < h + n)
  <2>1. ~Malformed.ok
    BY DEF Malformed
  <2> QED BY <2>1 DEF Tlv
<1>2. Tlv(m).octets = SubSeq(m, 1, h + n)
  BY <1>1 DEF Tlv
<1>3. m[2] \in 0..127 \cup {129, 130}
  BY <1>1
<1>4. h \in Nat /\ h >= 2 /\ (m[2] = 129 => h = 3) /\ (m[2] = 130 => h = 4)
  BY <1>3, HeadSizes
<1>8. Len(m) >= 2 /\ Len(m) >= h
  <2> HIDE DEF h, n
  <2> QED BY <1>0, <1>1, <1>4
<1>9. /\ m[2] = 129 => m[3] \in Byte
      /\ m[2] = 130 => m[3] \in Byte /\ m[4] \in Byte
  <2> HIDE DEF h
  <2>1. m[2] = 129 => 3 \in 1..Len(m)
    BY <1>0, <1>4, <1>8
  <2>2. m[2] = 130 => 3 \in 1..Len(m) /\ 4 \in 1..Len(m)
    BY <1>0, <1>4, <1>8
  <2> QED BY <2>1, <2>2, ElementOfSeq
<1>5. n \in Nat
  <2>1. \A x \in Byte : x \in 0..255
    BY DEF Byte
  <2> QED BY <1>3, <1>9, <2>1, LengthSizes
<1> HIDE DEF h, n
<1>6. h + n \in 1..Len(m)
  BY <1>0, <1>1, <1>4, <1>5, <1>8
<1>7. Len(SubSeq(m, 1, h + n)) = h + n
  BY <1>6
<1> QED BY <1>2, <1>6, <1>7 DEF h, n

(* One turn of the walk along the elements of a message, with g for the    *)
(* walk itself, and the equation the walk obeys.                           *)
TlvsTurn(m, g, k) ==
  IF k >= Len(m) THEN <<>>
  ELSE IF Tlv(SubSeq(m, k + 1, Len(m))).ok
       THEN <<Tlv(SubSeq(m, k + 1, Len(m)))>> \o g[k + Len(Tlv(SubSeq(m, k + 1, Len(m))).octets)]
       ELSE <<Tlv(SubSeq(m, k + 1, Len(m)))>>

(* The walk over the elements obeys its recursion, from any octet on.      *)
LEMMA TlvsFromDefined ==
  ASSUME NEW m \in Seq(Byte)
  PROVE  \A k \in Nat : TlvsFrom(m)[k] = TlvsTurn(m, TlvsFrom(m), k)
<1> DEFINE E == {Tlv(s) : s \in Seq(Byte)}
           V == Seq(E)
           e(k) == Tlv(SubSeq(m, k + 1, Len(m)))
           T == [g \in [Nat -> V] |-> [k \in Nat |-> TlvsTurn(m, g, k)]]
           w == TlvsFrom(m)
<1>0. \A k \in Nat : SubSeq(m, k + 1, Len(m)) \in Seq(Byte)
  BY RestType
<1>1. \A k \in Nat : e(k) \in E
  BY <1>0
<1>2. \A k \in Nat : e(k).ok => k + Len(e(k).octets) \in Nat /\ k + Len(e(k).octets) > k
  <2> SUFFICES ASSUME NEW k \in Nat, e(k).ok
               PROVE  k + Len(e(k).octets) \in Nat /\ k + Len(e(k).octets) > k
    OBVIOUS
  <2>1. Len(e(k).octets) \in 1..Len(SubSeq(m, k + 1, Len(m)))
    BY <1>0, TlvTakes
  <2> HIDE DEF e
  <2> QED BY <2>1
<1>3. <<>> \in V
  OBVIOUS
<1>4. \A g \in [Nat -> V] : \A k \in Nat : TlvsTurn(m, g, k) \in V
  <2> SUFFICES ASSUME NEW g \in [Nat -> V], NEW k \in Nat PROVE TlvsTurn(m, g, k) \in V
    OBVIOUS
  <2>1. <<e(k)>> \in V
    <3>1. e(k) \in E
      BY <1>1
    <3> HIDE DEF e, E
    <3> QED BY <3>1
  <2>2. e(k).ok => <<e(k)>> \o g[k + Len(e(k).octets)] \in V
    <3> HIDE DEF e, E
    <3> QED BY <1>2, <2>1, ConcatProperties
  <2> HIDE DEF V
  <2> QED BY <1>3, <2>1, <2>2 DEF TlvsTurn
<1>5. T \in [[Nat -> V] -> [Nat -> V]]
  BY <1>4
<1>6. \A f, g \in [Nat -> V] : \A k \in Nat :
        (\A j \in Nat : j > k => f[j] = g[j]) => TlvsTurn(m, f, k) = TlvsTurn(m, g, k)
  BY <1>2 DEF TlvsTurn
<1>7. Len(m) \in Nat /\ \A g \in [Nat -> V] : \A k \in Nat : k >= Len(m) => TlvsTurn(m, g, k) = <<>>
  BY LenProperties DEF TlvsTurn
<1>8. \E f \in [Nat -> V] : f = T[f]
  <2>1. /\ \A f \in [Nat -> V] : \A k \in Nat : k >= Len(m) => T[f][k] = <<>>
        /\ \A f, g \in [Nat -> V] : \A k \in Nat :
             (\A j \in Nat : j > k => f[j] = g[j]) => T[f][k] = T[g][k]
    <3> HIDE DEF V
    <3> QED BY <1>6, <1>7
  <2> HIDE DEF T, V
  <2>2. Downwards(T, V, <<>>, Len(m))
    BY <1>3, <1>5, <1>7, <2>1 DEF Downwards
  <2> QED BY <2>2, DefinedDownwards
<1>9. PICK f \in [Nat -> V] : f = [k \in Nat |-> TlvsTurn(m, f, k)]
  <2> HIDE DEF V
  <2> QED BY <1>8
<1>10. w = [k \in Nat |-> TlvsTurn(m, w, k)]
  <2> HIDE DEF V
  <2> QED BY <1>9 DEF TlvsFrom, TlvsTurn
<1> QED BY <1>10

(* The same for the walk along the parameters of an M3UA message.          *)
LengthAtParameter(m, k) == 256 * m[k + 3] + m[k + 4]

ValueTurn(m, tag, g, k) ==
  IF k + 4 > Len(m) THEN <<>>
  ELSE IF LengthAtParameter(m, k) < 4 \/ k + LengthAtParameter(m, k) > Len(m) THEN <<>>
  ELSE IF SubSeq(m, k + 1, k + 2) = tag THEN SubSeq(m, k + 5, k + LengthAtParameter(m, k))
  ELSE g[k + LengthAtParameter(m, k) + Len(Padding(LengthAtParameter(m, k)))]

(* Padding is of less than four octets.                                    *)
LEMMA PaddingType ==
  ASSUME NEW n \in Nat
  PROVE  Padding(n) \in Seq(Byte) /\ Len(Padding(n)) = (4 - (n % 4)) % 4 /\ Len(Padding(n)) \in 0..3
<1> DEFINE z == (4 - (n % 4)) % 4
<1>1. z \in 0..3
  OBVIOUS
<1> HIDE DEF z
<1>2. Padding(n) = [x \in 1..z |-> 0]
  BY DEF Padding, Zeros, z
<1>3. Padding(n) \in Seq(Byte) /\ Len(Padding(n)) = z
  BY <1>1, <1>2 DEF Byte
<1> QED BY <1>1, <1>3 DEF z

(* The walk over the parameters obeys its recursion, from any octet on.    *)
LEMMA ValueFromDefined ==
  ASSUME NEW m \in Seq(Byte), NEW tag
  PROVE  \A k \in Nat : ValueFrom(m, tag)[k] = ValueTurn(m, tag, ValueFrom(m, tag), k)
<1> DEFINE V == Seq(Byte)
           len(k) == LengthAtParameter(m, k)
           after(k) == k + len(k) + Len(Padding(len(k)))
           T == [g \in [Nat -> V] |-> [k \in Nat |-> ValueTurn(m, tag, g, k)]]
           w == ValueFrom(m, tag)
<1>0. Len(m) \in Nat
  BY LenProperties
<1>1. \A k \in Nat : ~(k + 4 > Len(m)) => len(k) \in Nat
  <2> SUFFICES ASSUME NEW k \in Nat, ~(k + 4 > Len(m)) PROVE len(k) \in Nat
    OBVIOUS
  <2>1. m[k + 3] \in Byte /\ m[k + 4] \in Byte
    BY <1>0, ElementOfSeq
  <2>2. \A x, y \in Byte : 256 * x + y \in Nat
    BY DEF Byte
  <2> QED BY <2>1, <2>2 DEF LengthAtParameter
<1> HIDE DEF len
<1>2. \A k \in Nat : ~(k + 4 > Len(m)) /\ ~(len(k) < 4) => after(k) \in Nat /\ after(k) > k
  <2> SUFFICES ASSUME NEW k \in Nat, ~(k + 4 > Len(m)), ~(len(k) < 4)
               PROVE  after(k) \in Nat /\ after(k) > k
    OBVIOUS
  <2>1. len(k) \in Nat
    BY <1>1
  <2>2. Len(Padding(len(k))) \in 0..3
    BY <2>1, PaddingType
  <2> QED BY <2>1, <2>2
<1>3. <<>> \in V
  OBVIOUS
<1>4. \A g \in [Nat -> V] : \A k \in Nat : ValueTurn(m, tag, g, k) \in V
  <2> SUFFICES ASSUME NEW g \in [Nat -> V], NEW k \in Nat PROVE ValueTurn(m, tag, g, k) \in V
    OBVIOUS
  <2>1. ~(k + 4 > Len(m)) /\ ~(len(k) < 4) => g[after(k)] \in V
    <3> HIDE DEF V, after
    <3> QED BY <1>2
  <2>2. ~(k + 4 > Len(m)) /\ ~(len(k) < 4 \/ k + len(k) > Len(m)) => SubSeq(m, k + 5, k + len(k)) \in V
    <3> SUFFICES ASSUME ~(k + 4 > Len(m)), ~(len(k) < 4), ~(k + len(k) > Len(m))
                 PROVE  SubSeq(m, k + 5, k + len(k)) \in V
      OBVIOUS
    <3> DEFINE l == len(k)
               a == k + 5
               b == k + l
    <3>0. l \in Nat
      BY <1>1
    <3> HIDE DEF l
    <3>1. a \in Nat /\ b \in Nat /\ a >= 1
      BY <3>0
    <3>4. b <= Len(m)
      BY <1>0, <3>0 DEF l
    <3> HIDE DEF a, b
    <3>2. ASSUME NEW i \in a..b PROVE m[i] \in Byte
      <4>1. i \in 1..Len(m)
        BY <1>0, <3>1, <3>4
      <4> QED BY <4>1, ElementOfSeq
    <3>3. SubSeq(m, a, b) \in Seq(Byte)
      BY <3>1, <3>2, SubSeqProperties
    <3> QED BY <3>3 DEF a, b, l
  <2> HIDE DEF V
  <2> QED BY <1>3, <2>1, <2>2 DEF ValueTurn, len, after
<1>5. T \in [[Nat -> V] -> [Nat -> V]]
  BY <1>4
<1>6. \A f, g \in [Nat -> V] : \A k \in Nat :
        (\A j \in Nat : j > k => f[j] = g[j]) => ValueTurn(m, tag, f, k) = ValueTurn(m, tag, g, k)
  <2> SUFFICES ASSUME NEW f \in [Nat -> V], NEW g \in [Nat -> V], NEW k \in Nat,
                      \A j \in Nat : j > k => f[j] = g[j]
               PROVE  ValueTurn(m, tag, f, k) = ValueTurn(m, tag, g, k)
    OBVIOUS
  <2>1. ~(k + 4 > Len(m)) /\ ~(len(k) < 4) => f[after(k)] = g[after(k)]
    <3> HIDE DEF after
    <3> QED BY <1>2
  <2> QED BY <2>1 DEF ValueTurn, len, after
<1>7. \A g \in [Nat -> V] : \A k \in Nat : k >= Len(m) => ValueTurn(m, tag, g, k) = <<>>
  <2>1. \A k \in Nat : k >= Len(m) => k + 4 > Len(m)
    BY <1>0
  <2> QED BY <2>1 DEF ValueTurn
<1>8. \E f \in [Nat -> V] : f = T[f]
  <2>1. /\ \A f \in [Nat -> V] : \A k \in Nat : k >= Len(m) => T[f][k] = <<>>
        /\ \A f, g \in [Nat -> V] : \A k \in Nat :
             (\A j \in Nat : j > k => f[j] = g[j]) => T[f][k] = T[g][k]
    <3> HIDE DEF V
    <3> QED BY <1>6, <1>7
  <2> HIDE DEF T, V
  <2>2. Downwards(T, V, <<>>, Len(m))
    BY <1>0, <1>3, <1>5, <2>1 DEF Downwards
  <2> QED BY <2>2, DefinedDownwards
<1>9. PICK f \in [Nat -> V] : f = [k \in Nat |-> ValueTurn(m, tag, f, k)]
  <2> HIDE DEF V
  <2> QED BY <1>8
<1>10. w = [k \in Nat |-> ValueTurn(m, tag, w, k)]
  <2> DEFINE turn(g, k) ==
                LET l == 256 * m[k + 3] + m[k + 4]
                IN  IF k + 4 > Len(m) THEN <<>>
                    ELSE IF l < 4 \/ k + l > Len(m) THEN <<>>
                    ELSE IF SubSeq(m, k + 1, k + 2) = tag THEN SubSeq(m, k + 5, k + l)
                    ELSE g[k + l + Len(Padding(l))]
  <2>1. \A g : \A k \in Nat : turn(g, k) = ValueTurn(m, tag, g, k)
    BY DEF ValueTurn, LengthAtParameter
  <2>2. w = CHOOSE g : g = [k \in Nat |-> turn(g, k)]
    BY DEF ValueFrom
  <2> HIDE DEF V, w, turn
  <2>3. f = [k \in Nat |-> turn(f, k)]
    BY <1>9, <2>1
  <2>4. w = [k \in Nat |-> turn(w, k)]
    BY <2>2, <2>3
  <2> QED BY <2>1, <2>4
<1> QED BY <1>10

-----------------------------------------------------------------------------
(* The octets b are in m from octet k on.                                  *)
Holds(m, k, b) == k + Len(b) <= Len(m) /\ \A x \in 1..Len(b) : m[k + x] = b[x]

(* What is put first is there, and what is in the rest is behind it.       *)
LEMMA HoldsFirst ==
  ASSUME NEW S, NEW a \in Seq(S), NEW r \in Seq(S)
  PROVE  Holds(a \o r, 0, a) /\ Holds(a, 0, a)
<1>1. Len(a) \in Nat /\ Len(r) \in Nat /\ Len(a \o r) = Len(a) + Len(r)
  BY LenProperties, ConcatProperties
<1>2. \A x \in 1..Len(a) : (a \o r)[0 + x] = a[x]
  <2> SUFFICES ASSUME NEW x \in 1..Len(a) PROVE (a \o r)[0 + x] = a[x]
    OBVIOUS
  <2>1. 0 + x = x /\ x \in 1..(Len(a) + Len(r)) /\ x <= Len(a)
    BY <1>1
  <2> QED BY <2>1, ConcatProperties
<1> QED BY <1>1, <1>2 DEF Holds

(* What the rest holds, the whole holds behind what was put first.         *)
LEMMA HoldsRest ==
  ASSUME NEW S, NEW a \in Seq(S), NEW r \in Seq(S), NEW b \in Seq(S), NEW k \in Nat, Holds(r, k, b)
  PROVE  Holds(a \o r, Len(a) + k, b)
<1>1. /\ Len(a) \in Nat /\ Len(r) \in Nat /\ Len(b) \in Nat /\ Len(a \o r) = Len(a) + Len(r)
      /\ k + Len(b) <= Len(r)
  BY LenProperties, ConcatProperties DEF Holds
<1>2. \A x \in 1..Len(b) : (a \o r)[(Len(a) + k) + x] = b[x]
  <2> SUFFICES ASSUME NEW x \in 1..Len(b) PROVE (a \o r)[(Len(a) + k) + x] = b[x]
    OBVIOUS
  <2> DEFINE y == (Len(a) + k) + x
  <2>1. y \in 1..(Len(a) + Len(r)) /\ ~(y <= Len(a)) /\ y - Len(a) = k + x
    BY <1>1
  <2> HIDE DEF y
  <2>2. (a \o r)[y] = r[k + x]
    BY <2>1, ConcatProperties
  <2>3. r[k + x] = b[x]
    BY DEF Holds
  <2> QED BY <2>2, <2>3 DEF y
<1> QED BY <1>1, <1>2 DEF Holds

(* What is in a part is in the whole.                                      *)
LEMMA HoldsIn ==
  ASSUME NEW S, NEW m \in Seq(S), NEW b \in Seq(S), NEW c \in Seq(S), NEW k \in Nat, NEW j \in Nat,
         Holds(m, k, b), Holds(b, j, c)
  PROVE  Holds(m, k + j, c)
<1>1. /\ Len(m) \in Nat /\ Len(b) \in Nat /\ Len(c) \in Nat
      /\ k + Len(b) <= Len(m) /\ j + Len(c) <= Len(b)
  BY LenProperties DEF Holds
<1>2. \A x \in 1..Len(c) : m[(k + j) + x] = c[x]
  <2> SUFFICES ASSUME NEW x \in 1..Len(c) PROVE m[(k + j) + x] = c[x]
    OBVIOUS
  <2>1. j + x \in 1..Len(b) /\ (k + j) + x = k + (j + x)
    BY <1>1
  <2>2. m[k + (j + x)] = b[j + x] /\ b[j + x] = c[x]
    BY <2>1 DEF Holds
  <2> QED BY <2>1, <2>2
<1> QED BY <1>1, <1>2 DEF Holds

(* It is what SubSeq cuts out, and what Copy copies.                       *)
LEMMA HoldsCut ==
  ASSUME NEW S, NEW m \in Seq(S), NEW b \in Seq(S), NEW k \in Nat, Holds(m, k, b)
  PROVE  SubSeq(m, k + 1, k + Len(b)) = b
<1> DEFINE from == k + 1
           to   == k + Len(b)
           c    == SubSeq(m, from, to)
<1>1. Len(m) \in Nat /\ Len(b) \in Nat /\ to <= Len(m) /\ from \in Nat /\ from >= 1 /\ to \in Nat
  BY LenProperties DEF Holds
<1>2. to - from + 1 = Len(b) /\ (from <= to <=> Len(b) # 0)
      /\ \A x \in 1..Len(b) : from + x - 1 = k + x
  BY <1>1
<1> HIDE DEF from, to
<1>3. \A x \in from..to : m[x] \in S
  <2> SUFFICES ASSUME NEW x \in from..to PROVE m[x] \in S
    OBVIOUS
  <2>1. x \in 1..Len(m)
    BY <1>1
  <2> QED BY <2>1, ElementOfSeq
<1>4. /\ c \in Seq(S) /\ Len(c) = IF from <= to THEN to - from + 1 ELSE 0
      /\ \A x \in 1..(to - from + 1) : c[x] = m[from + x - 1]
  BY <1>1, <1>3, SubSeqProperties
<1>5. Len(c) = Len(b)
  BY <1>1, <1>2, <1>4
<1> HIDE DEF c
<1>6. \A x \in 1..Len(c) : c[x] = b[x]
  BY <1>2, <1>4, <1>5 DEF Holds
<1>7. c = b
  BY <1>4, <1>5, <1>6, SeqEqual
<1> QED BY <1>7 DEF c, from, to

(* A copying loop over octets the message holds yields them.               *)
LEMMA HoldsCopied ==
  ASSUME NEW m \in Seq(Byte), NEW b \in Seq(Byte), NEW k \in Nat, NEW h, Holds(m, k, b)
  PROVE  Copy(m, k, k + Len(b), h) = b
<1> DEFINE to == k + Len(b)
<1>1. Len(m) \in Nat /\ Len(b) \in Nat /\ to <= Len(m) /\ to \in Nat /\ k <= to
  BY LenProperties DEF Holds
<1>2. SubSeq(m, k + 1, to) = b
  BY HoldsCut
<1> HIDE DEF to
<1>3. Copy(m, k, to, h) = SubSeq(m, k + 1, to)
  BY <1>1, CopyInside
<1> QED BY <1>2, <1>3 DEF to

(* And its octets are those of m.                                          *)
Octets(m, k, b, h) ==
  \A x \in 0..(Len(b) - 1) :
    At(m, k + x, h) = b[x + 1] /\ m[k + x + 1] = b[x + 1] /\ k + x + 1 \in 1..Len(m)

(* An unchecked read of an octet the message holds yields it.              *)
LEMMA HoldsOctet ==
  ASSUME NEW S, NEW m \in Seq(S), NEW b \in Seq(S), NEW k \in Nat, NEW h, Holds(m, k, b)
  PROVE  Octets(m, k, b, h)
<1> SUFFICES ASSUME NEW x \in 0..(Len(b) - 1)
             PROVE  /\ At(m, k + x, h) = b[x + 1] /\ m[k + x + 1] = b[x + 1]
                    /\ k + x + 1 \in 1..Len(m)
  BY DEF Octets
<1>1. /\ Len(m) \in Nat /\ Len(b) \in Nat /\ k + Len(b) <= Len(m) /\ x + 1 \in 1..Len(b)
      /\ k + x < Len(m) /\ k + (x + 1) = k + x + 1 /\ (k + x) + 1 = k + x + 1
      /\ k + x + 1 \in 1..Len(m)
  BY LenProperties DEF Holds
<1>2. m[k + (x + 1)] = b[x + 1]
  BY <1>1 DEF Holds
<1> QED BY <1>1, <1>2 DEF At

-----------------------------------------------------------------------------
(* Of a message in which only octet p looks like the tag, decodePayload    *)
(* takes what follows octet p, and nothing else.                           *)
LEMMA OneTagTaken ==
  ASSUME NEW m \in Seq(Byte), NEW h \in Byte, NEW p \in Nat, p < Len(m), TagAt(m, p, h),
         \A k \in 0..(Len(m) - 1) : TagAt(m, k, h) => k = p
  PROVE  DecodePayload(m, h) = DataAt(m, p, h)
<1> DEFINE f == ScanFrom(m, h)
<1>0. Len(m) \in Nat
  BY LenProperties
<1>1. \A k \in Nat : f[k] = ScanTurn(m, h, f, k)
  BY ScanFromDefined
<1> HIDE DEF f
<1>2. \A k \in Nat : k > p => f[k] = NoData
  <2> DEFINE S == {n \in Nat : \A k \in Nat : k > p /\ k + n >= Len(m) => f[k] = NoData}
  <2>1. 0 \in S
    <3>1. ASSUME NEW k \in Nat, k + 0 >= Len(m) PROVE f[k] = NoData
      <4>1. k >= Len(m)
        BY <1>0, <3>1
      <4> QED BY <1>1, <4>1 DEF ScanTurn
    <3> QED BY <3>1
  <2>2. ASSUME NEW n \in S PROVE n + 1 \in S
    <3>1. ASSUME NEW k \in Nat, k > p, k + (n + 1) >= Len(m) PROVE f[k] = NoData
      <4>1. CASE k >= Len(m)
        BY <1>1, <4>1 DEF ScanTurn
      <4>2. CASE ~(k >= Len(m))
        <5>1. k \in 0..(Len(m) - 1) /\ k # p /\ k + 1 \in Nat /\ k + 1 > p /\ (k + 1) + n >= Len(m)
          BY <1>0, <3>1, <4>2
        <5>2. ~TagAt(m, k, h)
          BY <5>1
        <5>3. f[k] = f[k + 1]
          BY <1>1, <4>2, <5>2 DEF ScanTurn
        <5> QED BY <5>1, <5>3
      <4> QED BY <4>1, <4>2
    <3> QED BY <3>1
  <2>3. S = Nat
    <3>1. S \in SUBSET Nat
      OBVIOUS
    <3> HIDE DEF S
    <3> QED BY <2>1, <2>2, <3>1, NumbersAll
  <2>4. Len(m) \in S
    BY <1>0, <2>3
  <2> QED BY <1>0, <2>4
<1>3. f[p] = DataAt(m, p, h)
  <2>1. f[p] = Appended(DataAt(m, p, h), f[p + 17])
    <3>1. ~(p >= Len(m))
      BY <1>0
    <3> QED BY <1>1, <3>1 DEF ScanTurn
  <2>2. f[p + 17] = NoData
    <3>1. p + 17 \in Nat /\ p + 17 > p
      OBVIOUS
    <3> QED BY <1>2, <3>1
  <2>3. DataAt(m, p, h) \in Data
    BY DataAtType
  <2> QED BY <2>1, <2>2, <2>3, AppendedAssociative
<1>4. \A k \in Nat : k <= p => f[k] = f[p]
  <2> DEFINE S == {n \in Nat : \A k \in Nat : k <= p /\ k + n >= p => f[k] = f[p]}
  <2>1. 0 \in S
    <3>1. \A k \in Nat : k <= p /\ k + 0 >= p => k = p
      OBVIOUS
    <3> QED BY <3>1
  <2>2. ASSUME NEW n \in S PROVE n + 1 \in S
    <3>1. ASSUME NEW k \in Nat, k <= p, k + (n + 1) >= p PROVE f[k] = f[p]
      <4>1. CASE k # p
        <5>1. k \in 0..(Len(m) - 1) /\ ~(k >= Len(m)) /\ k + 1 \in Nat /\ k + 1 <= p /\ (k + 1) + n >= p
          BY <1>0, <3>1, <4>1
        <5>2. ~TagAt(m, k, h)
          BY <4>1, <5>1
        <5>3. f[k] = f[k + 1]
          BY <1>1, <5>1, <5>2 DEF ScanTurn
        <5> QED BY <5>1, <5>3
      <4> QED BY <4>1
    <3> QED BY <3>1
  <2>3. S = Nat
    <3>1. S \in SUBSET Nat
      OBVIOUS
    <3> HIDE DEF S
    <3> QED BY <2>1, <2>2, <3>1, NumbersAll
  <2>4. p \in S
    BY <2>3
  <2> QED BY <2>4
<1>5. f[0] = f[p]
  BY <1>4
<1> QED BY <1>3, <1>5 DEF f, DecodePayload

(* b is the field from the a-th to the z-th octet behind p.                *)
Field(m, p, a, z, b) == b \in Seq(Byte) /\ Holds(m, p + a, b) /\ z = a + Len(b)

(* A copying loop over a field of a message yields the field.              *)
LEMMA FieldCopied ==
  ASSUME NEW m \in Seq(Byte), NEW p \in Nat, NEW h
  PROVE  \A a \in Nat : \A z, b : Field(m, p, a, z, b) => Copy(m, p + a, p + z, h) = b
<1> SUFFICES ASSUME NEW a \in Nat, NEW z, NEW b, Field(m, p, a, z, b)
             PROVE  Copy(m, p + a, p + z, h) = b
  OBVIOUS
<1> DEFINE k == p + a
<1>1. k \in Nat /\ b \in Seq(Byte) /\ Len(b) \in Nat /\ p + z = k + Len(b) /\ Holds(m, k, b)
  BY LenProperties DEF Field
<1> HIDE DEF k
<1>2. Copy(m, k, k + Len(b), h) = b
  BY <1>1, HoldsCopied
<1> QED BY <1>1, <1>2 DEF k

(* With a Protocol Data parameter of less than 256 octets there, the       *)
(* members are the fields of its value.                                    *)
LEMMA ValueTaken ==
  ASSUME NEW m \in Seq(Byte), NEW h, NEW p \in Nat, NEW opc, NEW dpc, NEW si, NEW ni,
         NEW mp, NEW sls, NEW payload,
         Field(m, p, 4, 8, opc), Field(m, p, 8, 12, dpc), Field(m, p, 12, 13, si),
         Field(m, p, 13, 14, ni), Field(m, p, 14, 15, mp), Field(m, p, 15, 16, sls),
         Field(m, p, 16, At(m, p + 3, h), payload)
  PROVE  DataAt(m, p, h) = [opc |-> opc, dpc |-> dpc, si |-> si, ni |-> ni, mp |-> mp, sls |-> sls,
                            payload |-> payload]
<1>0. \A a \in Nat : \A z, b : Field(m, p, a, z, b) => Copy(m, p + a, p + z, h) = b
  BY FieldCopied
<1>1. /\ 4 \in Nat /\ 8 \in Nat /\ 12 \in Nat /\ 13 \in Nat /\ 14 \in Nat /\ 15 \in Nat /\ 16 \in Nat
  OBVIOUS
<1>2. Copy(m, p + 4, p + 8, h) = opc /\ Copy(m, p + 8, p + 12, h) = dpc
  BY <1>0, <1>1, Zenon
<1>3. Copy(m, p + 12, p + 13, h) = si /\ Copy(m, p + 13, p + 14, h) = ni
  BY <1>0, <1>1, Zenon
<1>4. Copy(m, p + 14, p + 15, h) = mp /\ Copy(m, p + 15, p + 16, h) = sls
  BY <1>0, <1>1, Zenon
<1>5. Copy(m, p + 16, p + At(m, p + 3, h), h) = payload
  BY <1>0, <1>1, Zenon
<1> QED BY <1>2, <1>3, <1>4, <1>5, Zenon DEF DataAt

-----------------------------------------------------------------------------
(* How the messages of the gateway are put together.                       *)
LEMMA BigEndianType ==
  ASSUME NEW n \in Nat
  PROVE  BigEndian32(n) \in Seq(Byte) /\ Len(BigEndian32(n)) = 4
<1> DEFINE a == (n \div 16777216) % 256
           b == (n \div 65536) % 256
           c == (n \div 256) % 256
           d == n % 256
<1>1. a \in Byte /\ b \in Byte /\ c \in Byte /\ d \in Byte
  BY DEF Byte
<1>2. BigEndian32(n) = <<a, b, c, d>>
  BY DEF BigEndian32
<1> HIDE DEF a, b, c, d
<1> QED BY <1>1, <1>2

(* Two octets and two are four.                                            *)
LEMMA TwoAndTwo ==
  ASSUME NEW S, NEW a \in S, NEW b \in S, NEW c \in S, NEW d \in S
  PROVE  <<a, b>> \o <<c, d>> = <<a, b, c, d>>
<1> DEFINE s == <<a, b>>
           t == <<c, d>>
           u == s \o t
           v == <<a, b, c, d>>
<1>1. /\ s \in Seq(S) /\ t \in Seq(S) /\ v \in Seq(S) /\ Len(s) = 2 /\ Len(t) = 2 /\ Len(v) = 4
      /\ s[1] = a /\ s[2] = b /\ t[1] = c /\ t[2] = d /\ v[1] = a /\ v[2] = b /\ v[3] = c /\ v[4] = d
  OBVIOUS
<1> HIDE DEF s, t, v
<1>2. /\ u \in Seq(S) /\ Len(u) = Len(s) + Len(t)
      /\ \A x \in 1..(Len(s) + Len(t)) : u[x] = IF x <= Len(s) THEN s[x] ELSE t[x - Len(s)]
  BY <1>1, ConcatProperties
<1> HIDE DEF u
<1>3. u[1] = s[1] /\ u[2] = s[2] /\ u[3] = t[1] /\ u[4] = t[2]
  BY <1>1, <1>2
<1>4. \A x \in 1..4 : u[x] = v[x]
  BY <1>1, <1>3
<1>5. Len(u) = Len(v)
  BY <1>1, <1>2
<1>6. u = v
  BY <1>1, <1>2, <1>4, <1>5, SeqEqual
<1> QED BY <1>6 DEF s, t, u, v

(* A parameter with one octet for its length.                              *)
LEMMA ShortParameter ==
  ASSUME NEW a \in Byte, NEW b \in Byte, NEW value \in Seq(Byte), Len(value) + 4 <= 255
  PROVE  /\ Parameter(<<a, b>>, value) = <<a, b, 0, Len(value) + 4>> \o (value \o Padding(Len(value)))
         /\ <<a, b, 0, Len(value) + 4>> \in Seq(Byte)
         /\ Parameter(<<a, b>>, value) \in Seq(Byte)
<1> DEFINE n == Len(value) + 4
           pad == Padding(Len(value))
           head == <<a, b, 0, n>>
<1>1. n \in Byte /\ n \div 256 = 0 /\ n % 256 = n /\ Len(value) \in Nat
  <2>1. Len(value) \in Nat
    BY LenProperties
  <2>2. \A x \in Nat : x + 4 <= 255 =>
          x + 4 \in 0..255 /\ (x + 4) \div 256 = 0 /\ (x + 4) % 256 = x + 4
    OBVIOUS
  <2> QED BY <2>1, <2>2, Zenon DEF Byte
<1>2. pad \in Seq(Byte)
  BY <1>1, PaddingType
<1>3. Parameter(<<a, b>>, value) = ((<<a, b>> \o <<0, n>>) \o value) \o pad
  BY <1>1 DEF Parameter
<1> HIDE DEF n, pad
<1>4. <<a, b>> \o <<0, n>> = head
  <2>1. 0 \in Byte
    BY DEF Byte
  <2> QED BY <1>1, <2>1, TwoAndTwo
<1>5. head \in Seq(Byte)
  BY <1>1 DEF Byte
<1> HIDE DEF head
<1>6. (head \o value) \o pad = head \o (value \o pad)
  BY <1>2, <1>5, ConcatAssociative
<1>7. head \o (value \o pad) \in Seq(Byte)
  BY <1>2, <1>5, ConcatProperties
<1> QED BY <1>3, <1>4, <1>5, <1>6, <1>7 DEF head, n, pad

(* Where the parts of a message with parameters r lie, and of one made of  *)
(* the parameters before and a short parameter.                            *)
LEMMA MessageParts ==
  ASSUME NEW class \in Byte, NEW type \in Byte, NEW r \in Seq(Byte)
  PROVE  LET m == M3uaMessage(class, type, r)
         IN  /\ m \in Seq(Byte) /\ Len(m) = 8 + Len(r)
             /\ Holds(m, 8, r) /\ Holds(m, 4, BigEndian32(Len(m)))
<1> DEFINE m == M3uaMessage(class, type, r)
           v == <<1, 0, class, type>>
           z == BigEndian32(Len(r) + 8)
           y == v \o z
<1>1. Len(r) \in Nat /\ Len(r) + 8 \in Nat
  BY LenProperties
<1>2. z \in Seq(Byte) /\ Len(z) = 4
  BY <1>1, BigEndianType
<1>3. v \in Seq(Byte) /\ Len(v) = 4
  BY DEF Byte
<1>4. m = (v \o z) \o r
  BY DEF M3uaMessage
<1> HIDE DEF v, z, m
<1>5. y \in Seq(Byte) /\ Len(y) = 8 /\ Holds(y, 4 + 0, z)
  <2>1. Holds(z, 0, z)
    BY <1>2, HoldsFirst
  <2>2. Holds(y, Len(v) + 0, z)
    BY <1>2, <1>3, <2>1, HoldsRest
  <2>3. y \in Seq(Byte) /\ Len(y) = Len(v) + Len(z)
    BY <1>2, <1>3, ConcatProperties
  <2> QED BY <1>2, <1>3, <2>2, <2>3
<1>6. m = y \o r
  BY <1>4
<1> HIDE DEF y
<1>7. m \in Seq(Byte) /\ Len(m) = Len(y) + Len(r)
  BY <1>5, <1>6, ConcatProperties
<1>8. Holds(m, Len(y) + 0, r)
  <2>1. Holds(r, 0, r)
    BY HoldsFirst
  <2> QED BY <1>5, <1>6, <2>1, HoldsRest
<1>9. Holds(m, 0 + 4, z)
  <2>1. Holds(m, 0, y)
    BY <1>5, <1>6, HoldsFirst
  <2>2. Holds(y, 4, z)
    BY <1>5
  <2> QED BY <1>2, <1>5, <1>7, <2>1, <2>2, HoldsIn
<1>10. Len(m) = 8 + Len(r) /\ Len(m) = Len(r) + 8
  BY <1>1, <1>5, <1>7
<1>11. Holds(m, 8, r) /\ Holds(m, 4, z)
  BY <1>5, <1>8, <1>9
<1>12. z = BigEndian32(Len(m))
  BY <1>10 DEF z
<1> QED BY <1>7, <1>10, <1>11, <1>12 DEF m

(* Where the parts of a DATA message are: the parameters before, the tag   *)
(* and length of Protocol Data, its value.                                 *)
LEMMA ParameterParts ==
  ASSUME NEW class \in Byte, NEW type \in Byte, NEW before \in Seq(Byte),
         NEW a \in Byte, NEW b \in Byte, NEW value \in Seq(Byte), Len(value) + 4 <= 255
  PROVE  LET m == M3uaMessage(class, type, before \o Parameter(<<a, b>>, value))
         IN  /\ m \in Seq(Byte)
             /\ Len(m) = ((8 + Len(before)) + 4) + (Len(value) + Len(Padding(Len(value))))
             /\ Holds(m, 8 + Len(before), <<a, b, 0, Len(value) + 4>>)
             /\ Holds(m, (8 + Len(before)) + 4, value)
             /\ Holds(m, 8, before)
<1> DEFINE par == Parameter(<<a, b>>, value)
           m == M3uaMessage(class, type, before \o par)
           head == <<a, b, 0, Len(value) + 4>>
           pad == Padding(Len(value))
           r == before \o par
<1>0. Len(value) \in Nat /\ Len(before) \in Nat /\ Len(head) = 4
  BY LenProperties
<1>1. par = head \o (value \o pad) /\ head \in Seq(Byte) /\ par \in Seq(Byte)
  BY ShortParameter
<1>2. pad \in Seq(Byte) /\ Len(pad) \in Nat
  BY <1>0, PaddingType
<1> HIDE DEF par, head, pad
<1>3. value \o pad \in Seq(Byte) /\ Len(value \o pad) = Len(value) + Len(pad)
  BY <1>2, ConcatProperties
<1>4. Holds(par, 0, head)
  BY <1>1, <1>3, HoldsFirst
<1>5. Holds(par, 4, value)
  <2>1. Holds(value \o pad, 0, value)
    BY <1>2, HoldsFirst
  <2>2. Holds(par, Len(head) + 0, value)
    BY <1>1, <1>3, <2>1, HoldsRest
  <2> QED BY <1>0, <2>2
<1>6. Len(par) = 4 + (Len(value) + Len(pad))
  <2>1. Len(par) = Len(head) + Len(value \o pad)
    BY <1>1, <1>3, ConcatProperties
  <2> QED BY <1>0, <1>3, <2>1
<1>7. r \in Seq(Byte) /\ Len(r) = Len(before) + Len(par)
  BY <1>1, ConcatProperties
<1>8. Holds(r, 0, before) /\ Holds(r, Len(before) + 0, head) /\ Holds(r, Len(before) + 4, value)
  BY <1>1, <1>4, <1>5, HoldsFirst, HoldsRest
<1>9. m \in Seq(Byte) /\ Len(m) = 8 + Len(r) /\ Holds(m, 8, r)
  <2> HIDE DEF r
  <2>1. m = M3uaMessage(class, type, r)
    BY DEF r
  <2> QED BY <1>7, <2>1, MessageParts
<1> HIDE DEF m, r
<1>10. Holds(m, 8 + 0, before) /\ Holds(m, 8 + (Len(before) + 0), head)
       /\ Holds(m, 8 + (Len(before) + 4), value)
  <2>1. 8 \in Nat /\ 0 \in Nat /\ Len(before) + 0 \in Nat /\ Len(before) + 4 \in Nat
    BY <1>0
  <2> QED BY <1>1, <1>7, <1>8, <1>9, <2>1, HoldsIn
<1>11. /\ 8 + 0 = 8 /\ 8 + (Len(before) + 0) = 8 + Len(before)
       /\ 8 + (Len(before) + 4) = (8 + Len(before)) + 4
  BY <1>0
<1>12. Len(m) = ((8 + Len(before)) + 4) + (Len(value) + Len(pad))
  BY <1>0, <1>2, <1>6, <1>7, <1>9
<1> QED BY <1>9, <1>10, <1>11, <1>12 DEF m, r, par, head, pad

(* The value of Protocol Data: the label, then the user data.              *)
LEMMA LabelParts ==
  ASSUME NEW opc \in Seq(Byte), NEW dpc \in Seq(Byte), NEW sio \in Seq(Byte), NEW udt \in Seq(Byte),
         Len(opc) = 4, Len(dpc) = 4, Len(sio) = 4
  PROVE  LET v == opc \o dpc \o sio \o udt
         IN  /\ v \in Seq(Byte) /\ Len(v) = 12 + Len(udt)
             /\ Holds(v, 0, opc) /\ Holds(v, 4, dpc) /\ Holds(v, 8, sio) /\ Holds(v, 12, udt)
<1> DEFINE a == opc \o dpc
           b == a \o sio
           v == b \o udt
<1>0. 0 \in Nat /\ 4 \in Nat /\ 8 \in Nat /\ 0 + 0 = 0 /\ 0 + 4 = 4 /\ 0 + 8 = 8 /\ Len(udt) \in Nat
  BY LenProperties
<1>1. a \in Seq(Byte) /\ Len(a) = 8 /\ Holds(a, 0, opc) /\ Holds(a, 4, dpc)
  <2>1. a \in Seq(Byte) /\ Len(a) = Len(opc) + Len(dpc)
    BY ConcatProperties
  <2>2. Holds(a, 0, opc) /\ Holds(dpc, 0, dpc)
    BY HoldsFirst
  <2>3. Holds(a, Len(opc) + 0, dpc)
    BY <2>2, HoldsRest
  <2> QED BY <2>1, <2>2, <2>3
<1> HIDE DEF a
<1>2. /\ b \in Seq(Byte) /\ Len(b) = 12
      /\ Holds(b, 0, opc) /\ Holds(b, 4, dpc) /\ Holds(b, 8, sio)
  <2>1. b \in Seq(Byte) /\ Len(b) = Len(a) + Len(sio)
    BY <1>1, ConcatProperties
  <2>2. Holds(b, 0, a) /\ Holds(sio, 0, sio)
    BY <1>1, HoldsFirst
  <2>3. Holds(b, Len(a) + 0, sio)
    BY <1>1, <2>2, HoldsRest
  <2> HIDE DEF b
  <2>4. Holds(b, 0 + 0, opc) /\ Holds(b, 0 + 4, dpc)
    BY <1>0, <1>1, <2>1, <2>2, HoldsIn
  <2> QED BY <1>0, <1>1, <2>1, <2>3, <2>4
<1> HIDE DEF b
<1>3. /\ v \in Seq(Byte) /\ Len(v) = 12 + Len(udt)
      /\ Holds(v, 0, opc) /\ Holds(v, 4, dpc) /\ Holds(v, 8, sio) /\ Holds(v, 12, udt)
  <2>1. v \in Seq(Byte) /\ Len(v) = Len(b) + Len(udt)
    BY <1>2, ConcatProperties
  <2>2. Holds(v, 0, b) /\ Holds(udt, 0, udt)
    BY <1>2, HoldsFirst
  <2>3. Holds(v, Len(b) + 0, udt)
    BY <1>2, <2>2, HoldsRest
  <2> HIDE DEF v
  <2>4. Holds(v, 0 + 0, opc) /\ Holds(v, 0 + 4, dpc) /\ Holds(v, 0 + 8, sio)
    BY <1>0, <1>2, <2>1, <2>2, HoldsIn
  <2> QED BY <1>0, <1>2, <2>1, <2>3, <2>4
<1> QED BY <1>3 DEF v, b, a

(* One octet of a part.                                                    *)
LEMMA HoldsOne ==
  ASSUME NEW m \in Seq(Byte), NEW b \in Seq(Byte), NEW k \in Nat, Holds(m, k, b),
         NEW x \in 0..(Len(b) - 1)
  PROVE  Holds(m, k + x, <<b[x + 1]>>) /\ <<b[x + 1]>> \in Seq(Byte)
<1> DEFINE c == <<b[x + 1]>>
<1>1. Len(b) \in Nat /\ x \in Nat /\ x + 1 \in 1..Len(b) /\ x + 1 <= Len(b)
  BY LenProperties
<1>2. c \in Seq(Byte) /\ Len(c) = 1 /\ c[1] = b[x + 1]
  BY <1>1, ElementOfSeq
<1> HIDE DEF c
<1>3. Holds(b, x, c)
  BY <1>1, <1>2 DEF Holds
<1>4. Holds(m, k + x, c)
  BY <1>1, <1>2, <1>3, HoldsIn
<1> QED BY <1>2, <1>4 DEF c

-----------------------------------------------------------------------------
(* decodePayload of a DATA message in which 02 10 is nowhere but at        *)
(* Protocol Data: the label and the user data that were put there.         *)
Members(opc, dpc, sio, udt) ==
  [opc |-> opc, dpc |-> dpc, si |-> <<sio[1]>>, ni |-> <<sio[2]>>, mp |-> <<sio[3]>>,
   sls |-> <<sio[4]>>, payload |-> udt]

(* From the tag of a Protocol Data parameter on, one turn of the loop      *)
(* takes its label and its user data.                                      *)
LEMMA LabelTaken ==
  ASSUME NEW m \in Seq(Byte), NEW h \in Byte, NEW p \in Nat,
         NEW opc \in Seq(Byte), NEW dpc \in Seq(Byte), NEW sio \in Seq(Byte), NEW udt \in Seq(Byte),
         Len(opc) = 4, Len(dpc) = 4, Len(sio) = 4,
         Holds(m, p + 4, opc \o dpc \o sio \o udt), At(m, p + 3, h) = 16 + Len(udt)
  PROVE  DataAt(m, p, h) = Members(opc, dpc, sio, udt)
<1> DEFINE v == opc \o dpc \o sio \o udt
           q == p + 4
<1>1. v \in Seq(Byte) /\ Holds(v, 0, opc) /\ Holds(v, 4, dpc) /\ Holds(v, 8, sio) /\ Holds(v, 12, udt)
  BY LabelParts
<1>2. /\ q \in Nat /\ 0 \in Nat /\ 4 \in Nat /\ 8 \in Nat /\ 12 \in Nat /\ p + 12 \in Nat
      /\ q + 0 = p + 4 /\ q + 4 = p + 8 /\ q + 8 = p + 12 /\ q + 12 = p + 16
      /\ (p + 12) + 0 = p + 12 /\ (p + 12) + 1 = p + 13 /\ (p + 12) + 2 = p + 14
      /\ (p + 12) + 3 = p + 15
  OBVIOUS
<1>3. Holds(m, q, v)
  OBVIOUS
<1> HIDE DEF v, q
<1>4. /\ Holds(m, q + 0, opc) /\ Holds(m, q + 4, dpc) /\ Holds(m, q + 8, sio)
      /\ Holds(m, q + 12, udt)
  BY <1>1, <1>2, <1>3, HoldsIn
<1>5. /\ Holds(m, p + 4, opc) /\ Holds(m, p + 8, dpc) /\ Holds(m, p + 12, sio)
      /\ Holds(m, p + 16, udt)
  BY <1>2, <1>4
<1>6. /\ Holds(m, (p + 12) + 0, <<sio[0 + 1]>>) /\ <<sio[0 + 1]>> \in Seq(Byte)
      /\ Holds(m, (p + 12) + 1, <<sio[1 + 1]>>) /\ <<sio[1 + 1]>> \in Seq(Byte)
      /\ Holds(m, (p + 12) + 2, <<sio[2 + 1]>>) /\ <<sio[2 + 1]>> \in Seq(Byte)
      /\ Holds(m, (p + 12) + 3, <<sio[3 + 1]>>) /\ <<sio[3 + 1]>> \in Seq(Byte)
  <2>1. \A x \in 0..3 : Holds(m, (p + 12) + x, <<sio[x + 1]>>) /\ <<sio[x + 1]>> \in Seq(Byte)
    <3> DEFINE k == p + 12
    <3>1. k \in Nat /\ Holds(m, k, sio) /\ Len(sio) - 1 = 3
      BY <1>2, <1>5
    <3> HIDE DEF k
    <3>2. \A x \in 0..(Len(sio) - 1) : Holds(m, k + x, <<sio[x + 1]>>) /\ <<sio[x + 1]>> \in Seq(Byte)
      BY <3>1, HoldsOne
    <3> QED BY <3>1, <3>2 DEF k
  <2>2. 0 \in 0..3 /\ 1 \in 0..3 /\ 2 \in 0..3 /\ 3 \in 0..3
    OBVIOUS
  <2> QED BY <2>1, <2>2, Zenon
<1>7. /\ Holds(m, p + 12, <<sio[1]>>) /\ Holds(m, p + 13, <<sio[2]>>)
      /\ Holds(m, p + 14, <<sio[3]>>) /\ Holds(m, p + 15, <<sio[4]>>)
      /\ <<sio[1]>> \in Seq(Byte) /\ <<sio[2]>> \in Seq(Byte)
      /\ <<sio[3]>> \in Seq(Byte) /\ <<sio[4]>> \in Seq(Byte)
  BY <1>2, <1>6
<1>8. Field(m, p, 4, 8, opc) /\ Field(m, p, 8, 12, dpc) /\ Field(m, p, 16, At(m, p + 3, h), udt)
  BY <1>5 DEF Field
<1>9. /\ Field(m, p, 12, 13, <<sio[1]>>) /\ Field(m, p, 13, 14, <<sio[2]>>)
      /\ Field(m, p, 14, 15, <<sio[3]>>) /\ Field(m, p, 15, 16, <<sio[4]>>)
  BY <1>7 DEF Field
<1> QED BY <1>8, <1>9, ValueTaken DEF Members

(* 02 10 is nowhere but at octet p.                                        *)
OnlyTagAt(m, p) ==
  /\ m[Len(m)] # 2
  /\ \A k \in 1..(Len(m) - 1) : m[k] = 2 /\ m[k + 1] = 16 => k = p + 1

(* If 02 10 is nowhere else, no other octet is taken for the tag.          *)
LEMMA NoOtherTag ==
  ASSUME NEW m \in Seq(Byte), NEW h \in Byte, NEW p \in Nat, OnlyTagAt(m, p),
         NEW k \in 0..(Len(m) - 1), TagAt(m, k, h)
  PROVE  k = p
<1> DEFINE n == Len(m)
<1>0. /\ n \in Nat /\ m[n] # 2 /\ k \in 0..(n - 1)
      /\ \A j \in 1..(n - 1) : m[j] = 2 /\ m[j + 1] = 16 => j = p + 1
  BY LenProperties DEF OnlyTagAt
<1>1. At(m, k, h) = 2 /\ At(m, k + 1, h) = 16
  BY DEF TagAt
<1>2. /\ k < n => At(m, k, h) = m[k + 1]
      /\ k + 1 < n => At(m, k + 1, h) = m[(k + 1) + 1]
  BY DEF At
<1> HIDE DEF n
<1>3. m[k + 1] = 2
  BY <1>0, <1>1, <1>2
<1>4. k + 1 # n
  BY <1>0, <1>3
<1>5. k + 1 \in 1..(n - 1) /\ m[(k + 1) + 1] = 16
  BY <1>0, <1>1, <1>2, <1>4
<1>6. k + 1 = p + 1
  BY <1>0, <1>3, <1>5
<1> QED BY <1>0, <1>6

(* The unchecked reads at the tag yield the tag and the low octet of the   *)
(* length.                                                                 *)
LEMMA HeadAt ==
  ASSUME NEW m \in Seq(Byte), NEW h \in Byte, NEW p \in Nat, NEW n \in Byte,
         Holds(m, p, <<2, 16, 0, n>>)
  PROVE  /\ At(m, p, h) = 2 /\ At(m, p + 1, h) = 16 /\ At(m, p + 3, h) = n
         /\ p < Len(m) /\ p + 4 <= Len(m)
<1> DEFINE head == <<2, 16, 0, n>>
<1>1. Len(m) \in Nat
  BY LenProperties
<1>2. head \in Seq(Byte) /\ Len(head) = 4 /\ head[1] = 2 /\ head[2] = 16 /\ head[4] = n
  BY DEF Byte
<1>3. Holds(m, p, head)
  OBVIOUS
<1> HIDE DEF head
<1>4. \A x \in 0..(Len(head) - 1) :
        At(m, p + x, h) = head[x + 1] /\ m[p + x + 1] = head[x + 1] /\ p + x + 1 \in 1..Len(m)
  <2>1. Octets(m, p, head, h)
    BY <1>2, <1>3, HoldsOctet
  <2> QED BY <2>1, Zenon DEF Octets
<1>5. 0 \in 0..(Len(head) - 1) /\ 1 \in 0..(Len(head) - 1) /\ 3 \in 0..(Len(head) - 1)
  BY <1>2
<1>6. /\ At(m, p + 0, h) = head[0 + 1] /\ p + 3 + 1 \in 1..Len(m)
      /\ At(m, p + 1, h) = head[1 + 1] /\ At(m, p + 3, h) = head[3 + 1]
  BY <1>4, <1>5, Zenon
<1>7. /\ 0 + 1 = 1 /\ 1 + 1 = 2 /\ 3 + 1 = 4 /\ p + 0 = p
      /\ p + 3 + 1 \in 1..Len(m) => p + 4 <= Len(m) /\ p < Len(m)
  BY <1>1
<1> QED BY <1>2, <1>6, <1>7

(* decodePayload of a message that holds one tag, with a label and user    *)
(* data behind it, takes these and nothing more.                           *)
LEMMA LabelledTaken ==
  ASSUME NEW m \in Seq(Byte), NEW h \in Byte, NEW p \in Nat, OnlyTagAt(m, p),
         NEW opc \in Seq(Byte), NEW dpc \in Seq(Byte), NEW sio \in Seq(Byte), NEW udt \in Seq(Byte),
         Len(opc) = 4, Len(dpc) = 4, Len(sio) = 4, 16 + Len(udt) \in Byte,
         Holds(m, p, <<2, 16, 0, 16 + Len(udt)>>), Holds(m, p + 4, opc \o dpc \o sio \o udt)
  PROVE  DecodePayload(m, h) = Members(opc, dpc, sio, udt)
<1> DEFINE n == 16 + Len(udt)
<1>1. n \in Byte /\ Holds(m, p, <<2, 16, 0, n>>)
  OBVIOUS
<1> HIDE DEF n
<1>2. At(m, p, h) = 2 /\ At(m, p + 1, h) = 16 /\ At(m, p + 3, h) = n /\ p < Len(m)
  BY <1>1, HeadAt
<1>3. TagAt(m, p, h)
  BY <1>2 DEF TagAt
<1>4. \A k \in 0..(Len(m) - 1) : TagAt(m, k, h) => k = p
  BY NoOtherTag
<1>5. DecodePayload(m, h) = DataAt(m, p, h)
  BY <1>2, <1>3, <1>4, OneTagTaken
<1>6. DataAt(m, p, h) = Members(opc, dpc, sio, udt)
  <2>1. At(m, p + 3, h) = 16 + Len(udt)
    BY <1>2 DEF n
  <2> QED BY <2>1, LabelTaken
<1> QED BY <1>5, <1>6

(* The same for the message as the gateway builds it.                      *)
Labelled(opc, dpc, sio, udt) ==
  /\ opc \in Seq(Byte) /\ dpc \in Seq(Byte) /\ sio \in Seq(Byte) /\ udt \in Seq(Byte)
  /\ Len(opc) = 4 /\ Len(dpc) = 4 /\ Len(sio) = 4 /\ 16 + Len(udt) \in Byte

IsData(m, before, opc, dpc, sio, udt) ==
  /\ m = M3uaMessage(1, 1, before \o Parameter(<<2, 16>>, opc \o dpc \o sio \o udt))
  /\ OnlyTagAt(m, 8 + Len(before))

TakesData(m, h, opc, dpc, sio, udt) == DecodePayload(m, h) = Members(opc, dpc, sio, udt)

(* So it takes from a DATA message with other parameters before Protocol   *)
(* Data what the gateway put there.                                        *)
LEMMA DataTaken ==
  ASSUME NEW before \in Seq(Byte), NEW h \in Byte,
         NEW opc, NEW dpc, NEW sio, NEW udt, Labelled(opc, dpc, sio, udt),
         NEW m, IsData(m, before, opc, dpc, sio, udt)
  PROVE  TakesData(m, h, opc, dpc, sio, udt)
<1> DEFINE v == opc \o dpc \o sio \o udt
           p == 8 + Len(before)
<1> USE DEF Labelled, IsData
<1>1. v \in Seq(Byte) /\ Len(v) = 12 + Len(udt)
  BY LabelParts
<1>2. Len(udt) \in Nat /\ Len(before) \in Nat
  BY LenProperties
<1>3. p \in Nat /\ OnlyTagAt(m, p)
  BY <1>2
<1>4. m = M3uaMessage(1, 1, before \o Parameter(<<2, 16>>, v))
  OBVIOUS
<1> HIDE DEF v
<1>5. 1 \in Byte /\ 2 \in Byte /\ 16 \in Byte /\ Len(v) + 4 <= 255 /\ Len(v) + 4 = 16 + Len(udt)
  <2>1. 1 \in Byte /\ 2 \in Byte /\ 16 \in Byte
    BY DEF Byte
  <2>2. \A x \in Nat : 16 + x \in Byte => (12 + x) + 4 <= 255 /\ (12 + x) + 4 = 16 + x
    BY DEF Byte
  <2>3. 16 + Len(udt) \in Byte
    OBVIOUS
  <2> QED BY <1>1, <1>2, <2>1, <2>2, <2>3, Zenon
<1> HIDE DEF Labelled, IsData
<1>6. m \in Seq(Byte) /\ Holds(m, p, <<2, 16, 0, Len(v) + 4>>) /\ Holds(m, p + 4, v)
  BY <1>1, <1>4, <1>5, ParameterParts
<1>7. Holds(m, p, <<2, 16, 0, 16 + Len(udt)>>) /\ Holds(m, p + 4, opc \o dpc \o sio \o udt)
  BY <1>5, <1>6 DEF v
<1> HIDE DEF p
<1> QED BY <1>3, <1>6, <1>7, LabelledTaken DEF Labelled, TakesData

-----------------------------------------------------------------------------
(* Putting octets behind others.                                           *)
LEMMA Behind ==
  ASSUME NEW a \in Seq(Byte), NEW b \in Seq(Byte)
  PROVE  /\ a \o b \in Seq(Byte) /\ Len(a \o b) = Len(a) + Len(b)
         /\ Holds(a \o b, Len(a), b)
         /\ \A x \in Seq(Byte) : \A k \in Nat : Holds(a, k, x) => Holds(a \o b, k, x)
<1> DEFINE y == a \o b
<1>1. y \in Seq(Byte) /\ Len(y) = Len(a) + Len(b) /\ Len(a) \in Nat
  BY ConcatProperties, LenProperties
<1>2. Holds(y, Len(a) + 0, b) /\ Holds(y, 0, a)
  <2>1. Holds(b, 0, b)
    BY HoldsFirst
  <2> QED BY <2>1, HoldsFirst, HoldsRest
<1> HIDE DEF y
<1>3. Holds(y, Len(a), b)
  BY <1>1, <1>2
<1>4. ASSUME NEW x \in Seq(Byte), NEW k \in Nat, Holds(a, k, x) PROVE Holds(y, k, x)
  <2>1. Holds(y, 0 + k, x)
    BY <1>1, <1>2, <1>4, HoldsIn
  <2> QED BY <2>1
<1> QED BY <1>1, <1>3, <1>4 DEF y

(* Two parts side by side.                                                 *)
LEMMA HoldsBoth ==
  ASSUME NEW m \in Seq(Byte), NEW a \in Seq(Byte), NEW b \in Seq(Byte), NEW k \in Nat,
         Holds(m, k, a), Holds(m, k + Len(a), b)
  PROVE  Holds(m, k, a \o b)
<1> DEFINE y == a \o b
<1>1. /\ Len(a) \in Nat /\ Len(b) \in Nat /\ Len(m) \in Nat
      /\ Len(y) = Len(a) + Len(b)
      /\ \A x \in 1..(Len(a) + Len(b)) : y[x] = IF x <= Len(a) THEN a[x] ELSE b[x - Len(a)]
  BY LenProperties, ConcatProperties
<1> HIDE DEF y
<1>2. k + Len(y) <= Len(m)
  BY <1>1 DEF Holds
<1>3. \A x \in 1..Len(y) : m[k + x] = y[x]
  <2> SUFFICES ASSUME NEW x \in 1..Len(y) PROVE m[k + x] = y[x]
    OBVIOUS
  <2>1. CASE x <= Len(a)
    <3>1. y[x] = a[x] /\ x \in 1..Len(a)
      BY <1>1, <2>1
    <3> QED BY <3>1 DEF Holds
  <2>2. CASE ~(x <= Len(a))
    <3> DEFINE z == x - Len(a)
    <3>1. z \in 1..Len(b) /\ (k + Len(a)) + z = k + x
      BY <1>1, <2>2
    <3>2. y[x] = b[z]
      BY <1>1, <2>2
    <3> HIDE DEF z
    <3>3. m[(k + Len(a)) + z] = b[z]
      BY <3>1 DEF Holds
    <3> QED BY <3>1, <3>2, <3>3
  <2> QED BY <2>1, <2>2
<1>4. Holds(m, k, y)
  BY <1>2, <1>3 DEF Holds
<1> QED BY <1>4 DEF y

(* Step by step: y is a with b behind it.                                  *)
AllKept(a, y) == \A x \in Seq(Byte) : \A k \in Nat : Holds(a, k, x) => Holds(y, k, x)

Grows(a, n, b, y) == y \in Seq(Byte) /\ Len(y) = n + Len(b) /\ Holds(y, n, b) /\ AllKept(a, y)

(* Putting octets behind others keeps these, and adds those.               *)
LEMMA Grow ==
  ASSUME NEW a \in Seq(Byte), NEW b \in Seq(Byte), NEW n, n = Len(a), NEW y, y = a \o b
  PROVE  Grows(a, n, b, y)
BY Behind DEF AllKept, Grows

(* What is kept twice is kept.                                             *)
LEMMA KeptLonger ==
  ASSUME NEW a, NEW b, NEW y, AllKept(a, b), AllKept(b, y)
  PROVE  AllKept(a, y)
BY DEF AllKept

(* The parts of a UDT message, and where they lie.                         *)
UdtHead(c, g) == <<9, 0, 3, 3 + c, (3 + c) + g>>

UdtIs(u, called, calling, data, c, g, d) ==
  /\ u \in Seq(Byte) /\ Len(u) = (8 + c) + (g + d)
  /\ Holds(u, 0, UdtHead(c, g))
  /\ Holds(u, 5, <<c>>) /\ Holds(u, 6, called) /\ Holds(u, 6 + c, <<g>>)
  /\ Holds(u, 7 + c, calling) /\ Holds(u, (7 + c) + g, <<d>>) /\ Holds(u, (8 + c) + g, data)

(* Where the parts of a UDT are: the pointers, the two addresses and the   *)
(* data, each behind its length.                                           *)
LEMMA UdtParts ==
  ASSUME NEW called \in Seq(Byte), NEW calling \in Seq(Byte), NEW data \in Seq(Byte),
         NEW c, NEW g, NEW d, c = Len(called), g = Len(calling), d = Len(data),
         (3 + c) + g \in Byte, d \in Byte
  PROVE  UdtIs(Udt(called, calling, data), called, calling, data, c, g, d)
<1> DEFINE u0 == UdtHead(c, g)
           u1 == u0 \o <<c>>
           u2 == u1 \o called
           u3 == u2 \o <<g>>
           u4 == u3 \o calling
           u5 == u4 \o <<d>>
           u6 == u5 \o data
<1>0. c \in Nat /\ g \in Nat /\ d \in Nat
  BY LenProperties
<1>1. c \in Byte /\ g \in Byte /\ d \in Byte /\ 3 + c \in Byte
  <2>1. \A x, y \in Nat : (3 + x) + y \in Byte => x \in Byte /\ y \in Byte /\ 3 + x \in Byte
    BY DEF Byte
  <2> QED BY <1>0, <2>1, Zenon
<1>2. /\ <<c>> \in Seq(Byte) /\ <<g>> \in Seq(Byte) /\ <<d>> \in Seq(Byte)
      /\ Len(<<c>>) = 1 /\ Len(<<g>>) = 1 /\ Len(<<d>>) = 1
  BY <1>1
<1>3. u0 \in Seq(Byte) /\ Len(u0) = 5 /\ Holds(u0, 0, u0)
  <2>1. 9 \in Byte /\ 0 \in Byte /\ 3 \in Byte
    BY DEF Byte
  <2>2. u0 \in Seq(Byte) /\ Len(u0) = 5
    BY <1>1, <2>1 DEF UdtHead
  <2> QED BY <2>2, HoldsFirst
<1>4. Udt(called, calling, data) = u6
  <2>1. UdtHead(c, g) = <<9, 0, 3, 3 + Len(called), 3 + Len(called) + Len(calling)>>
    BY DEF UdtHead
  <2> QED BY <2>1 DEF Udt
<1>5. /\ u1 = u0 \o <<c>> /\ u2 = u1 \o called /\ u3 = u2 \o <<g>> /\ u4 = u3 \o calling
      /\ u5 = u4 \o <<d>> /\ u6 = u5 \o data
  OBVIOUS
<1> HIDE DEF u0, u1, u2, u3, u4, u5, u6
<1>11. Grows(u0, 5, <<c>>, u1)
  BY <1>2, <1>3, <1>5, Grow
<1>12. Len(u1) = 6 /\ u1 \in Seq(Byte)
  BY <1>2, <1>11 DEF Grows
<1>13. Grows(u1, 6, called, u2)
  BY <1>5, <1>12, Grow
<1>14. Len(u2) = 6 + c /\ u2 \in Seq(Byte)
  BY <1>13 DEF Grows
<1>15. Grows(u2, 6 + c, <<g>>, u3)
  BY <1>2, <1>5, <1>14, Grow
<1>16. Len(u3) = 7 + c /\ u3 \in Seq(Byte)
  BY <1>0, <1>2, <1>15 DEF Grows
<1>17. Grows(u3, 7 + c, calling, u4)
  BY <1>5, <1>16, Grow
<1>18. Len(u4) = (7 + c) + g /\ u4 \in Seq(Byte)
  BY <1>17 DEF Grows
<1>19. Grows(u4, (7 + c) + g, <<d>>, u5)
  BY <1>2, <1>5, <1>18, Grow
<1>20. Len(u5) = (8 + c) + g /\ u5 \in Seq(Byte)
  BY <1>0, <1>2, <1>19 DEF Grows
<1>21. Grows(u5, (8 + c) + g, data, u6)
  BY <1>5, <1>20, Grow
<1>22. Len(u6) = (8 + c) + (g + d) /\ u6 \in Seq(Byte)
  BY <1>0, <1>21 DEF Grows
<1>23. AllKept(u4, u6) /\ AllKept(u3, u6) /\ AllKept(u2, u6) /\ AllKept(u1, u6) /\ AllKept(u0, u6)
  <2>1. AllKept(u4, u6)
    BY <1>19, <1>21, KeptLonger DEF Grows
  <2>2. AllKept(u3, u6)
    BY <1>17, <2>1, KeptLonger DEF Grows
  <2>3. AllKept(u2, u6)
    BY <1>15, <2>2, KeptLonger DEF Grows
  <2>4. AllKept(u1, u6)
    BY <1>13, <2>3, KeptLonger DEF Grows
  <2> QED BY <1>11, <2>1, <2>2, <2>3, <2>4, KeptLonger DEF Grows
<1>24. 0 \in Nat /\ 5 \in Nat /\ 6 \in Nat /\ 6 + c \in Nat /\ 7 + c \in Nat /\ (7 + c) + g \in Nat
  BY <1>0
<1>25. Holds(u6, 0, u0) /\ Holds(u6, 5, <<c>>) /\ Holds(u6, 6, called)
  BY <1>2, <1>3, <1>11, <1>13, <1>23, <1>24, Zenon DEF AllKept, Grows
<1>26. Holds(u6, 6 + c, <<g>>) /\ Holds(u6, 7 + c, calling) /\ Holds(u6, (7 + c) + g, <<d>>)
  BY <1>2, <1>15, <1>17, <1>19, <1>21, <1>23, <1>24, Zenon DEF AllKept, Grows
<1> QED BY <1>4, <1>21, <1>22, <1>25, <1>26 DEF UdtIs, Grows, u0

(* What the program cuts out of such a message: each address with the      *)
(* length octet of the parameter behind it.                                *)
LEMMA CopiedTo ==
  ASSUME NEW m \in Seq(Byte), NEW b \in Seq(Byte), NEW k \in Nat, NEW to, to = k + Len(b),
         NEW h, Holds(m, k, b)
  PROVE  Copy(m, k, to, h) = b
BY HoldsCopied

Addressed(called, calling, data, c, g, d) ==
  /\ called \in Seq(Byte) /\ calling \in Seq(Byte) /\ data \in Seq(Byte)
  /\ c \in Byte /\ g \in Byte /\ d \in Byte
  /\ c = Len(called) /\ g = Len(calling) /\ d = Len(data)

TakesSccp(u, h, called, calling, data, g, d) ==
  /\ SccpReadable(u) /\ SccpValid(u)
  /\ DecodeSccp(u, h) = [called |-> called \o <<g>>, calling |-> calling \o <<d>>, data |-> data]

(* decodeSccp of a UDT: the addresses, each with the octet behind it, and  *)
(* the data.                                                               *)
LEMMA SccpTaken ==
  ASSUME NEW called, NEW calling, NEW data, NEW c, NEW g, NEW d,
         Addressed(called, calling, data, c, g, d),
         NEW u, UdtIs(u, called, calling, data, c, g, d), NEW h \in Byte
  PROVE  TakesSccp(u, h, called, calling, data, g, d)
<1> DEFINE head == UdtHead(c, g)
           a == called \o <<g>>
           b == calling \o <<d>>
<1> USE DEF Addressed
<1>0. c \in Nat /\ g \in Nat /\ d \in Nat /\ u \in Seq(Byte) /\ Len(u) = (8 + c) + (g + d)
  <2>1. c \in Nat /\ g \in Nat /\ d \in Nat
    BY LenProperties
  <2> QED BY <2>1 DEF UdtIs
<1>1. /\ Len(head) = 5 /\ head[1] = 9 /\ head[3] = 3 /\ head[4] = 3 + c /\ head[5] = (3 + c) + g
      /\ Holds(u, 0, head)
  BY DEF UdtHead, UdtIs
<1> HIDE DEF head
<1>2. /\ At(u, 2, h) = 3 /\ At(u, 3, h) = 3 + c /\ At(u, 4, h) = (3 + c) + g /\ u[1] = 9
  <2>1. \A x \in 1..5 : u[0 + x] = head[x]
    BY <1>1 DEF Holds
  <2>2. u[1] = 9 /\ u[3] = 3 /\ u[4] = 3 + c /\ u[5] = (3 + c) + g
    <3>1. /\ 1 \in 1..5 /\ 3 \in 1..5 /\ 4 \in 1..5 /\ 5 \in 1..5
          /\ 0 + 1 = 1 /\ 0 + 3 = 3 /\ 0 + 4 = 4 /\ 0 + 5 = 5
      OBVIOUS
    <3>2. u[0 + 1] = head[1] /\ u[0 + 3] = head[3] /\ u[0 + 4] = head[4] /\ u[0 + 5] = head[5]
      BY <2>1, <3>1, Zenon
    <3> QED BY <1>1, <3>1, <3>2
  <2>3. 2 < Len(u) /\ 3 < Len(u) /\ 4 < Len(u) /\ 2 + 1 = 3 /\ 3 + 1 = 4 /\ 4 + 1 = 5
    BY <1>0
  <2>4. At(u, 2, h) = u[2 + 1] /\ At(u, 3, h) = u[3 + 1] /\ At(u, 4, h) = u[4 + 1]
    BY <2>3 DEF At
  <2> QED BY <2>2, <2>3, <2>4
<1>3. /\ <<g>> \in Seq(Byte) /\ <<d>> \in Seq(Byte) /\ Len(<<g>>) = 1 /\ Len(<<d>>) = 1
  OBVIOUS
<1>4. a \in Seq(Byte) /\ b \in Seq(Byte) /\ Len(a) = c + 1 /\ Len(b) = g + 1
  <2>1. Len(a) = Len(called) + Len(<<g>>) /\ Len(b) = Len(calling) + Len(<<d>>)
    BY <1>3, Behind
  <2> QED BY <1>3, <2>1, Behind
<1>5. Holds(u, 6, a) /\ Holds(u, 7 + c, b) /\ Holds(u, (8 + c) + g, data)
  <2>1. /\ Holds(u, 6, called) /\ Holds(u, 6 + c, <<g>>) /\ Holds(u, 7 + c, calling)
        /\ Holds(u, (7 + c) + g, <<d>>) /\ Holds(u, (8 + c) + g, data)
    BY DEF UdtIs
  <2>2. /\ 6 \in Nat /\ 7 + c \in Nat
        /\ Holds(u, 6 + Len(called), <<g>>) /\ Holds(u, (7 + c) + Len(calling), <<d>>)
    BY <1>0, <2>1
  <2> QED BY <1>0, <1>3, <2>1, <2>2, HoldsBoth
<1> HIDE DEF a, b
<1>6. /\ 3 + 3 = 6 /\ (3 + c) + 4 = 7 + c /\ ((3 + c) + g) + 5 = (8 + c) + g
      /\ 7 + c = 6 + (c + 1) /\ (8 + c) + g = (7 + c) + (g + 1)
      /\ Len(u) = ((8 + c) + g) + d
      /\ 6 \in Nat /\ 7 + c \in Nat /\ (8 + c) + g \in Nat
  BY <1>0
<1>7. Copy(u, 6, 7 + c, h) = a
  BY <1>0, <1>4, <1>5, <1>6, CopiedTo
<1>8. Copy(u, 7 + c, (8 + c) + g, h) = b
  <2> DEFINE k  == 7 + c
             to == (8 + c) + g
  <2>1. k \in Nat /\ to = k + Len(b) /\ Holds(u, k, b) /\ b \in Seq(Byte) /\ u \in Seq(Byte)
    BY <1>0, <1>4, <1>5, <1>6
  <2> HIDE DEF k, to
  <2>2. Copy(u, k, to, h) = b
    BY <2>1, CopiedTo
  <2> QED BY <2>2 DEF k, to
<1>9. Copy(u, (8 + c) + g, Len(u), h) = data
  BY <1>0, <1>5, <1>6, CopiedTo
<1>10. DecodeSccp(u, h) = [called |-> a, calling |-> b, data |-> data]
  <2>1. /\ At(u, 2, h) + 3 = 6 /\ At(u, 3, h) + 4 = 7 + c /\ At(u, 4, h) + 5 = (8 + c) + g
    BY <1>2, <1>6
  <2> QED BY <1>7, <1>8, <1>9, <2>1 DEF DecodeSccp
<1>11. u # <<>>
  BY <1>0, <1>6
<1> HIDE DEF Addressed
<1> QED BY <1>2, <1>10, <1>11 DEF SccpReadable, SccpValid, TakesSccp, a, b

(* What it puts back in: the same addresses without those octets.          *)
LEMMA AddressCut ==
  ASSUME NEW b \in Seq(Byte), NEW x \in Byte
  PROVE  LET a == b \o <<x>>
         IN  /\ a \in Seq(Byte) /\ a # <<>> /\ Len(a) = Len(b) + 1
             /\ SubSeq(a, 1, Len(b)) = b
<1> DEFINE a == b \o <<x>>
<1>1. Len(b) \in Nat /\ <<x>> \in Seq(Byte) /\ Len(<<x>>) = 1 /\ 0 \in Nat /\ 0 + 1 = 1 /\ 0 + Len(b) = Len(b)
  BY LenProperties
<1>2. a \in Seq(Byte) /\ Len(a) = Len(b) + Len(<<x>>) /\ Holds(a, 0, b)
  BY <1>1, Behind, HoldsFirst
<1> HIDE DEF a
<1>3. SubSeq(a, 0 + 1, 0 + Len(b)) = b
  BY <1>1, <1>2, HoldsCut
<1>4. Len(a) = Len(b) + 1 /\ a # <<>>
  BY <1>1, <1>2
<1> QED BY <1>1, <1>2, <1>3, <1>4 DEF a

(* An octet is stored as it is.                                            *)
LEMMA LowByteOf ==
  ASSUME NEW n \in Byte
  PROVE  LowByte(n) = n
BY DEF LowByte, Byte

(* encodeSccp drops the last octet of each address, and then writes the    *)
(* UDT the gateway would.                                                  *)
LEMMA SccpPut ==
  ASSUME NEW called \in Seq(Byte), NEW calling \in Seq(Byte), NEW data \in Seq(Byte),
         NEW x \in Byte, NEW y \in Byte,
         (3 + Len(called)) + Len(calling) \in Byte, Len(data) \in Byte
  PROVE  /\ SccpEncodable(called \o <<x>>, calling \o <<y>>)
         /\ EncodeSccp(data, called \o <<x>>, calling \o <<y>>) = Udt(called, calling, data)
<1> DEFINE a == called \o <<x>>
           b == calling \o <<y>>
           c == Len(called)
           g == Len(calling)
           d == Len(data)
<1>1. /\ a # <<>> /\ Len(a) = c + 1 /\ SubSeq(a, 1, c) = called
      /\ b # <<>> /\ Len(b) = g + 1 /\ SubSeq(b, 1, g) = calling
  BY AddressCut
<1>2. c \in Nat /\ g \in Nat /\ d \in Byte /\ (3 + c) + g \in Byte
  BY LenProperties
<1> HIDE DEF a, b, c, g, d
<1>3. Len(a) - 1 = c /\ Len(b) - 1 = g /\ Len(a) + 2 = 3 + c /\ g + (3 + c) = (3 + c) + g
  BY <1>1, <1>2
<1>4. LowByte(c) = c /\ LowByte(g) = g /\ LowByte(d) = d /\ LowByte(3 + c) = 3 + c
      /\ LowByte((3 + c) + g) = (3 + c) + g
  <2>1. \A i, j \in Nat : (3 + i) + j \in Byte => i \in Byte /\ j \in Byte /\ 3 + i \in Byte
    BY DEF Byte
  <2>2. c \in Byte /\ g \in Byte /\ 3 + c \in Byte
    BY <1>2, <2>1, Zenon
  <2> QED BY <1>2, <2>2, LowByteOf, Zenon
<1>5. EncodeSccp(data, a, b) =
        <<9, 0, 3, 3 + c, (3 + c) + g>> \o <<c>> \o called \o <<g>> \o calling \o <<d>> \o data
  BY <1>1, <1>3, <1>4, Zenon DEF EncodeSccp, d
<1>6. Udt(called, calling, data) =
        <<9, 0, 3, 3 + c, (3 + c) + g>> \o <<c>> \o called \o <<g>> \o calling \o <<d>> \o data
  BY DEF Udt, c, g, d
<1>7. SccpEncodable(a, b)
  BY <1>1 DEF SccpEncodable
<1> QED BY <1>5, <1>6, <1>7 DEF a, b

-----------------------------------------------------------------------------
(* encodeMsg writes the M3UA message the gateway would.                    *)

(* Octets may be put together in any order of grouping.                    *)
LEMMA Regrouped ==
  \A s, t, u \in Seq(Byte) : (s \o t) \o u = s \o (t \o u)
BY ConcatAssociative

Adds(s, e, t, n) ==
  /\ s \in Seq(Byte) /\ e \in Seq(Byte) /\ t \in Seq(Byte) /\ n = Len(s)
  /\ Len(e) = 1 /\ Len(t) = n + 1 /\ t[n + 1] = e[1] /\ \A k \in 1..n : t[k] = s[k]

(* push_back of one octet.                                                 *)
LEMMA OneMore ==
  ASSUME NEW s, NEW e, NEW t, NEW n, Adds(s, e, t, n)
  PROVE  s \o e = t
<1> USE DEF Adds
<1> DEFINE y == s \o e
<1>1. n \in Nat /\ Len(s) = n
  BY LenProperties
<1>2. /\ y \in Seq(Byte) /\ Len(y) = Len(s) + Len(e)
      /\ \A k \in 1..(Len(s) + Len(e)) : y[k] = IF k <= Len(s) THEN s[k] ELSE e[k - Len(s)]
  BY ConcatProperties
<1> HIDE DEF y
<1>3. \A k \in 1..(n + 1) : t[k] = y[k]
  <2> SUFFICES ASSUME NEW k \in 1..(n + 1) PROVE t[k] = y[k]
    OBVIOUS
  <2>1. CASE k <= n
    BY <1>1, <1>2, <2>1
  <2>2. CASE ~(k <= n)
    <3>1. k = n + 1 /\ k - n = 1
      BY <1>1, <2>2
    <3> QED BY <1>1, <1>2, <2>2, <3>1
  <2> QED BY <2>1, <2>2
<1>4. y = t
  BY <1>1, <1>2, <1>3, SeqEqual
<1> QED BY <1>4 DEF y

AddsFour(a, w, x, y, z) == a \o <<w>> \o <<x>> \o <<y>> \o <<z>> = a \o <<w, x, y, z>>

(* Four octets pushed one by one are pushed together.                      *)
LEMMA FourMore ==
  ASSUME NEW a \in Seq(Byte), NEW w \in Byte, NEW x \in Byte, NEW y \in Byte, NEW z \in Byte
  PROVE  AddsFour(a, w, x, y, z)
<1> DEFINE s1 == <<w>>
           s2 == <<w, x>>
           s3 == <<w, x, y>>
           s4 == <<w, x, y, z>>
           e2 == <<x>>
           e3 == <<y>>
           e4 == <<z>>
<1>1. /\ s1 \in Seq(Byte) /\ s2 \in Seq(Byte) /\ s3 \in Seq(Byte) /\ s4 \in Seq(Byte)
      /\ e2 \in Seq(Byte) /\ e3 \in Seq(Byte) /\ e4 \in Seq(Byte)
  OBVIOUS
<1>2. Adds(s1, e2, s2, 1)
  BY DEF Adds
<1>3. Adds(s2, e3, s3, 2)
  BY DEF Adds
<1>4. Adds(s3, e4, s4, 3)
  BY DEF Adds
<1> HIDE DEF s1, s2, s3, s4, e2, e3, e4
<1>5. s1 \o e2 = s2
  BY <1>2, OneMore, ZenonT(40)
<1>6. s2 \o e3 = s3
  BY <1>3, OneMore, ZenonT(40)
<1>7. s3 \o e4 = s4
  BY <1>4, OneMore, ZenonT(40)
<1>8. (a \o s1) \o e2 = a \o (s1 \o e2)
  BY <1>1, Regrouped, ZenonT(40)
<1>9. (a \o s2) \o e3 = a \o (s2 \o e3)
  BY <1>1, Regrouped, ZenonT(40)
<1>10. (a \o s3) \o e4 = a \o (s3 \o e4)
  BY <1>1, Regrouped, ZenonT(40)
<1>11. (((a \o s1) \o e2) \o e3) \o e4 = a \o s4
  BY <1>5, <1>6, <1>7, <1>8, <1>9, <1>10
<1> QED BY <1>11, Zenon DEF s1, s4, e2, e3, e4, AddsFour

(* A field of four octets is made of its octets.                           *)
LEMMA FourOctets ==
  ASSUME NEW b \in Seq(Byte), Len(b) = 4
  PROVE  /\ b = <<b[1], b[2], b[3], b[4]>>
         /\ b[1] \in Byte /\ b[2] \in Byte /\ b[3] \in Byte /\ b[4] \in Byte
<1>1. b[1] \in Byte /\ b[2] \in Byte /\ b[3] \in Byte /\ b[4] \in Byte
  <2>1. \A k \in 1..4 : b[k] \in Byte
    BY ElementOfSeq
  <2>2. 1 \in 1..4 /\ 2 \in 1..4 /\ 3 \in 1..4 /\ 4 \in 1..4
    OBVIOUS
  <2> QED BY <2>1, <2>2, Zenon
<1> DEFINE w == b[1]
           x == b[2]
           y == b[3]
           z == b[4]
           t == <<w, x, y, z>>
<1>2. w \in Byte /\ x \in Byte /\ y \in Byte /\ z \in Byte
  BY <1>1
<1>3. b[1] = w /\ b[2] = x /\ b[3] = y /\ b[4] = z
  OBVIOUS
<1> HIDE DEF w, x, y, z
<1>4. t \in Seq(Byte) /\ Len(t) = 4 /\ t[1] = w /\ t[2] = x /\ t[3] = y /\ t[4] = z
  BY <1>2
<1> HIDE DEF t
<1>5. \A k \in 1..4 : b[k] = t[k]
  BY <1>3, <1>4
<1>6. b = t
  BY <1>4, <1>5, SeqEqual
<1> QED BY <1>1, <1>6 DEF t, w, x, y, z

GroupsFour(r, h, b, z) == ((r \o h) \o b) \o z = r \o (h \o (b \o z))

(* Four parts of a message may be grouped from either end.                 *)
LEMMA FourGrouped ==
  ASSUME NEW r \in Seq(Byte), NEW h \in Seq(Byte), NEW b \in Seq(Byte), NEW z \in Seq(Byte)
  PROVE  GroupsFour(r, h, b, z)
<1>1. b \o z \in Seq(Byte)
  BY ConcatProperties
<1>2. r \o h \in Seq(Byte)
  BY ConcatProperties
<1>3. ((r \o h) \o b) \o z = (r \o h) \o (b \o z)
  BY <1>2, Regrouped, Zenon
<1>4. (r \o h) \o (b \o z) = r \o (h \o (b \o z))
  BY <1>1, Regrouped, ZenonT(40)
<1> QED BY <1>3, <1>4 DEF GroupsFour

(* The constant parameter: Routing Context 2.                              *)
Routing == Parameter(<<0, 6>>, <<0, 0, 0, 2>>)

(* The Routing Context the program writes before Protocol Data.            *)
LEMMA RoutingIs == Routing = <<0, 6, 0, 8, 0, 0, 0, 2>> /\ Routing \in Seq(Byte) /\ Len(Routing) = 8
<1> DEFINE v == <<0, 0, 0, 2>>
           h == <<0, 6, 0, 8>>
           r == <<0, 6, 0, 8, 0, 0, 0, 2>>
<1>1. /\ v \in Seq(Byte) /\ Len(v) = 4 /\ h \in Seq(Byte) /\ Len(h) = 4 /\ r \in Seq(Byte) /\ Len(r) = 8
      /\ 0 \in Byte /\ 6 \in Byte
      /\ v[1] = 0 /\ v[2] = 0 /\ v[3] = 0 /\ v[4] = 2 /\ h[1] = 0 /\ h[2] = 6 /\ h[3] = 0 /\ h[4] = 8
  BY DEF Byte
<1>2. r[1] = 0 /\ r[2] = 6 /\ r[3] = 0 /\ r[4] = 8 /\ r[5] = 0 /\ r[6] = 0 /\ r[7] = 0 /\ r[8] = 2
  OBVIOUS
<1>3. Len(v) + 4 <= 255 /\ Len(v) + 4 = 8
  BY <1>1
<1>4. Padding(Len(v)) = <<>>
  <2>1. 4 \in Nat /\ (4 - (4 % 4)) % 4 = 0
    OBVIOUS
  <2>2. Padding(4) \in Seq(Byte) /\ Len(Padding(4)) = 0
    BY <2>1, PaddingType
  <2> QED BY <1>1, <2>2, EmptySeq
<1>5. Parameter(<<0, 6>>, v) = <<0, 6, 0, Len(v) + 4>> \o (v \o <<>>)
  <2> HIDE DEF v, h, r
  <2>1. \A a, b \in Byte : \A t \in Seq(Byte) : Len(t) + 4 <= 255 =>
          Parameter(<<a, b>>, t) = <<a, b, 0, Len(t) + 4>> \o (t \o Padding(Len(t)))
    BY ShortParameter
  <2>2. Parameter(<<0, 6>>, v) = <<0, 6, 0, Len(v) + 4>> \o (v \o Padding(Len(v)))
    BY <1>1, <1>3, <2>1, Zenon
  <2> QED BY <1>4, <2>2, Zenon
<1>6. Parameter(<<0, 6>>, v) = h \o v
  <2>1. v \o <<>> = v
    BY <1>1, ConcatEmptySeq
  <2> QED BY <1>3, <1>5, <2>1, Zenon
<1> HIDE DEF v, h, r
<1>7. /\ h \o v \in Seq(Byte) /\ Len(h \o v) = Len(h) + Len(v)
      /\ \A k \in 1..(Len(h) + Len(v)) : (h \o v)[k] = IF k <= Len(h) THEN h[k] ELSE v[k - Len(h)]
  BY <1>1, ConcatProperties
<1>8. \A k \in 1..8 : (h \o v)[k] = r[k]
  <2> DEFINE c == h \o v
  <2>1. \A k \in 1..8 : c[k] = IF k <= 4 THEN h[k] ELSE v[k - 4]
    BY <1>1, <1>7
  <2> HIDE DEF c
  <2>2. c[1] = 0 /\ c[2] = 6 /\ c[3] = 0 /\ c[4] = 8
    BY <1>1, <2>1
  <2>3. c[5] = v[1] /\ c[6] = v[2] /\ c[7] = v[3] /\ c[8] = v[4]
    BY <2>1
  <2>4. \A k \in 1..8 : c[k] = r[k]
    BY <1>1, <1>2, <2>2, <2>3
  <2> QED BY <2>4 DEF c
<1>9. h \o v = r
  <2>1. Len(h \o v) = Len(r)
    BY <1>1, <1>7
  <2> QED BY <1>1, <1>7, <1>8, <2>1, SeqEqual
<1> QED BY <1>1, <1>6, <1>9 DEF Routing, r, v

(* SI, NI, MP and SLS put one by one are the octets they were taken from.  *)
LEMMA ServicePut ==
  ASSUME NEW a \in Seq(Byte), NEW b \in Seq(Byte), Len(b) = 4
  PROVE  a \o <<b[1]>> \o <<b[2]>> \o <<b[3]>> \o <<b[4]>> = a \o b
<1>1. b[1] \in Byte /\ b[2] \in Byte /\ b[3] \in Byte /\ b[4] \in Byte
  BY FourOctets
<1>2. AddsFour(a, b[1], b[2], b[3], b[4])
  BY <1>1, FourMore
<1>3. b = <<b[1], b[2], b[3], b[4]>>
  BY FourOctets
<1>4. a \o <<b[1], b[2], b[3], b[4]>> = a \o b
  BY <1>3, Zenon
<1> QED BY <1>2, <1>4, Zenon DEF AddsFour

(* Routing Context, tag, length, value and padding as encodeMsg writes     *)
(* them are the parameters the gateway would write.                        *)
LEMMA ParametersPut ==
  ASSUME NEW body \in Seq(Byte), Len(body) + 4 <= 255
  PROVE  Routing \o <<2, 16, 0, Len(body) + 4>> \o body \o Padding(Len(body))
           = Routing \o Parameter(<<2, 16>>, body)
<1> DEFINE h == <<2, 16, 0, Len(body) + 4>>
           z == Padding(Len(body))
<1>1. 2 \in Byte /\ 16 \in Byte /\ Routing \in Seq(Byte) /\ z \in Seq(Byte)
  BY LenProperties, RoutingIs, PaddingType DEF Byte
<1>2. h \in Seq(Byte)
  BY <1>1, ShortParameter
<1>4. Parameter(<<2, 16>>, body) = h \o (body \o z)
  BY <1>1, ShortParameter
<1> HIDE DEF h, z
<1>3. GroupsFour(Routing, h, body, z)
  BY <1>1, <1>2, FourGrouped
<1> QED BY <1>3, <1>4, Zenon DEF h, z, GroupsFour

FourEach(opc, dpc, sio) ==
  /\ opc \in Seq(Byte) /\ dpc \in Seq(Byte) /\ sio \in Seq(Byte)
  /\ Len(opc) = 4 /\ Len(dpc) = 4 /\ Len(sio) = 4

PutAs(body, sccp, opc, dpc, sio, udt) ==
  /\ EncodeMsg(sccp, Members(opc, dpc, sio, udt)) =
       M3uaMessage(1, 1, Routing \o Parameter(<<2, 16>>, body))
  /\ body \in Seq(Byte) /\ Len(body) = 12 + Len(sccp)

(* encodeMsg, the whole message: the length of the header counts the       *)
(* padding, that of the parameter does not.                                *)
LEMMA MessagePut ==
  ASSUME NEW opc, NEW dpc, NEW sio, FourEach(opc, dpc, sio), NEW sccp \in Seq(Byte), NEW udt,
         NEW body, body = opc \o dpc \o sio \o sccp, Len(body) + 4 <= 255
  PROVE  PutAs(body, sccp, opc, dpc, sio, udt)
<1>0. /\ opc \in Seq(Byte) /\ dpc \in Seq(Byte) /\ sio \in Seq(Byte)
      /\ Len(opc) = 4 /\ Len(dpc) = 4 /\ Len(sio) = 4
  BY DEF FourEach
<1> USE <1>0
<1> DEFINE a == opc \o dpc
           d == Members(opc, dpc, sio, udt)
           n == Len(body)
           h == <<2, 16, 0, n + 4>>
           z == Padding(n)
           tlvs == Routing \o h \o body \o z
<1>1. body \in Seq(Byte) /\ Len(body) = 12 + Len(sccp)
  BY LabelParts
<1>2. n \in Nat /\ Len(sccp) \in Nat
  BY <1>1, LenProperties
<1>3. d.opc \o d.dpc \o d.si \o d.ni \o d.mp \o d.sls \o sccp = body
  <2>1. a \in Seq(Byte)
    BY ConcatProperties
  <2> HIDE DEF a, d
  <2>2. a \o <<sio[1]>> \o <<sio[2]>> \o <<sio[3]>> \o <<sio[4]>> = a \o sio
    BY <2>1, ServicePut, Zenon
  <2>3. /\ d.opc = opc /\ d.dpc = dpc /\ d.si = <<sio[1]>> /\ d.ni = <<sio[2]>> /\ d.mp = <<sio[3]>>
        /\ d.sls = <<sio[4]>>
    BY DEF d, Members
  <2>4. d.opc \o d.dpc \o d.si \o d.ni \o d.mp \o d.sls \o sccp
          = (a \o <<sio[1]>> \o <<sio[2]>> \o <<sio[3]>> \o <<sio[4]>>) \o sccp
    BY <2>3, Zenon DEF a
  <2>5. (a \o sio) \o sccp = body
    BY Zenon DEF a
  <2> QED BY <2>2, <2>4, <2>5, Zenon
<1>4. body # <<>>
  BY <1>1, <1>2
<1>5. LowByte(n + 4) = n + 4
  <2>1. n + 4 \in Byte
    <3> HIDE DEF n
    <3>1. n + 4 <= 255
      BY DEF n
    <3> QED BY <1>2, <3>1 DEF Byte
  <2> QED BY <2>1, LowByteOf
<1>6. EncodeMsg(sccp, d) = CommonHeader(1, 1, Len(tlvs)) \o tlvs
  <2>1. Zeros((4 - (n % 4)) % 4) = z
    BY DEF Padding
  <2>2. Routing = <<0, 6, 0, 8, 0, 0, 0, 2>>
    BY RoutingIs
  <2> HIDE DEF d, z
  <2>3. EncodeMsg(sccp, d) =
          LET t == <<0, 6, 0, 8, 0, 0, 0, 2>> \o <<2, 16, 0, LowByte(n + 4)>> \o body \o
                   Zeros((4 - (n % 4)) % 4)
          IN  CommonHeader(1, 1, Len(t)) \o t
    BY <1>3, <1>4, Zenon DEF EncodeMsg, n
  <2> QED BY <1>5, <2>1, <2>2, <2>3, Zenon
<1>7. tlvs = Routing \o Parameter(<<2, 16>>, body)
  BY <1>1, ParametersPut, Zenon
<1>8. CommonHeader(1, 1, Len(tlvs)) \o tlvs = M3uaMessage(1, 1, tlvs)
  <2> HIDE DEF tlvs
  <2> QED BY DEF CommonHeader, M3uaMessage
<1> QED BY <1>1, <1>6, <1>7, <1>8 DEF PutAs

-----------------------------------------------------------------------------
(* How the gateway reads it: the walk passes over Routing Context and      *)
(* takes the value of Protocol Data.                                       *)
(* What the walk reads of a parameter at octet k: its tag and its length.  *)
HeadRead(m, k, tag, n) ==
  SubSeq(m, k + 1, k + 2) = tag /\ LengthAtParameter(m, k) = n /\ k + 4 <= Len(m)

(* A parameter of at least four octets in the message is read by its tag   *)
(* and length.                                                             *)
LEMMA TagCut ==
  ASSUME NEW m \in Seq(Byte), NEW b \in Seq(Byte), NEW k \in Nat, Holds(m, k, b), Len(b) >= 4
  PROVE  HeadRead(m, k, <<b[1], b[2]>>, 256 * b[3] + b[4])
<1>0. Len(m) \in Nat /\ Len(b) \in Nat /\ k + Len(b) <= Len(m)
  BY LenProperties DEF Holds
<1>1. m[k + 1] = b[1] /\ m[k + 2] = b[2] /\ m[k + 3] = b[3] /\ m[k + 4] = b[4]
  <2>1. \A x \in 1..Len(b) : m[k + x] = b[x]
    BY DEF Holds
  <2>2. 1 \in 1..Len(b) /\ 2 \in 1..Len(b) /\ 3 \in 1..Len(b) /\ 4 \in 1..Len(b)
    BY <1>0
  <2> QED BY <2>1, <2>2, Zenon
<1>2. k + 4 <= Len(m)
  BY <1>0
<1>3. SubSeq(m, k + 1, k + 2) = <<b[1], b[2]>>
  <2> DEFINE from == k + 1
             to == k + 2
             s == SubSeq(m, from, to)
             x == b[1]
             y == b[2]
             t == <<x, y>>
  <2>1. /\ from \in Nat /\ to \in Nat /\ from >= 1 /\ to <= Len(m) /\ from <= to
        /\ to - from + 1 = 2 /\ from + 1 - 1 = from /\ from + 2 - 1 = to
    BY <1>0
  <2>2. m[from] = x /\ m[to] = y
    BY <1>1
  <2> HIDE DEF from, to, x, y
  <2>3. \A i \in from..to : m[i] \in Byte
    <3> SUFFICES ASSUME NEW i \in from..to PROVE m[i] \in Byte
      OBVIOUS
    <3>1. i \in 1..Len(m)
      BY <1>0, <2>1
    <3> QED BY <3>1, ElementOfSeq
  <2>4. /\ s \in Seq(Byte) /\ Len(s) = 2 /\ \A i \in 1..2 : s[i] = m[from + i - 1]
    BY <2>1, <2>3, SubSeqProperties
  <2> HIDE DEF s
  <2>5. s[1] = x /\ s[2] = y
    BY <2>1, <2>2, <2>4
  <2>6. x \in Byte /\ y \in Byte
    BY <2>1, <2>2, <2>3
  <2>7. t \in Seq(Byte) /\ Len(t) = 2 /\ t[1] = x /\ t[2] = y
    BY <2>6
  <2> HIDE DEF t
  <2>8. \A i \in 1..2 : s[i] = t[i]
    BY <2>5, <2>7
  <2>9. s = t
    BY <2>4, <2>7, <2>8, SeqEqual
  <2> QED BY <2>9 DEF s, t, from, to, x, y
<1> QED BY <1>1, <1>2, <1>3 DEF LengthAtParameter, HeadRead

(* They are read where they were put.                                      *)
LEMMA HeadIs ==
  ASSUME NEW m \in Seq(Byte), NEW k \in Nat, NEW w \in Byte, NEW x \in Byte, NEW n \in Byte,
         Holds(m, k, <<w, x, 0, n>>)
  PROVE  HeadRead(m, k, <<w, x>>, n)
<1> DEFINE b == <<w, x, 0, n>>
<1>1. /\ b \in Seq(Byte) /\ Len(b) = 4 /\ b[1] = w /\ b[2] = x /\ b[3] = 0 /\ b[4] = n
  BY DEF Byte
<1>2. Holds(m, k, b)
  OBVIOUS
<1> HIDE DEF b
<1>3. HeadRead(m, k, <<b[1], b[2]>>, 256 * b[3] + b[4])
  <2>1. Len(b) >= 4
    BY <1>1
  <2> QED BY <1>1, <1>2, <2>1, TagCut, Zenon
<1>4. 256 * 0 + n = n
  BY DEF Byte
<1> QED BY <1>1, <1>3, <1>4, Zenon

(* The walk passes over Routing Context and stops at Protocol Data.        *)
LEMMA WalkRead ==
  ASSUME NEW m \in Seq(Byte), NEW body \in Seq(Byte), NEW n \in Nat, n = Len(body),
         HeadRead(m, 8, <<0, 6>>, 8), HeadRead(m, 16, <<2, 16>>, n + 4), Holds(m, 20, body)
  PROVE  ParameterValue(m, <<2, 16>>) = body
<1> DEFINE w == ValueFrom(m, <<2, 16>>)
<1>1. \A k \in Nat : w[k] = ValueTurn(m, <<2, 16>>, w, k)
  BY ValueFromDefined
<1> HIDE DEF w
<1>2. Len(m) \in Nat /\ 20 + n <= Len(m)
  BY LenProperties DEF Holds
<1>3. w[8] = w[16]
  <2>1. Len(Padding(8)) = 0
    BY PaddingType
  <2>2. SubSeq(m, 8 + 1, 8 + 2) # <<2, 16>> /\ LengthAtParameter(m, 8) = 8
    <3>1. SubSeq(m, 8 + 1, 8 + 2) = <<0, 6>> /\ LengthAtParameter(m, 8) = 8
      BY Zenon DEF HeadRead
    <3>2. <<0, 6>> # <<2, 16>>
      OBVIOUS
    <3> QED BY <3>1, <3>2, Zenon
  <2>3. ~(8 + 4 > Len(m)) /\ ~(8 < 4 \/ 8 + 8 > Len(m)) /\ 8 + 8 + 0 = 16 /\ 8 \in Nat
    BY <1>2
  <2>4. w[8] = ValueTurn(m, <<2, 16>>, w, 8)
    BY <1>1
  <2> QED BY <2>1, <2>2, <2>3, <2>4, Zenon DEF ValueTurn
<1>4. w[16] = body
  <2>1. SubSeq(m, 16 + 1, 16 + 2) = <<2, 16>> /\ LengthAtParameter(m, 16) = n + 4
    BY Zenon DEF HeadRead
  <2>2. 20 \in Nat
    OBVIOUS
  <2>3. SubSeq(m, 20 + 1, 20 + n) = body
    BY <2>2, HoldsCut, Zenon
  <2>4. /\ ~(16 + 4 > Len(m)) /\ ~(n + 4 < 4 \/ 16 + (n + 4) > Len(m))
        /\ 16 + 5 = 20 + 1 /\ 16 + (n + 4) = 20 + n /\ 16 \in Nat
    BY <1>2
  <2>5. w[16] = ValueTurn(m, <<2, 16>>, w, 16)
    BY <1>1, <2>4
  <2> QED BY <2>1, <2>3, <2>4, <2>5, Zenon DEF ValueTurn
<1> QED BY <1>3, <1>4, Zenon DEF ParameterValue, w

(* A message with these two parameters is read back.                       *)
LEMMA ParameterRead ==
  ASSUME NEW body \in Seq(Byte), Len(body) + 4 <= 255,
         NEW m, m = M3uaMessage(1, 1, Routing \o Parameter(<<2, 16>>, body))
  PROVE  /\ m \in Seq(Byte) /\ Len(m) = 20 + (Len(body) + Len(Padding(Len(body))))
         /\ ParameterValue(m, <<2, 16>>) = body
         /\ SubSeq(m, 5, 8) = BigEndian32(Len(m))
<1> DEFINE n == Len(body)
           r == Routing \o Parameter(<<2, 16>>, body)
<1>1. /\ 1 \in Byte /\ 2 \in Byte /\ 16 \in Byte /\ 0 \in Byte /\ 6 \in Byte /\ 8 \in Byte
      /\ Routing \in Seq(Byte)
  BY RoutingIs DEF Byte
<1>2. /\ M3uaMessage(1, 1, r) \in Seq(Byte)
      /\ Len(M3uaMessage(1, 1, r)) = ((8 + Len(Routing)) + 4) + (Len(body) + Len(Padding(Len(body))))
      /\ Holds(M3uaMessage(1, 1, r), 8 + Len(Routing), <<2, 16, 0, Len(body) + 4>>)
      /\ Holds(M3uaMessage(1, 1, r), (8 + Len(Routing)) + 4, body)
      /\ Holds(M3uaMessage(1, 1, r), 8, Routing)
  BY <1>1, ParameterParts, Zenon
<1>3. 8 + Len(Routing) = 16 /\ (8 + Len(Routing)) + 4 = 20
  BY RoutingIs
<1>4. m \in Seq(Byte) /\ Holds(m, 16, <<2, 16, 0, n + 4>>) /\ Holds(m, 20, body) /\ Holds(m, 8, Routing)
  BY <1>2, <1>3, Zenon
<1>5. Len(m) = 20 + (n + Len(Padding(n)))
  BY <1>2, <1>3, Zenon
<1>6. n \in Nat /\ n + 4 \in Byte
  <2>1. n \in Nat /\ n + 4 <= 255
    BY LenProperties
  <2> HIDE DEF n
  <2> QED BY <2>1 DEF Byte
<1>7. r \in Seq(Byte)
  <2>1. Parameter(<<2, 16>>, body) \in Seq(Byte)
    BY <1>1, ShortParameter, Zenon
  <2> QED BY <1>1, <2>1, ConcatProperties, Zenon
<1>8. SubSeq(m, 5, 8) = BigEndian32(Len(m))
  <2> DEFINE b == BigEndian32(Len(m))
  <2>1. Holds(m, 4, b)
    BY <1>1, <1>7, MessageParts, Zenon
  <2>2. b \in Seq(Byte) /\ Len(b) = 4
    BY <1>4, LenProperties, BigEndianType, Zenon
  <2>3. 4 \in Nat /\ 4 + 1 = 5 /\ 4 + 4 = 8
    OBVIOUS
  <2> HIDE DEF b, r
  <2>4. SubSeq(m, 4 + 1, 4 + Len(b)) = b
    BY <1>4, <2>1, <2>2, <2>3, HoldsCut, Zenon
  <2>5. SubSeq(m, 5, 8) = b
    BY <2>2, <2>3, <2>4, Zenon
  <2> QED BY <2>5 DEF b
<1> HIDE DEF n, r
<1>9. HeadRead(m, 8, <<0, 6>>, 8)
  <2>1. /\ Len(Routing) >= 4 /\ Routing[1] = 0 /\ Routing[2] = 6 /\ Routing[3] = 0 /\ Routing[4] = 8
        /\ 256 * 0 + 8 = 8 /\ 8 \in Nat
    BY RoutingIs
  <2>2. HeadRead(m, 8, <<Routing[1], Routing[2]>>, 256 * Routing[3] + Routing[4])
    BY <1>1, <1>4, <2>1, TagCut, Zenon
  <2> QED BY <2>1, <2>2, Zenon
<1>10. HeadRead(m, 16, <<2, 16>>, n + 4)
  BY <1>1, <1>4, <1>6, HeadIs
<1>11. ParameterValue(m, <<2, 16>>) = body
  BY <1>4, <1>6, <1>9, <1>10, WalkRead DEF n
<1> QED BY <1>4, <1>5, <1>8, <1>11, Zenon DEF n

(* A single octet of a message.                                            *)
LEMMA OneOctet ==
  ASSUME NEW m \in Seq(Byte), NEW k \in Nat, NEW n, Holds(m, k, <<n>>)
  PROVE  m[k + 1] = n /\ k + 1 <= Len(m)
<1> DEFINE b == <<n>>
<1>1. Len(b) = 1 /\ b[1] = n
  OBVIOUS
<1>2. Holds(m, k, b)
  OBVIOUS
<1> HIDE DEF b
<1>3. k + 1 <= Len(m) /\ \A x \in 1..1 : m[k + x] = b[x]
  BY <1>1, <1>2, Zenon DEF Holds
<1>4. 1 \in 1..1
  OBVIOUS
<1> QED BY <1>1, <1>3, <1>4, Zenon

(* Following a pointer of the UDT message leads to the parameter.          *)
LEMMA VariableRead ==
  ASSUME NEW u \in Seq(Byte), NEW p, NEW k \in Nat, NEW n \in Nat, NEW b \in Seq(Byte), Len(b) = n,
         p + u[p] = k + 1, Holds(u, k, <<n>>), Holds(u, k + 1, b)
  PROVE  Variable(u, p) = b
<1>1. u[k + 1] = n /\ k + 1 <= Len(u)
  BY OneOctet
<1>2. SubSeq(u, (k + 1) + 1, (k + 1) + n) = b
  <2>1. k + 1 \in Nat
    OBVIOUS
  <2> QED BY <2>1, HoldsCut, Zenon
<1>3. ~(k + 1 > Len(u))
  BY <1>1, LenProperties
<1> QED BY <1>1, <1>2, <1>3, Zenon DEF Variable

(* The three parameters of the UDT message.                                *)
ReadsUdt(u, called, calling, data) ==
  Variable(u, 3) = called /\ Variable(u, 4) = calling /\ Variable(u, 5) = data

(* The gateway reads in a UDT the addresses and the data put there.        *)
LEMMA UdtRead ==
  ASSUME NEW called \in Seq(Byte), NEW calling \in Seq(Byte), NEW data \in Seq(Byte),
         NEW c \in Nat, NEW g \in Nat, NEW d \in Nat,
         c = Len(called), g = Len(calling), d = Len(data),
         NEW u, UdtIs(u, called, calling, data, c, g, d)
  PROVE  ReadsUdt(u, called, calling, data)
<1>1. /\ u \in Seq(Byte) /\ Holds(u, 0, UdtHead(c, g))
      /\ Holds(u, 5, <<c>>) /\ Holds(u, 6, called) /\ Holds(u, 6 + c, <<g>>)
      /\ Holds(u, 7 + c, calling) /\ Holds(u, (7 + c) + g, <<d>>) /\ Holds(u, (8 + c) + g, data)
  BY DEF UdtIs
<1>2. u[3] = 3 /\ u[4] = 3 + c /\ u[5] = (3 + c) + g
  <2> DEFINE b == UdtHead(c, g)
  <2>1. Len(b) = 5 /\ b[3] = 3 /\ b[4] = 3 + c /\ b[5] = (3 + c) + g
    BY DEF UdtHead
  <2>2. Holds(u, 0, b)
    BY <1>1
  <2> HIDE DEF b
  <2>3. \A x \in 1..5 : u[0 + x] = b[x]
    BY <2>1, <2>2, Zenon DEF Holds
  <2>4. u[3] = b[3] /\ u[4] = b[4] /\ u[5] = b[5]
    BY <2>3
  <2> QED BY <2>1, <2>4, Zenon
<1>3. Variable(u, 3) = called
  <2>1. 3 + 3 = 5 + 1 /\ 5 + 1 = 6 /\ 5 \in Nat
    OBVIOUS
  <2> QED BY <1>1, <1>2, <2>1, VariableRead, Zenon
<1>4. Variable(u, 4) = calling
  <2>1. 4 + (3 + c) = (6 + c) + 1 /\ (6 + c) + 1 = 7 + c /\ 6 + c \in Nat
    OBVIOUS
  <2> QED BY <1>1, <1>2, <2>1, VariableRead, Zenon
<1>5. Variable(u, 5) = data
  <2>1. 5 + ((3 + c) + g) = ((7 + c) + g) + 1 /\ ((7 + c) + g) + 1 = (8 + c) + g /\ (7 + c) + g \in Nat
    OBVIOUS
  <2> QED BY <1>1, <1>2, <2>1, VariableRead, Zenon
<1> QED BY <1>3, <1>4, <1>5 DEF ReadsUdt

-----------------------------------------------------------------------------
(* How the gateway reads the elements of the TCAP message, of at most 255  *)
(* octets.                                                                 *)
Element(tag, c) == [ok |-> TRUE, tag |-> TagId(tag), content |-> c, octets |-> Der(tag, c)]

DerHead(n) == IF n < 128 THEN 2 ELSE 3

(* The octets of a short length, and how they are read.                    *)
LEMMA LengthIsOctets ==
  ASSUME NEW n \in Byte
  PROVE  /\ n \in Nat /\ DerLength(n) \in Seq(Byte)
         /\ n < 128 => DerLength(n) = <<n>>
         /\ ~(n < 128) => DerLength(n) = <<129, n>>
<1>0. n \in Nat /\ n <= 255 /\ 129 \in Byte
  BY DEF Byte
<1>1. n < 128 => DerLength(n) = <<n>>
  <2>1. n < 128 => n \notin 128..255
    BY <1>0
  <2> QED BY <2>1 DEF DerLength
<1>2. ~(n < 128) => DerLength(n) = <<129, n>>
  <2>1. ~(n < 128) => n \in 128..255
    BY <1>0
  <2> QED BY <2>1 DEF DerLength
<1>3. <<n>> \in Seq(Byte) /\ <<129, n>> \in Seq(Byte)
  BY <1>0
<1> QED BY <1>0, <1>1, <1>2, <1>3, Zenon

(* Where the parts of an element are.                                      *)
DerIs(e, tag, c) ==
  /\ e \in Seq(Byte) /\ Len(e) = DerHead(Len(c)) + Len(c) /\ DerHead(Len(c)) \in Nat
  /\ Holds(e, 0, <<tag>>) /\ Holds(e, 1, DerLength(Len(c))) /\ Holds(e, DerHead(Len(c)), c)

(* Where the parts of an element are.                                      *)
LEMMA DerParts ==
  ASSUME NEW tag \in Byte, NEW c \in Seq(Byte), Len(c) \in Byte
  PROVE  DerIs(Der(tag, c), tag, c)
<1> DEFINE n == Len(c)
           a == <<tag>> \o DerLength(n)
           e == a \o c
<1>1. n \in Byte /\ n \in Nat
  BY LenProperties
<1>2. a \in Seq(Byte) /\ Len(a) = DerHead(Len(c)) /\ DerHead(Len(c)) \in Nat
  <2> HIDE DEF n
  <2>1. 129 \in Byte
    BY DEF Byte
  <2>2. CASE n < 128
    <3>1. DerLength(n) = <<n>> /\ DerHead(Len(c)) = 2
      BY <1>1, <2>2, LengthIsOctets DEF DerHead, n
    <3>2. <<tag>> \in Seq(Byte) /\ <<n>> \in Seq(Byte) /\ Len(<<tag>>) = 1 /\ Len(<<n>>) = 1
      BY <1>1
    <3> QED BY <3>1, <3>2, ConcatProperties
  <2>3. CASE ~(n < 128)
    <3>1. DerLength(n) = <<129, n>> /\ DerHead(Len(c)) = 3
      BY <1>1, <2>3, LengthIsOctets DEF DerHead, n
    <3>2. <<tag>> \in Seq(Byte) /\ <<129, n>> \in Seq(Byte) /\ Len(<<tag>>) = 1 /\ Len(<<129, n>>) = 2
      BY <1>1, <2>1
    <3> QED BY <3>1, <3>2, ConcatProperties
  <2> QED BY <2>2, <2>3
<1>3. Der(tag, c) = e
  BY DEF Der
<1> HIDE DEF a
<1>4. Grows(a, DerHead(Len(c)), c, e)
  BY <1>2, Grow
<1>5. Grows(<<tag>>, 1, DerLength(n), a)
  <2>1. <<tag>> \in Seq(Byte) /\ 1 = Len(<<tag>>) /\ DerLength(n) \in Seq(Byte)
    BY <1>1, LengthIsOctets
  <2> DEFINE w == <<tag>>
  <2>2. a = w \o DerLength(n)
    BY DEF a
  <2> HIDE DEF w
  <2> QED BY <2>1, <2>2, Grow, Zenon DEF w
<1>6. Holds(e, 0, <<tag>>) /\ Holds(e, 1, DerLength(n))
  <2>1. 0 \in Nat /\ 1 \in Nat /\ <<tag>> \in Seq(Byte) /\ DerLength(n) \in Seq(Byte)
    BY <1>1, LengthIsOctets
  <2>2. Holds(<<tag>>, 0, <<tag>>)
    BY <2>1, HoldsFirst, Zenon
  <2> QED BY <1>4, <1>5, <2>1, <2>2, Zenon DEF Grows, AllKept
<1> HIDE DEF e
<1> QED BY <1>2, <1>3, <1>4, <1>6 DEF DerIs, Grows, n

(* Two octets of a message.                                                *)
LEMMA TwoOctets ==
  ASSUME NEW m \in Seq(Byte), NEW k \in Nat, NEW x, NEW y, Holds(m, k, <<x, y>>)
  PROVE  m[k + 1] = x /\ m[k + 2] = y
<1> DEFINE b == <<x, y>>
<1>1. Len(b) = 2 /\ b[1] = x /\ b[2] = y
  OBVIOUS
<1>2. Holds(m, k, b)
  OBVIOUS
<1> HIDE DEF b
<1>3. \A z \in 1..2 : m[k + z] = b[z]
  BY <1>1, <1>2, Zenon DEF Holds
<1>4. 1 \in 1..2 /\ 2 \in 1..2
  OBVIOUS
<1> QED BY <1>1, <1>3, <1>4, Zenon

(* Tag and length of the element, at the start of a message.               *)
StartsWith(m, tag, n) ==
  /\ m[1] = tag /\ m[2] \in 0..127 \cup {129, 130} /\ TlvHead(m) = DerHead(n)
  /\ TlvLength(m) = n

(* An element of less than 128 octets has its length in one octet;         *)
LEMMA ShortStart ==
  ASSUME NEW m, NEW tag, NEW n \in Byte, m[1] = tag, n < 128, m[2] = n
  PROVE  StartsWith(m, tag, n)
<1>1. n # 129 /\ n # 130 /\ n \in 0..127
  BY DEF Byte
<1> QED BY <1>1 DEF StartsWith, DerHead, TlvHead, TlvLength

(* one of 128 octets and more has it behind the octet 129;                 *)
LEMMA LongStart ==
  ASSUME NEW m, NEW tag, NEW n \in Byte, m[1] = tag, ~(n < 128), m[2] = 129, m[3] = n
  PROVE  StartsWith(m, tag, n)
BY DEF StartsWith, DerHead, TlvHead, TlvLength

(* and so the length is read either way as it was written.                 *)
LEMMA DerStart ==
  ASSUME NEW m \in Seq(Byte), NEW tag \in Byte, NEW n \in Byte,
         Holds(m, 0, <<tag>>), Holds(m, 1, DerLength(n))
  PROVE  StartsWith(m, tag, n)
<1>1. m[1] = tag
  <2>1. 0 \in Nat /\ 0 + 1 = 1
    OBVIOUS
  <2>2. m[0 + 1] = tag
    BY <2>1, OneOctet, Zenon
  <2> QED BY <2>1, <2>2, Zenon
<1>2. ASSUME n < 128 PROVE m[2] = n
  <2>1. 1 \in Nat /\ 1 + 1 = 2
    OBVIOUS
  <2>2. Holds(m, 1, <<n>>)
    BY <1>2, LengthIsOctets, Zenon
  <2>3. m[1 + 1] = n
    BY <2>1, <2>2, OneOctet, Zenon
  <2> QED BY <2>1, <2>3, Zenon
<1>3. ASSUME ~(n < 128) PROVE m[2] = 129 /\ m[3] = n
  <2>1. 1 \in Nat /\ 1 + 1 = 2 /\ 1 + 2 = 3
    OBVIOUS
  <2>2. Holds(m, 1, <<129, n>>)
    BY <1>3, LengthIsOctets, Zenon
  <2>3. m[1 + 1] = 129 /\ m[1 + 2] = n
    BY <2>1, <2>2, TwoOctets
  <2> QED BY <2>1, <2>3, Zenon
<1>4. CASE n < 128
  BY <1>1, <1>2, <1>4, ShortStart, Zenon
<1>5. CASE ~(n < 128)
  BY <1>1, <1>3, <1>5, LongStart
<1> QED BY <1>4, <1>5

(* The element at the start of a message is read.                          *)
LEMMA DerFirst ==
  ASSUME NEW m \in Seq(Byte), NEW tag \in Byte, NEW c \in Seq(Byte), Len(c) \in Byte,
         Holds(m, 0, Der(tag, c))
  PROVE  Tlv(m) = Element(tag, c)
<1> DEFINE e == Der(tag, c)
           n == Len(c)
           k == DerHead(Len(c))
<1>1. DerIs(e, tag, c)
  BY DerParts
<1>2. n \in Byte /\ n \in Nat /\ k \in Nat /\ k >= 2
  <2>1. k >= 2
    BY DEF DerHead
  <2> QED BY <1>1, <2>1, LenProperties DEF DerIs
<1> HIDE DEF e, n, k
<1>3. e \in Seq(Byte) /\ Len(e) = k + n /\ Holds(m, 0, e)
  BY <1>1 DEF DerIs, e, k, n
<1>4. Holds(m, 0, <<tag>>) /\ Holds(m, 1, DerLength(n)) /\ Holds(m, k, c)
  <2>1. DerLength(n) \in Seq(Byte)
    BY <1>2, LengthIsOctets, Zenon
  <2>2. <<tag>> \in Seq(Byte)
    OBVIOUS
  <2>3. Holds(e, 0, <<tag>>) /\ Holds(e, 1, DerLength(n)) /\ Holds(e, k, c)
    BY <1>1 DEF DerIs, k, n
  <2>4. 0 \in Nat /\ 1 \in Nat /\ 0 + 0 = 0 /\ 0 + 1 = 1 /\ 0 + k = k
    BY <1>2
  <2> HIDE DEF e
  <2>5. Holds(m, 0 + 0, <<tag>>)
    BY <1>3, <2>2, <2>3, <2>4, HoldsIn, Zenon
  <2>6. Holds(m, 0 + 1, DerLength(n))
    BY <1>3, <2>1, <2>3, <2>4, HoldsIn, Zenon
  <2>7. Holds(m, 0 + k, c)
    BY <1>2, <1>3, <2>3, <2>4, HoldsIn, Zenon
  <2> QED BY <2>4, <2>5, <2>6, <2>7, Zenon
<1>5. StartsWith(m, tag, n)
  BY <1>2, <1>4, DerStart
<1>6. Len(m) \in Nat /\ k + n <= Len(m)
  <2>1. 0 + Len(e) <= Len(m)
    BY <1>3, Zenon DEF Holds
  <2> QED BY <1>2, <1>3, <2>1, LenProperties
<1>7. SubSeq(m, k + 1, k + n) = c
  BY <1>2, <1>4, HoldsCut, Zenon DEF n
<1>8. SubSeq(m, 1, k + n) = e
  <2>1. 0 \in Nat /\ 0 + 1 = 1 /\ 0 + (k + n) = k + n
    BY <1>2
  <2>2. SubSeq(m, 0 + 1, 0 + Len(e)) = e
    BY <1>3, <2>1, HoldsCut, Zenon
  <2> QED BY <1>3, <2>1, <2>2, Zenon
<1>9. /\ ~(Len(m) < 2) /\ ~(Len(m) < k) /\ ~(Len(m) < k + n)
  BY <1>2, <1>6
<1>10. /\ m[1] = tag /\ ~(m[2] \notin 0..127 \cup {129, 130}) /\ TlvHead(m) = k /\ TlvLength(m) = n
  BY <1>5, Zenon DEF StartsWith, k, n
<1> QED BY <1>7, <1>8, <1>9, <1>10, Zenon DEF Tlv, Element, e

(* A message that starts with e is read to start with the element x.       *)
ReadAs(e, x) ==
  /\ e \in Seq(Byte) /\ Len(e) >= 1 /\ x.ok /\ Len(x.octets) = Len(e)
  /\ \A m \in Seq(Byte) : Holds(m, 0, e) => Tlv(m) = x

(* An element is read as it was written, from what follows it too.         *)
LEMMA DerRead ==
  ASSUME NEW tag \in Byte, NEW c \in Seq(Byte), Len(c) \in Byte
  PROVE  ReadAs(Der(tag, c), Element(tag, c))
<1> DEFINE e == Der(tag, c)
           x == Element(tag, c)
<1>1. e \in Seq(Byte) /\ Len(e) >= 1
  <2>1. DerHead(Len(c)) >= 2 /\ Len(c) \in Nat
    BY LenProperties DEF DerHead
  <2>2. e \in Seq(Byte) /\ Len(e) = DerHead(Len(c)) + Len(c) /\ DerHead(Len(c)) \in Nat
    BY DerParts DEF DerIs
  <2> HIDE DEF e
  <2> QED BY <2>1, <2>2
<1>2. \A m \in Seq(Byte) : Holds(m, 0, e) => Tlv(m) = x
  BY DerFirst
<1>3. x.ok /\ Len(x.octets) = Len(e)
  BY DEF Element
<1> HIDE DEF e, x
<1>4. ReadAs(e, x)
  BY <1>1, <1>2, <1>3, Zenon DEF ReadAs
<1> QED BY <1>4 DEF e, x

(* s is all that m holds from octet k on.                                  *)
Ends(m, k, s) == Holds(m, k, s) /\ k + Len(s) = Len(m)

(* The element there is the next one of the walk, and the walk goes on     *)
(* behind it.                                                              *)
Walks(m, k, x, j) == TlvsFrom(m)[k] = <<x>> \o TlvsFrom(m)[j] /\ j \in Nat

(* At an element, the walk takes it and goes on behind it.                 *)
LEMMA ElementNext ==
  ASSUME NEW m \in Seq(Byte), NEW k \in Nat, NEW e, NEW x, ReadAs(e, x),
         NEW r \in Seq(Byte), NEW n, n = Len(e), NEW s, s = e \o r, Ends(m, k, s)
  PROVE  Walks(m, k, x, k + n) /\ Ends(m, k + n, r)
<1> DEFINE w == TlvsFrom(m)
           t == SubSeq(m, k + 1, Len(m))
<1>1. e \in Seq(Byte) /\ n \in Nat /\ n >= 1
  BY LenProperties DEF ReadAs
<1>2. w[k] = TlvsTurn(m, w, k)
  BY TlvsFromDefined
<1> HIDE DEF w
<1>3. /\ s \in Seq(Byte) /\ Len(s) = n + Len(r) /\ Holds(s, n, r) /\ Holds(s, 0, e)
  BY <1>1, Behind, HoldsFirst
<1>4. Len(m) \in Nat /\ Len(r) \in Nat /\ k + (n + Len(r)) = Len(m) /\ Holds(m, k, s)
  BY <1>3, LenProperties DEF Ends
<1>5. t = s
  <2>1. SubSeq(m, k + 1, k + Len(s)) = s
    BY <1>3, <1>4, HoldsCut, Zenon
  <2> QED BY <2>1, Zenon DEF Ends
<1>6. Tlv(t) = x /\ x.ok /\ Len(x.octets) = n
  BY <1>3, <1>5, Zenon DEF ReadAs
<1> HIDE DEF t
<1>7. Ends(m, k + n, r)
  <2>1. Holds(m, k + n, r)
    BY <1>1, <1>3, <1>4, HoldsIn, Zenon
  <2>2. (k + n) + Len(r) = Len(m)
    BY <1>1, <1>4
  <2> QED BY <2>1, <2>2, Zenon DEF Ends
<1>8. ~(k >= Len(m)) /\ k + n \in Nat
  BY <1>1, <1>4
<1>9. TlvsTurn(m, w, k) = <<Tlv(t)>> \o w[k + Len(Tlv(t).octets)]
  BY <1>6, <1>8, Zenon DEF TlvsTurn, t
<1> QED BY <1>2, <1>6, <1>7, <1>8, <1>9, Zenon DEF w, Walks

(* It ends behind the last element.                                        *)
LEMMA ElementLast ==
  ASSUME NEW m \in Seq(Byte), NEW k \in Nat, NEW e, NEW x, ReadAs(e, x), Ends(m, k, e)
  PROVE  TlvsFrom(m)[k] = <<x>>
<1> DEFINE n == Len(e)
           r == <<>>
           w == TlvsFrom(m)
<1>1. e \in Seq(Byte)
  BY Zenon DEF ReadAs
<1>2. r \in Seq(Byte) /\ Len(r) = 0 /\ e \o r = e
  BY <1>1, ConcatEmptySeq
<1> HIDE DEF r
<1>3. Walks(m, k, x, k + n) /\ Ends(m, k + n, r)
  BY <1>2, ElementNext, Zenon
<1> HIDE DEF n
<1>4. k + n \in Nat /\ k + n >= Len(m) /\ w[k] = <<x>> \o w[k + n]
  BY <1>1, <1>2, <1>3 DEF Ends, Walks
<1>5. w[k + n] = <<>>
  BY <1>4, TlvsFromDefined DEF TlvsTurn
<1> HIDE DEF w
<1>6. <<x>> \in Seq({x})
  OBVIOUS
<1>7. <<x>> \o <<>> = <<x>>
  BY <1>6, ConcatEmptySeq
<1> QED BY <1>4, <1>5, <1>7, Zenon DEF w

(* A whole message.                                                        *)
LEMMA EndsWhole ==
  ASSUME NEW m \in Seq(Byte)
  PROVE  Ends(m, 0, m)
BY HoldsFirst, LenProperties DEF Ends

(* Messages of two and of three elements.                                  *)
LEMMA OneAndOne ==
  ASSUME NEW x, NEW y
  PROVE  <<x>> \o <<y>> = <<x, y>>
<1> DEFINE S == {x, y}
           s == <<x>>
           t == <<y>>
           u == s \o t
           v == <<x, y>>
<1>1. /\ s \in Seq(S) /\ t \in Seq(S) /\ v \in Seq(S) /\ Len(s) = 1 /\ Len(t) = 1 /\ Len(v) = 2
      /\ s[1] = x /\ t[1] = y /\ v[1] = x /\ v[2] = y
  OBVIOUS
<1> HIDE DEF s, t, v, S
<1>2. /\ u \in Seq(S) /\ Len(u) = Len(s) + Len(t)
      /\ \A k \in 1..(Len(s) + Len(t)) : u[k] = IF k <= Len(s) THEN s[k] ELSE t[k - Len(s)]
  BY <1>1, ConcatProperties
<1> HIDE DEF u
<1>3. u[1] = s[1] /\ u[2] = t[1]
  BY <1>1, <1>2
<1>4. \A k \in 1..2 : u[k] = v[k]
  BY <1>1, <1>3
<1>5. Len(u) = Len(v)
  BY <1>1, <1>2
<1>6. u = v
  BY <1>1, <1>2, <1>4, <1>5, SeqEqual
<1> QED BY <1>6 DEF s, t, u, v

(* One element and two are three.                                          *)
LEMMA OneAndTwo ==
  ASSUME NEW x, NEW y, NEW z
  PROVE  <<x>> \o <<y, z>> = <<x, y, z>>
<1> DEFINE S == {x, y, z}
           s == <<x>>
           t == <<y, z>>
           u == s \o t
           v == <<x, y, z>>
<1>1. /\ s \in Seq(S) /\ t \in Seq(S) /\ v \in Seq(S) /\ Len(s) = 1 /\ Len(t) = 2 /\ Len(v) = 3
      /\ s[1] = x /\ t[1] = y /\ t[2] = z /\ v[1] = x /\ v[2] = y /\ v[3] = z
  OBVIOUS
<1> HIDE DEF s, t, v, S
<1>2. /\ u \in Seq(S) /\ Len(u) = Len(s) + Len(t)
      /\ \A k \in 1..(Len(s) + Len(t)) : u[k] = IF k <= Len(s) THEN s[k] ELSE t[k - Len(s)]
  BY <1>1, ConcatProperties
<1> HIDE DEF u
<1>3. u[1] = s[1] /\ u[2] = t[1] /\ u[3] = t[2]
  BY <1>1, <1>2
<1>4. \A k \in 1..3 : u[k] = v[k]
  BY <1>1, <1>3
<1>5. Len(u) = Len(v)
  BY <1>1, <1>2
<1>6. u = v
  BY <1>1, <1>2, <1>4, <1>5, SeqEqual
<1> QED BY <1>6 DEF s, t, u, v

WalksTwo(m, k, x, y) == TlvsFrom(m)[k] = <<x, y>>

(* At two elements, the walk takes these and ends.                         *)
LEMMA TwoElements ==
  ASSUME NEW e, NEW f, NEW x, NEW y, ReadAs(e, x), ReadAs(f, y),
         NEW k \in Nat, NEW m \in Seq(Byte), Ends(m, k, e \o f)
  PROVE  WalksTwo(m, k, x, y)
<1> DEFINE j == k + Len(e)
<1>1. f \in Seq(Byte)
  BY Zenon DEF ReadAs
<1>2. Walks(m, k, x, j) /\ Ends(m, j, f)
  BY <1>1, ElementNext, Zenon
<1> HIDE DEF j
<1>3. j \in Nat /\ TlvsFrom(m)[k] = <<x>> \o TlvsFrom(m)[j]
  BY <1>2, Zenon DEF Walks
<1>4. TlvsFrom(m)[j] = <<y>>
  BY <1>2, <1>3, ElementLast, Zenon
<1> QED BY <1>3, <1>4, OneAndOne, Zenon DEF WalksTwo

HasTwo(m, x, y) == m \in Seq(Byte) /\ Elements(m) = <<x, y>>

HasThree(m, x, y, z) == m \in Seq(Byte) /\ Elements(m) = <<x, y, z>>

(* So an element made of two is read as these two,                         *)
LEMMA PairElements ==
  ASSUME NEW e, NEW f, NEW x, NEW y, ReadAs(e, x), ReadAs(f, y), NEW m, m = e \o f
  PROVE  HasTwo(m, x, y)
<1>1. e \in Seq(Byte) /\ f \in Seq(Byte)
  BY Zenon DEF ReadAs
<1>2. m \in Seq(Byte)
  BY <1>1, ConcatProperties, Zenon
<1>3. 0 \in Nat
  OBVIOUS
<1>4. Ends(m, 0, e \o f)
  BY <1>2, EndsWhole, Zenon
<1>5. WalksTwo(m, 0, x, y)
  BY <1>2, <1>3, <1>4, TwoElements, Zenon
<1> QED BY <1>2, <1>5, Zenon DEF Elements, WalksTwo, HasTwo

(* and one made of three as these three.                                   *)
LEMMA ThreeElements ==
  ASSUME NEW e, NEW f, NEW g, NEW x, NEW y, NEW z, ReadAs(e, x), ReadAs(f, y), ReadAs(g, z),
         NEW m, m = (e \o f) \o g
  PROVE  HasThree(m, x, y, z)
<1> DEFINE j == 0 + Len(e)
           r == f \o g
<1>1. e \in Seq(Byte) /\ f \in Seq(Byte) /\ g \in Seq(Byte)
  BY Zenon DEF ReadAs
<1>2. m = e \o r
  BY <1>1, Regrouped, ZenonT(40)
<1>3. r = f \o g /\ r \in Seq(Byte)
  BY <1>1, ConcatProperties, Zenon
<1> HIDE DEF r
<1>4. m \in Seq(Byte)
  BY <1>1, <1>2, <1>3, ConcatProperties, Zenon
<1>5. 0 \in Nat
  OBVIOUS
<1>6. Ends(m, 0, m)
  BY <1>4, EndsWhole, Zenon
<1>7. Walks(m, 0, x, j) /\ Ends(m, j, r)
  BY <1>2, <1>3, <1>4, <1>5, <1>6, ElementNext, Zenon
<1> HIDE DEF j
<1>8. j \in Nat /\ TlvsFrom(m)[0] = <<x>> \o TlvsFrom(m)[j]
  BY <1>7, Zenon DEF Walks
<1>9. TlvsFrom(m)[j] = <<y, z>>
  <2>1. Ends(m, j, f \o g)
    BY <1>3, <1>7, Zenon
  <2>2. WalksTwo(m, j, y, z)
    BY <1>4, <1>8, <2>1, TwoElements, Zenon
  <2> QED BY <2>2, Zenon DEF WalksTwo
<1> QED BY <1>4, <1>8, <1>9, OneAndTwo, Zenon DEF Elements, HasThree

(* A message that is one element.                                          *)
LEMMA WholeElement ==
  ASSUME NEW tag \in Byte, NEW c \in Seq(Byte), Len(c) \in Byte
  PROVE  /\ Tlv(Der(tag, c)) = Element(tag, c) /\ Der(tag, c) \in Seq(Byte)
         /\ Len(Der(tag, c)) = DerHead(Len(c)) + Len(c)
<1>1. Der(tag, c) \in Seq(Byte) /\ Len(Der(tag, c)) = DerHead(Len(c)) + Len(c)
  BY DerParts DEF DerIs
<1>2. Holds(Der(tag, c), 0, Der(tag, c))
  BY <1>1, HoldsFirst, Zenon
<1> QED BY <1>1, <1>2, DerFirst, Zenon

-----------------------------------------------------------------------------
(* A number of one octet, as it is read and as DER writes it.              *)
LEMMA NumberOfOne ==
  ASSUME NEW x
  PROVE  Number(<<x>>) = IF x < 128 THEN x ELSE x - 256
<1> DEFINE o == <<x>>
           v == IF x < 128 THEN x ELSE x - 256
           Upto(f) == f = [k \in 1..Len(o) |->
                             IF k = 1 THEN (IF o[1] < 128 THEN o[1] ELSE o[1] - 256)
                             ELSE 256 * f[k - 1] + o[k]]
           u == CHOOSE f : Upto(f)
<1>1. Len(o) = 1 /\ o[1] = x
  OBVIOUS
<1> HIDE DEF o
<1>2. Upto([k \in 1..1 |-> v])
  <2>1. \A k \in 1..1 : k = 1
    OBVIOUS
  <2> QED BY <1>1, <2>1
<1>3. Upto(u)
  BY <1>2, Zenon
<1>4. u[1] = v
  BY <1>1, <1>3
<1>5. Number(o) = u[Len(o)]
  BY DEF Number
<1> QED BY <1>1, <1>4, <1>5 DEF o

(* A number of one octet is read as it was written.                        *)
LEMMA DerIntegerRead ==
  ASSUME NEW n \in -128..127
  PROVE  /\ Number(DerInteger(n)) = n /\ DerInteger(n) = <<n % 256>> /\ n % 256 \in Byte
<1>1. DerInteger(n) = <<n % 256>>
  <2> DEFINE p == n \in -128..127
             q == n \in Int16 \ -128..127
             v == <<n % 256>>
             w == <<(n \div 256) % 256, n % 256>>
  <2>2. DerInteger(n) = CASE p -> v [] q -> w
    BY SMT DEF DerInteger
  <2>1. p
    OBVIOUS
  <2>3. ~q
    <3> DEFINE A == Int16
               B == -128..127
    <3>1. n \in B /\ (q <=> n \in A \ B)
      OBVIOUS
    <3> HIDE DEF A, B, q
    <3> QED BY <3>1
  <2> HIDE DEF p, q, v, w
  <2>4. DerInteger(n) = v
    BY <2>1, <2>2, <2>3
  <2> QED BY <2>4 DEF v
<1>2. n % 256 \in Byte /\ (IF n % 256 < 128 THEN n % 256 ELSE (n % 256) - 256) = n
  BY DEF Byte
<1> QED BY <1>1, <1>2, NumberOfOne

-----------------------------------------------------------------------------
(* Sizes.  An element is longer than what is in it, so a part of a short   *)
(* message is short, and its length octets are octets.                     *)
Short(s) == s \in Seq(Int) /\ Len(s) <= 255

(* An element is at least two octets longer than its content.              *)
LEMMA DerLonger ==
  ASSUME NEW tag \in Int, NEW c \in Seq(Int)
  PROVE  Der(tag, c) \in Seq(Int) /\ Len(c) + 2 <= Len(Der(tag, c))
<1> DEFINE n == Len(c)
           l == DerLength(n)
           t == <<tag>>
<1>1. n \in Nat
  BY LenProperties
<1> HIDE DEF n
<1>2. l \in Seq(Int) /\ Len(l) >= 1
  <2>1. CASE n < 128
    <3>1. n \notin 128..255
      BY <1>1, <2>1
    <3> QED BY <1>1, <2>1, <3>1 DEF DerLength
  <2>2. CASE n \in 128..255
    <3>1. ~(n < 128)
      BY <2>2
    <3>2. l = <<129, n>>
      BY <2>2, <3>1 DEF DerLength
    <3> HIDE DEF l
    <3> QED BY <1>1, <3>2
  <2>3. CASE ~(n < 128) /\ n \notin 128..255
    <3> DEFINE x == n \div 256
               y == n % 256
    <3>1. x \in Int /\ y \in Int
      BY <1>1
    <3>2. l = <<130, x, y>>
      BY <2>3 DEF DerLength
    <3> HIDE DEF x, y, l
    <3>3. <<130, x, y>> \in Seq(Int) /\ Len(<<130, x, y>>) = 3
      BY <3>1
    <3> QED BY <3>2, <3>3
  <2> QED BY <2>1, <2>2, <2>3
<1>3. t \in Seq(Int) /\ Len(t) = 1
  OBVIOUS
<1> HIDE DEF l, t
<1>4. t \o l \in Seq(Int) /\ Len(t \o l) = 1 + Len(l)
  BY <1>2, <1>3, ConcatProperties
<1>5. (t \o l) \o c \in Seq(Int) /\ Len((t \o l) \o c) = (1 + Len(l)) + n
  BY <1>4, ConcatProperties DEF n
<1>6. Der(tag, c) = (t \o l) \o c
  BY DEF Der, t, l, n
<1>7. Len(l) \in Nat
  BY <1>2, LenProperties
<1> HIDE DEF n
<1>8. n + 2 <= (1 + Len(l)) + n
  BY <1>1, <1>2, <1>7
<1> QED BY <1>5, <1>6, <1>8 DEF n

(* The content of a short element is short.                                *)
LEMMA ShortContent ==
  ASSUME NEW tag \in Int, NEW c \in Seq(Int), Short(Der(tag, c))
  PROVE  Short(c)
BY DerLonger, LenProperties DEF Short

(* The parts of a short content are short.                                 *)
LEMMA ShortParts ==
  ASSUME NEW a \in Seq(Int), NEW b \in Seq(Int), Short(a \o b)
  PROVE  Short(a) /\ Short(b)
BY ConcatProperties, LenProperties DEF Short

(* Octets are numbers; a short sequence of octets has an octet for length. *)
LEMMA OctetsAreNumbers ==
  ASSUME NEW s \in Seq(Byte)
  PROVE  s \in Seq(Int) /\ (Short(s) <=> Len(s) \in Byte)
<1>1. s \in Seq(Int)
  <2>1. Byte \subseteq Int
    BY DEF Byte
  <2> QED BY <2>1, SeqMonotonic, Zenon
<1>2. Len(s) \in Nat
  BY LenProperties
<1>3. \A n \in Nat : n <= 255 <=> n \in Byte
  BY DEF Byte
<1> QED BY <1>1, <1>2, <1>3, Zenon DEF Short

(* Octets put in an element, and parts put side by side, are numbers; and  *)
(* if the whole is short they are octets.                                  *)
LEMMA InElement ==
  ASSUME NEW tag \in Byte, NEW c \in Seq(Byte), Short(Der(tag, c))
  PROVE  /\ Len(c) \in Byte /\ Der(tag, c) \in Seq(Byte)
         /\ ReadAs(Der(tag, c), Element(tag, c)) /\ Tlv(Der(tag, c)) = Element(tag, c)
<1>1. tag \in Int
  BY DEF Byte
<1>2. c \in Seq(Int) /\ Short(c)
  BY <1>1, OctetsAreNumbers, ShortContent, Zenon
<1>3. Len(c) \in Byte
  BY <1>2, OctetsAreNumbers, Zenon
<1> QED BY <1>3, DerRead, WholeElement, Zenon

(* Elements of numbers, and numbers put together, are numbers.             *)
LEMMA AreNumbers ==
  /\ \A t \in Byte : \A c \in Seq(Int) : Der(t, c) \in Seq(Int)
  /\ \A a, b \in Seq(Int) : a \o b \in Seq(Int)
  /\ \A s \in Seq(Byte) : s \in Seq(Int)
<1>1. \A t \in Byte : t \in Int
  BY DEF Byte
<1>2. ASSUME NEW t \in Byte, NEW c \in Seq(Int) PROVE Der(t, c) \in Seq(Int)
  BY <1>1, DerLonger, Zenon
<1>3. ASSUME NEW a \in Seq(Int), NEW b \in Seq(Int) PROVE a \o b \in Seq(Int)
  BY ConcatProperties, Zenon
<1>4. ASSUME NEW s \in Seq(Byte) PROVE s \in Seq(Int)
  BY OctetsAreNumbers, Zenon
<1> QED BY <1>2, <1>3, <1>4, Zenon

(* The same as rules for nested elements: the content of a short element   *)
(* is short,                                                               *)
LEMMA ShortInElement ==
  \A t \in Byte : \A c \in Seq(Int) : Short(Der(t, c)) => Short(c)
<1> SUFFICES ASSUME NEW t \in Byte, NEW c \in Seq(Int), Short(Der(t, c)) PROVE Short(c)
  OBVIOUS
<1>1. t \in Int
  BY DEF Byte
<1> QED BY <1>1, ShortContent, Zenon

(* the parts of a short content are short,                                 *)
LEMMA ShortOnes ==
  \A a, b \in Seq(Int) : Short(a \o b) => Short(a) /\ Short(b)
BY ShortParts

(* and octets put together are octets.                                     *)
LEMMA OctetsTogether ==
  \A a, b \in Seq(Byte) : a \o b \in Seq(Byte)
BY ConcatProperties

(* The query: whatever is in it, octets if it is short.                    *)
OctetsIfShort(s) == s \in Seq(Int) /\ (Short(s) => s \in Seq(Byte))

(* If a message is short, all the elements in it are, and so it consists   *)
(* of octets: each length is one.                                          *)
LEMMA OctetsInElement ==
  ASSUME NEW t \in Byte, NEW c, OctetsIfShort(c)
  PROVE  OctetsIfShort(Der(t, c))
<1>1. c \in Seq(Int) /\ Der(t, c) \in Seq(Int)
  BY AreNumbers, Zenon DEF OctetsIfShort
<1>2. ASSUME Short(Der(t, c)) PROVE Der(t, c) \in Seq(Byte)
  <2>1. Short(c)
    BY <1>1, <1>2, ShortInElement, Zenon
  <2>2. c \in Seq(Byte)
    BY <2>1, Zenon DEF OctetsIfShort
  <2> QED BY <1>2, <2>2, InElement, Zenon
<1> QED BY <1>1, <1>2, Zenon DEF OctetsIfShort

(* The same of parts put side by side,                                     *)
LEMMA OctetsSideBySide ==
  ASSUME NEW a, OctetsIfShort(a), NEW b, OctetsIfShort(b)
  PROVE  OctetsIfShort(a \o b)
<1>1. a \in Seq(Int) /\ b \in Seq(Int) /\ a \o b \in Seq(Int)
  BY AreNumbers, Zenon DEF OctetsIfShort
<1>2. ASSUME Short(a \o b) PROVE a \o b \in Seq(Byte)
  <2>1. Short(a) /\ Short(b)
    BY <1>1, <1>2, ShortOnes, Zenon
  <2>2. a \in Seq(Byte) /\ b \in Seq(Byte)
    BY <2>1, Zenon DEF OctetsIfShort
  <2> QED BY <2>2, OctetsTogether, Zenon
<1> QED BY <1>1, <1>2, Zenon DEF OctetsIfShort

(* and of octets as they are.                                              *)
LEMMA OctetsAlone ==
  ASSUME NEW s \in Seq(Byte)
  PROVE  OctetsIfShort(s)
BY AreNumbers, Zenon DEF OctetsIfShort

(* AreNumbers, n of them.                                                     *)
Sized(s, n) == s \in Seq(Int) /\ Len(s) = n /\ n \in Nat

(* Sizes add up.                                                           *)
LEMMA SizedTogether ==
  \A a, b, n, k : Sized(a, n) /\ Sized(b, k) => Sized(a \o b, n + k)
<1> SUFFICES ASSUME NEW a, NEW b, NEW n, NEW k, Sized(a, n), Sized(b, k)
             PROVE  Sized(a \o b, n + k)
  OBVIOUS
<1>1. a \in Seq(Int) /\ b \in Seq(Int) /\ Len(a) = n /\ Len(b) = k /\ n \in Nat /\ k \in Nat
  BY Zenon DEF Sized
<1>2. a \o b \in Seq(Int) /\ Len(a \o b) = Len(a) + Len(b)
  BY <1>1, ConcatProperties, Zenon
<1>3. n + k \in Nat
  BY <1>1
<1> QED BY <1>1, <1>2, <1>3, Zenon DEF Sized

(* The size of one number,                                                 *)
LEMMA SizedOne == \A x \in Int : Sized(<<x>>, 1)
BY DEF Sized

(* of four,                                                                *)
LEMMA SizedFour == \A w, x, y, z \in Int : Sized(<<w, x, y, z>>, 4)
BY DEF Sized

(* of five,                                                                *)
LEMMA SizedFive == \A v, w, x, y, z \in Int : Sized(<<v, w, x, y, z>>, 5)
BY DEF Sized

(* and of any sequence of them.                                            *)
LEMMA SizedOf ==
  /\ \A s \in Seq(Int) : Sized(s, Len(s))
  /\ \A s \in Seq(Byte) : Sized(s, Len(s))
BY AreNumbers, LenProperties DEF Sized

(* A message of the shape of UDT, whatever the octets in its head.         *)
LEMMA UdtSize ==
  ASSUME NEW h, Sized(h, 5), NEW x \in Int, NEW y \in Int, NEW z \in Int,
         NEW s, NEW t, NEW u, NEW i, NEW j, NEW k, Sized(s, i), Sized(t, j), Sized(u, k)
  PROVE  Sized(h \o <<x>> \o s \o <<y>> \o t \o <<z>> \o u, 8 + (i + (j + k)))
<1>1. Sized(<<x>>, 1) /\ Sized(<<y>>, 1) /\ Sized(<<z>>, 1)
  BY SizedOne, Zenon
<1>2. Sized(h \o <<x>> \o s, 5 + 1 + i)
  BY <1>1, SizedTogether, Zenon
<1>3. Sized(h \o <<x>> \o s \o <<y>> \o t, 5 + 1 + i + 1 + j)
  BY <1>1, <1>2, SizedTogether, Zenon
<1>4. Sized(h \o <<x>> \o s \o <<y>> \o t \o <<z>> \o u, 5 + 1 + i + 1 + j + 1 + k)
  BY <1>1, <1>3, SizedTogether, Zenon
<1>5. i \in Nat /\ j \in Nat /\ k \in Nat
  BY Zenon DEF Sized
<1>6. 5 + 1 + i + 1 + j + 1 + k = 8 + (i + (j + k))
  BY <1>5
<1> QED BY <1>4, <1>6, Zenon

(* How long encodeMsg's message is.                                        *)
LEMMA LabelSize ==
  ASSUME NEW opc, NEW dpc, NEW sio, NEW s, NEW n, Sized(opc, 4), Sized(dpc, 4), Sized(sio, 4),
         Sized(s, n)
  PROVE  Sized(opc \o dpc \o sio \o s, 12 + n)
<1>1. Sized(opc \o dpc \o sio \o s, 4 + 4 + 4 + n)
  BY SizedTogether, Zenon
<1>2. n \in Nat
  BY Zenon DEF Sized
<1>3. 4 + 4 + 4 + n = 12 + n
  BY <1>2
<1> QED BY <1>1, <1>3, Zenon

(* encodeMsg adds at most 35 octets to the SCCP message: what an answer    *)
(* needs of the send buffer.                                               *)
LEMMA EncodedSize ==
  ASSUME NEW opc \in Seq(Byte), NEW dpc \in Seq(Byte), NEW sio \in Seq(Byte), NEW udt,
         Len(opc) = 4, Len(dpc) = 4, Len(sio) = 4, NEW sccp, NEW n, Sized(sccp, n)
  PROVE  Len(EncodeMsg(sccp, Members(opc, dpc, sio, udt))) <= 35 + n
<1> DEFINE d == Members(opc, dpc, sio, udt)
           a == opc \o dpc
           b == a \o sio
           body == b \o sccp
           k == 12 + n
           z == Zeros((4 - (k % 4)) % 4)
           r == <<0, 6, 0, 8, 0, 0, 0, 2>>
           h == <<2, 16, 0, LowByte(k + 4)>>
           t == r \o h \o body \o z
           c == CommonHeader(1, 1, Len(t))
<1>1. n \in Nat
  BY Zenon DEF Sized
<1>2. Sized(opc, 4) /\ Sized(dpc, 4) /\ Sized(sio, 4)
  BY SizedOf, Zenon
<1>3. Sized(body, k)
  BY <1>2, LabelSize, Zenon
<1>4. k \in Nat
  BY <1>1
<1>5. Sized(z, Len(z)) /\ Len(z) \in 0..3
  <2> HIDE DEF k
  <2>1. z = Padding(k)
    BY DEF Padding
  <2> HIDE DEF z
  <2> QED BY <1>4, <2>1, PaddingType, SizedOf
<1>6. Sized(r, 8)
  BY DEF Sized
<1>7. Sized(h, 4)
  <2> DEFINE x == LowByte(k + 4)
  <2>1. x \in Int
    BY <1>4 DEF LowByte
  <2>2. 2 \in Int /\ 16 \in Int /\ 0 \in Int
    OBVIOUS
  <2> HIDE DEF x
  <2>3. Sized(<<2, 16, 0, x>>, 4)
    BY <2>1, <2>2, SizedFour, Zenon
  <2> QED BY <2>3 DEF x
<1> HIDE DEF z, r, h, k
<1>8. Sized(t, 8 + 4 + k + Len(z))
  BY <1>3, <1>5, <1>6, <1>7, SizedTogether, Zenon
<1> HIDE DEF t
<1>9. Sized(c, 8)
  <2>1. Len(t) \in Nat /\ Len(t) + 8 \in Nat
    BY <1>8, LenProperties DEF Sized
  <2>2. BigEndian32(Len(t) + 8) \in Seq(Byte) /\ Len(BigEndian32(Len(t) + 8)) = 4
    BY <2>1, BigEndianType, Zenon
  <2>3. Sized(BigEndian32(Len(t) + 8), 4)
    BY <2>2, SizedOf, Zenon
  <2>4. Sized(<<1, 0, 1, 1>>, 4)
    BY DEF Sized
  <2>5. Sized(c, 4 + 4)
    BY <2>3, <2>4, SizedTogether, Zenon DEF CommonHeader
  <2>6. 4 + 4 = 8
    OBVIOUS
  <2> QED BY <2>5, <2>6, Zenon
<1> HIDE DEF c
<1>10. Sized(c \o t, 8 + (8 + 4 + k + Len(z)))
  BY <1>8, <1>9, SizedTogether, Zenon
<1>11. EncodeMsg(sccp, d) = c \o t
  <2>1. d.opc \o d.dpc \o d.si \o d.ni \o d.mp \o d.sls \o sccp = body
    <3>1. a \in Seq(Byte)
      BY ConcatProperties
    <3> HIDE DEF a, d
    <3>2. a \o <<sio[1]>> \o <<sio[2]>> \o <<sio[3]>> \o <<sio[4]>> = a \o sio
      BY <3>1, ServicePut, Zenon
    <3>3. /\ d.opc = opc /\ d.dpc = dpc /\ d.si = <<sio[1]>> /\ d.ni = <<sio[2]>>
          /\ d.mp = <<sio[3]>> /\ d.sls = <<sio[4]>>
      BY DEF d, Members
    <3> QED BY <3>2, <3>3, Zenon DEF a
  <2>2. Len(body) = k /\ body # <<>>
    <3>1. Len(body) = k /\ k # 0
      BY <1>1, <1>3 DEF Sized, k
    <3> HIDE DEF body
    <3> QED BY <3>1
  <2> HIDE DEF d, body
  <2> QED BY <2>1, <2>2, Zenon DEF EncodeMsg, c, t, r, h, z
<1>12. 8 + (8 + 4 + k + Len(z)) <= 35 + n
  <2>1. \A x \in 0..3 : 8 + (8 + 4 + (12 + n) + x) <= 35 + n
    BY <1>1
  <2> QED BY <1>5, <2>1, Zenon DEF k
<1> QED BY <1>10, <1>11, <1>12, Zenon DEF Sized

-----------------------------------------------------------------------------
(* What the members of a TCAP message are when the transaction and then    *)
(* the invoke are set.                                                     *)
InvokeIs(u, c, l, t, i, p) ==
  u.crash = c /\ u.localCode = l /\ u.transactionId = t /\ u.invokeId = i /\ u.parameter = p

SetInTurn(s, c, l, t, i, p, k, r, tt, kk, u, ii, ll, pp) ==
  /\ s = [crash |-> c, localCode |-> l, transactionId |-> t, invokeId |-> i, parameter |-> p, kept |-> k]
  /\ r = [s EXCEPT !.transactionId = tt, !.kept = kk]
  /\ u = [r EXCEPT !.invokeId = ii, !.localCode = ll, !.parameter = pp]

(* Setting the members in turn leaves each as it was set last.             *)
LEMMA InvokeSet ==
  ASSUME NEW s, NEW c, NEW l, NEW t, NEW i, NEW p, NEW k, NEW r, NEW tt, NEW kk,
         NEW u, NEW ii, NEW ll, NEW pp, SetInTurn(s, c, l, t, i, p, k, r, tt, kk, u, ii, ll, pp)
  PROVE  InvokeIs(u, c, ll, tt, ii, pp)
BY DEF InvokeIs, SetInTurn

-----------------------------------------------------------------------------
(* What the gateway reads of the answer: what was put in, whatever the     *)
(* label and the user data around it.                                      *)
EndIs(pd, udt, otid, id, op, num) ==
  [wellFormed |-> TRUE, opc |-> SubSeq(pd, 1, 4), dpc |-> SubSeq(pd, 5, 8),
   sio |-> SubSeq(pd, 9, 12), called |-> Variable(udt, 3), calling |-> Variable(udt, 4),
   dtid |-> otid, invokeId |-> Number(id), opCode |-> op, address |-> num]

ReadsEnd(e, otid, id, op, num) ==
  /\ e \in Seq(Byte)
  /\ \A pd, udt : ReadUdt(pd, udt, Tlv(e)) = EndIs(pd, udt, otid, id, op, num)

(* Read one layer after the other, the innermost first.                    *)
Connects(w, conn, l, f, ad, tA, num) ==
  w.content = conn /\ HasTwo(conn, l, f) /\ l.content = ad /\ Tlv(ad) = Element(tA, num)

ConnectIs(pd, udt, x, y, u, v, w, num) ==
  ReadInvoke(pd, udt, <<x, y>>, <<u, v, w>>) =
    EndIs(pd, udt, x.content, u.content, v.octets, num)

(* The gateway reads in the Connect argument the number that was put       *)
(* there.                                                                  *)
LEMMA ConnectTaken ==
  ASSUME NEW pd, NEW udt, NEW x, NEW y, NEW u, NEW v, NEW w,
         NEW conn, NEW l, NEW f, NEW ad, NEW tA, NEW num, Connects(w, conn, l, f, ad, tA, num)
  PROVE  ConnectIs(pd, udt, x, y, u, v, w, num)
<1> USE DEF Connects
<1>1. Len(<<u, v, w>>) = 3 /\ Len(<<l, f>>) = 2 /\ <<u, v, w>>[3] = w
  OBVIOUS
<1>2. Elements(w.content) = <<l, f>>
  BY DEF HasTwo
<1>3. ReadInvoke(pd, udt, <<x, y>>, <<u, v, w>>) = ReadConnect(pd, udt, <<x, y>>, <<u, v, w>>, <<l, f>>)
  BY <1>1, <1>2 DEF ReadInvoke
<1>4. /\ <<x, y>>[1].content = x.content /\ <<u, v, w>>[1].content = u.content
      /\ <<u, v, w>>[2].octets = v.octets /\ Tlv(<<l, f>>[1].content).content = num
  <2>1. <<x, y>>[1] = x /\ <<u, v, w>>[1] = u /\ <<u, v, w>>[2] = v /\ <<l, f>>[1] = l
    OBVIOUS
  <2>2. Tlv(ad).content = num
    BY DEF Element
  <2> QED BY <2>1, <2>2
<1> HIDE DEF Connects
<1> QED BY <1>1, <1>3, <1>4, Zenon DEF ReadConnect, ConnectIs, EndIs, BerInteger

(* The gateway reads a short End element by element: the transaction, the  *)
(* invoke identifier, the operation and the number put there.              *)
LEMMA EndRead ==
  ASSUME NEW tE \in Byte, NEW tO \in Byte, NEW tP \in Byte, NEW tI \in Byte, NEW tN \in Byte,
         NEW tC \in Byte, NEW tS \in Byte, NEW tL \in Byte, NEW tA \in Byte, NEW tF \in Byte,
         NEW num \in Seq(Byte), NEW flag \in Seq(Byte), NEW id \in Seq(Byte),
         NEW code \in Seq(Byte), NEW otid \in Seq(Byte),
         NEW ad, ad = Der(tA, num), NEW conn, conn = Der(tL, ad) \o Der(tF, flag),
         NEW args, args = (Der(tN, id) \o Der(tC, code)) \o Der(tS, conn),
         NEW inv, inv = Der(tI, args), NEW parts, parts = Der(tO, otid) \o Der(tP, inv),
         Short(Der(tE, parts))
  PROVE  ReadsEnd(Der(tE, parts), otid, id, Der(tC, code), num)
<1>1. /\ num \in Seq(Int) /\ flag \in Seq(Int) /\ id \in Seq(Int) /\ code \in Seq(Int)
      /\ otid \in Seq(Int)
  BY AreNumbers, Zenon
<1>2. /\ ad \in Seq(Int) /\ Der(tL, ad) \in Seq(Int) /\ Der(tF, flag) \in Seq(Int) /\ conn \in Seq(Int)
  BY <1>1, AreNumbers, Zenon
<1>3. /\ Der(tN, id) \in Seq(Int) /\ Der(tC, code) \in Seq(Int) /\ Der(tS, conn) \in Seq(Int)
      /\ Der(tN, id) \o Der(tC, code) \in Seq(Int) /\ args \in Seq(Int)
  BY <1>1, <1>2, AreNumbers, Zenon
<1>4. /\ inv \in Seq(Int) /\ Der(tP, inv) \in Seq(Int) /\ Der(tO, otid) \in Seq(Int)
      /\ parts \in Seq(Int)
  BY <1>1, <1>3, AreNumbers, Zenon
<1>5. Short(Der(tO, otid)) /\ Short(Der(tP, inv)) /\ Short(inv)
  <2>1. Short(parts)
    BY <1>4, ShortInElement, Zenon
  <2>2. Short(Der(tO, otid) \o Der(tP, inv))
    BY <2>1, Zenon
  <2>3. Short(Der(tO, otid)) /\ Short(Der(tP, inv))
    BY <1>4, <2>2, ShortOnes, Zenon
  <2> QED BY <1>4, <2>3, ShortInElement, Zenon
<1>6. Short(Der(tN, id) \o Der(tC, code)) /\ Short(Der(tS, conn))
  <2>1. Short(Der(tI, args))
    BY <1>5, Zenon
  <2>2. Short(args)
    BY <1>3, <2>1, ShortInElement, Zenon
  <2>3. Short((Der(tN, id) \o Der(tC, code)) \o Der(tS, conn))
    BY <2>2, Zenon
  <2> QED BY <1>3, <2>3, ShortOnes, Zenon
<1>7. Short(Der(tN, id)) /\ Short(Der(tC, code)) /\ Short(conn)
  BY <1>2, <1>3, <1>6, ShortInElement, ShortOnes, Zenon
<1>8. Short(Der(tL, ad)) /\ Short(Der(tF, flag)) /\ Short(ad)
  BY <1>2, <1>7, ShortInElement, ShortOnes, Zenon
<1>9. ad \in Seq(Byte) /\ Tlv(ad) = Element(tA, num)
  BY <1>8, InElement, Zenon
<1>10. ReadAs(Der(tL, ad), Element(tL, ad)) /\ ReadAs(Der(tF, flag), Element(tF, flag))
  BY <1>8, <1>9, InElement, Zenon
<1>11. conn \in Seq(Byte) /\ HasTwo(conn, Element(tL, ad), Element(tF, flag))
  <2>1. HasTwo(conn, Element(tL, ad), Element(tF, flag))
    BY <1>10, PairElements, Zenon
  <2> QED BY <2>1, Zenon DEF HasTwo
<1>12. /\ ReadAs(Der(tN, id), Element(tN, id)) /\ ReadAs(Der(tC, code), Element(tC, code))
       /\ ReadAs(Der(tS, conn), Element(tS, conn))
  BY <1>6, <1>7, <1>11, InElement, Zenon
<1>13. args \in Seq(Byte) /\ HasThree(args, Element(tN, id), Element(tC, code), Element(tS, conn))
  <2>1. HasThree(args, Element(tN, id), Element(tC, code), Element(tS, conn))
    BY <1>12, ThreeElements, Zenon
  <2> QED BY <2>1, Zenon DEF HasThree
<1>14. inv \in Seq(Byte) /\ Tlv(inv) = Element(tI, args)
  BY <1>5, <1>13, InElement, Zenon
<1>15. ReadAs(Der(tO, otid), Element(tO, otid)) /\ ReadAs(Der(tP, inv), Element(tP, inv))
  BY <1>5, <1>14, InElement, Zenon
<1>16. parts \in Seq(Byte) /\ HasTwo(parts, Element(tO, otid), Element(tP, inv))
  <2>1. HasTwo(parts, Element(tO, otid), Element(tP, inv))
    BY <1>15, PairElements, Zenon
  <2> QED BY <2>1, Zenon DEF HasTwo
<1>17. Der(tE, parts) \in Seq(Byte) /\ Tlv(Der(tE, parts)) = Element(tE, parts)
  BY <1>16, InElement, Zenon
<1> DEFINE e == Der(tE, parts)
           x == Element(tO, otid)
           y == Element(tP, inv)
           u == Element(tN, id)
           v == Element(tC, code)
           w == Element(tS, conn)
           l == Element(tL, ad)
           f == Element(tF, flag)
<1>18. /\ e \in Seq(Byte) /\ Tlv(e) = Element(tE, parts) /\ HasTwo(parts, x, y)
       /\ Tlv(inv) = Element(tI, args) /\ HasThree(args, u, v, w) /\ HasTwo(conn, l, f)
       /\ Tlv(ad) = Element(tA, num)
  BY <1>9, <1>11, <1>13, <1>14, <1>16, <1>17, Zenon
<1>19. /\ x.ok = TRUE /\ y.ok = TRUE /\ x.content = otid /\ y.content = inv /\ u.content = id
      /\ v.octets = Der(tC, code) /\ w.content = conn /\ l.content = ad
      /\ Element(tE, parts).ok = TRUE /\ Element(tE, parts).content = parts
      /\ Element(tI, args).ok = TRUE /\ Element(tI, args).content = args
  BY DEF Element
<1> HIDE DEF e, x, y, u, v, w, l, f
<1>20. ASSUME NEW pd, NEW udt
      PROVE  ReadUdt(pd, udt, Tlv(e)) = EndIs(pd, udt, otid, id, Der(tC, code), num)
  <2>1. Elements(parts) = <<x, y>> /\ Elements(args) = <<u, v, w>>
    BY <1>18 DEF HasTwo, HasThree
  <2>2. ReadUdt(pd, udt, Tlv(e)) = ReadEnd(pd, udt, <<x, y>>)
    BY <1>18, <1>19, <2>1, Zenon DEF ReadUdt
  <2>3. ReadEnd(pd, udt, <<x, y>>) = ReadComponent(pd, udt, <<x, y>>, Tlv(inv))
    <3>1. Len(<<x, y>>) = 2 /\ DOMAIN <<x, y>> = 1..2 /\ <<x, y>>[1] = x /\ <<x, y>>[2] = y
      OBVIOUS
    <3>2. \A k \in DOMAIN <<x, y>> : <<x, y>>[k].ok
      <4>1. \A k \in 1..2 : k = 1 \/ k = 2
        OBVIOUS
      <4> QED BY <1>19, <3>1, <4>1, Zenon
    <3>3. <<x, y>>[2].content = inv
      BY <1>19, <3>1
    <3> QED BY <3>1, <3>2, <3>3, Zenon DEF ReadEnd
  <2>4. ReadComponent(pd, udt, <<x, y>>, Tlv(inv)) = ReadInvoke(pd, udt, <<x, y>>, <<u, v, w>>)
    BY <1>18, <1>19, <2>1, Zenon DEF ReadComponent
  <2>5. ReadInvoke(pd, udt, <<x, y>>, <<u, v, w>>) = EndIs(pd, udt, x.content, u.content, v.octets, num)
    <3>1. Connects(w, conn, l, f, ad, tA, num)
      BY <1>18, <1>19, Zenon DEF Connects
    <3>2. ConnectIs(pd, udt, x, y, u, v, w, num)
      BY <3>1, ConnectTaken, Zenon
    <3> QED BY <3>2, Zenon DEF ConnectIs
  <2> QED BY <1>19, <2>2, <2>3, <2>4, <2>5, Zenon
<1>21. ReadsEnd(e, otid, id, Der(tC, code), num)
  BY <1>18, <1>20, Zenon DEF ReadsEnd
<1> QED BY <1>21, Zenon DEF e

-----------------------------------------------------------------------------
(* The whole way back: the program puts the End into an SCCP and an M3UA   *)
(* message, and the gateway reads what is in it.                           *)
Packed(data, called, calling, opc, dpc, sio) == opc \o dpc \o sio \o Udt(called, calling, data)

(* The sizes of what varies in an answer.                                  *)
LEMMA PackedSizes ==
  \A c, g, d \in Nat : 24 + (c + (g + d)) <= 255 =>
    /\ c \in Byte /\ g \in Byte /\ d \in Byte /\ (3 + c) + g \in Byte
    /\ (12 + ((8 + c) + (g + d))) + 4 <= 255 /\ ~(12 + ((8 + c) + (g + d)) < 18)
BY DEF Byte

(* What the gateway takes for the label and for the user data.             *)
LabelIs(v, opc, dpc, sio, u) ==
  /\ SubSeq(v, 1, 4) = opc /\ SubSeq(v, 5, 8) = dpc /\ SubSeq(v, 9, 12) = sio
  /\ SubSeq(v, 13, Len(v)) = u /\ v \in Seq(Byte) /\ Len(v) = 12 + Len(u)

(* The label and the user data are read back from the value of Protocol    *)
(* Data.                                                                   *)
LEMMA LabelRead ==
  ASSUME NEW opc, NEW dpc, NEW sio, FourEach(opc, dpc, sio), NEW u \in Seq(Byte),
         NEW v, v = opc \o dpc \o sio \o u
  PROVE  LabelIs(v, opc, dpc, sio, u)
<1> USE DEF FourEach
<1>1. /\ v \in Seq(Byte) /\ Len(v) = 12 + Len(u)
      /\ Holds(v, 0, opc) /\ Holds(v, 4, dpc) /\ Holds(v, 8, sio) /\ Holds(v, 12, u)
  BY LabelParts
<1>2. SubSeq(v, 0 + 1, 0 + 4) = opc /\ SubSeq(v, 4 + 1, 4 + 4) = dpc /\ SubSeq(v, 8 + 1, 8 + 4) = sio
  <2>1. /\ SubSeq(v, 0 + 1, 0 + Len(opc)) = opc /\ SubSeq(v, 4 + 1, 4 + Len(dpc)) = dpc
        /\ SubSeq(v, 8 + 1, 8 + Len(sio)) = sio
    BY <1>1, HoldsCut
  <2> QED BY <2>1
<1>3. SubSeq(v, 12 + 1, 12 + Len(u)) = u
  BY <1>1, HoldsCut
<1>4. /\ 0 + 1 = 1 /\ 0 + 4 = 4 /\ 4 + 1 = 5 /\ 4 + 4 = 8 /\ 8 + 1 = 9 /\ 8 + 4 = 12 /\ 12 + 1 = 13
  OBVIOUS
<1> HIDE DEF FourEach
<1>5. LabelIs(v, opc, dpc, sio, u)
  BY <1>1, <1>2, <1>3, <1>4 DEF LabelIs
<1> QED BY <1>5

(* The message of the answer: how long it is, and how it is read.          *)
PackedIs(m, body, u) ==
  /\ Len(m) <= 1024 /\ ParameterValue(m, <<2, 16>>) = body /\ SubSeq(m, 5, 8) = BigEndian32(Len(m))
  /\ ~(Len(body) < 18) /\ u \in Seq(Byte)

IsPacked(m, body, u, called, calling, data, opc, dpc, sio, udt) ==
  /\ u = Udt(called, calling, data) /\ body = opc \o dpc \o sio \o u
  /\ m = EncodeMsg(u, Members(opc, dpc, sio, udt))

(* The gateway finds in an encoded message the value of Protocol Data, and *)
(* in that the UDT.                                                        *)
LEMMA PackedRead ==
  ASSUME NEW opc, NEW dpc, NEW sio, FourEach(opc, dpc, sio), NEW udt,
         NEW called, NEW calling, NEW data, NEW c, NEW g, NEW d,
         Addressed(called, calling, data, c, g, d), 24 + (c + (g + d)) <= 255,
         NEW m, NEW body, NEW u, IsPacked(m, body, u, called, calling, data, opc, dpc, sio, udt)
  PROVE  PackedIs(m, body, u) /\ UdtIs(u, called, calling, data, c, g, d)
<1>1. /\ called \in Seq(Byte) /\ calling \in Seq(Byte) /\ data \in Seq(Byte)
      /\ c = Len(called) /\ g = Len(calling) /\ d = Len(data)
      /\ c \in Byte /\ g \in Byte /\ d \in Byte
  BY DEF Addressed
<1>2. c \in Nat /\ g \in Nat /\ d \in Nat
  <2>1. \A i \in Byte : i \in Nat
    BY DEF Byte
  <2> QED BY <1>1, <2>1, Zenon
<1>3. /\ (3 + c) + g \in Byte
      /\ (12 + ((8 + c) + (g + d))) + 4 <= 255 /\ ~(12 + ((8 + c) + (g + d)) < 18)
  BY <1>2, PackedSizes, Zenon
<1>4. UdtIs(u, called, calling, data, c, g, d)
  <2>1. UdtIs(Udt(called, calling, data), called, calling, data, c, g, d)
    BY <1>1, <1>3, UdtParts, Zenon
  <2> QED BY <2>1, Zenon DEF IsPacked
<1>5. u \in Seq(Byte) /\ Len(u) = (8 + c) + (g + d)
  BY <1>4, Zenon DEF UdtIs
<1>6. body \in Seq(Byte) /\ Len(body) = 12 + Len(u)
  <2>1. LabelIs(body, opc, dpc, sio, u)
    BY <1>5, LabelRead, Zenon DEF IsPacked
  <2> QED BY <2>1, Zenon DEF LabelIs
<1>7. Len(body) + 4 <= 255 /\ ~(Len(body) < 18)
  <2>1. Len(body) = 12 + ((8 + c) + (g + d))
    BY <1>5, <1>6, Zenon
  <2> QED BY <1>3, <2>1
<1>9. m = M3uaMessage(1, 1, Routing \o Parameter(<<2, 16>>, body))
  <2>1. body = opc \o dpc \o sio \o u /\ m = EncodeMsg(u, Members(opc, dpc, sio, udt))
    BY Zenon DEF IsPacked
  <2>2. PutAs(body, u, opc, dpc, sio, udt)
    BY <1>5, <1>7, <2>1, MessagePut, Zenon
  <2> QED BY <2>1, <2>2, Zenon DEF PutAs
<1>10. /\ Len(m) = 20 + (Len(body) + Len(Padding(Len(body))))
       /\ ParameterValue(m, <<2, 16>>) = body /\ SubSeq(m, 5, 8) = BigEndian32(Len(m))
  BY <1>6, <1>7, <1>9, ParameterRead
<1>11. Len(m) <= 1024
  <2>1. Len(body) \in Nat
    BY <1>6, LenProperties
  <2>2. Len(Padding(Len(body))) \in 0..3
    BY <2>1, PaddingType, Zenon
  <2> DEFINE b == Len(body)
             p == Len(Padding(b))
  <2>3. b \in Nat /\ p \in 0..3 /\ b + 4 <= 255 /\ Len(m) = 20 + (b + p)
    BY <1>7, <1>10, <2>1, <2>2, Zenon
  <2> HIDE DEF b, p
  <2> QED BY <2>3
<1> QED BY <1>4, <1>5, <1>7, <1>10, <1>11, Zenon DEF PackedIs

(* And what it reads, down to the number.                                  *)
ReadBack(m, opc, dpc, sio, called, calling, otid, id, op, num) ==
  /\ Len(m) <= 1024
  /\ View(m) = [wellFormed |-> TRUE, opc |-> opc, dpc |-> dpc, sio |-> sio,
                called |-> called, calling |-> calling,
                dtid |-> otid, invokeId |-> Number(id), opCode |-> op, address |-> num]

(* encodeSccp writes the UDT of the addresses without the octet decodeSccp *)
(* took too much of each.                                                  *)
LEMMA SccpPacked ==
  ASSUME NEW called, NEW calling, NEW data, NEW c, NEW g, NEW d,
         Addressed(called, calling, data, c, g, d), (3 + c) + g \in Byte,
         NEW x \in Byte, NEW y \in Byte
  PROVE  EncodeSccp(data, called \o <<x>>, calling \o <<y>>) = Udt(called, calling, data)
<1>1. /\ called \in Seq(Byte) /\ calling \in Seq(Byte) /\ data \in Seq(Byte)
      /\ c = Len(called) /\ g = Len(calling) /\ d = Len(data) /\ d \in Byte
  BY DEF Addressed
<1>2. (3 + Len(called)) + Len(calling) \in Byte /\ Len(data) \in Byte
  BY <1>1, Zenon
<1> QED BY <1>1, <1>2, SccpPut

(* What encodeSccp and encodeMsg put together, the gateway reads back: the *)
(* label, the addresses, and the End as it reads that alone.               *)
LEMMA AnswerRead ==
  ASSUME NEW opc, NEW dpc, NEW sio, FourEach(opc, dpc, sio), NEW udt,
         NEW called, NEW calling, NEW data, NEW c, NEW g, NEW d,
         Addressed(called, calling, data, c, g, d), 24 + (c + (g + d)) <= 255,
         NEW x \in Byte, NEW y \in Byte,
         NEW otid, NEW id, NEW op, NEW num, ReadsEnd(data, otid, id, op, num)
  PROVE  ReadBack(EncodeMsg(EncodeSccp(data, called \o <<x>>, calling \o <<y>>),
                            Members(opc, dpc, sio, udt)),
                  opc, dpc, sio, called, calling, otid, id, op, num)
<1> DEFINE u == Udt(called, calling, data)
           body == opc \o dpc \o sio \o u
           m == EncodeMsg(u, Members(opc, dpc, sio, udt))
<1>1. IsPacked(m, body, u, called, calling, data, opc, dpc, sio, udt)
  BY Zenon DEF IsPacked
<1>2. EncodeSccp(data, called \o <<x>>, calling \o <<y>>) = u
  <2>1. \A i \in Byte : i \in Nat
    BY DEF Byte
  <2>2. c \in Nat /\ g \in Nat /\ d \in Nat
    BY <2>1, Zenon DEF Addressed
  <2>3. (3 + c) + g \in Byte
    BY <2>2, PackedSizes, Zenon
  <2> QED BY <2>3, SccpPacked, Zenon
<1>3. body = opc \o dpc \o sio \o u
  BY Zenon
<1> HIDE DEF u, body, m
<1>4. PackedIs(m, body, u) /\ UdtIs(u, called, calling, data, c, g, d)
  BY <1>1, PackedRead, Zenon
<1>5. u \in Seq(Byte)
  BY <1>4, Zenon DEF PackedIs
<1>6. LabelIs(body, opc, dpc, sio, u)
  BY <1>3, <1>5, LabelRead, Zenon
<1>7. ReadsUdt(u, called, calling, data)
  <2>1. /\ called \in Seq(Byte) /\ calling \in Seq(Byte) /\ data \in Seq(Byte)
        /\ c = Len(called) /\ g = Len(calling) /\ d = Len(data)
    BY Zenon DEF Addressed
  <2>2. c \in Nat /\ g \in Nat /\ d \in Nat
    <3>1. \A i \in Byte : i \in Nat
      BY DEF Byte
    <3> QED BY <3>1, Zenon DEF Addressed
  <2> QED BY <1>4, <2>1, <2>2, UdtRead, Zenon
<1>8. View(m) = ReadM3ua(m, body)
  BY <1>4, Zenon DEF View, PackedIs
<1>9. ReadM3ua(m, body) = ReadData(body, u)
  BY <1>4, <1>6, Zenon DEF ReadM3ua, PackedIs, LabelIs
<1>10. ReadData(body, u) = ReadUdt(body, u, Tlv(data))
  BY <1>7, Zenon DEF ReadData, ReadsUdt
<1>11. ReadUdt(body, u, Tlv(data)) = EndIs(body, u, otid, id, op, num)
  BY Zenon DEF ReadsEnd
<1>12. EndIs(body, u, otid, id, op, num) =
         [wellFormed |-> TRUE, opc |-> opc, dpc |-> dpc, sio |-> sio,
          called |-> called, calling |-> calling,
          dtid |-> otid, invokeId |-> Number(id), opCode |-> op, address |-> num]
  BY <1>6, <1>7, Zenon DEF EndIs, LabelIs, ReadsUdt
<1>13. Len(m) <= 1024
  BY <1>4, Zenon DEF PackedIs
<1>14. EncodeMsg(EncodeSccp(data, called \o <<x>>, calling \o <<y>>), Members(opc, dpc, sio, udt)) = m
  BY <1>2, Zenon DEF m
<1>15. ReadBack(m, opc, dpc, sio, called, calling, otid, id, op, num)
  BY <1>8, <1>9, <1>10, <1>11, <1>12, <1>13, Zenon DEF ReadBack
<1> QED BY <1>14, <1>15, Zenon

-----------------------------------------------------------------------------
(* The parameter of a routing label takes sixteen octets.                  *)
LEMMA LabelParameter ==
  ASSUME NEW opc, NEW dpc, NEW sio, FourEach(opc, dpc, sio)
  PROVE  Len(Parameter(<<2, 16>>, opc \o dpc \o sio)) = 16
<1> DEFINE v == opc \o dpc \o sio
           h == <<2, 16, 0, Len(v) + 4>>
           z == Padding(Len(v))
<1>1. Sized(opc, 4) /\ Sized(dpc, 4) /\ Sized(sio, 4)
  BY SizedOf, Zenon DEF FourEach
<1>2. Sized(v, (4 + 4) + 4)
  BY <1>1, SizedTogether, Zenon
<1>3. Len(v) = 12
  BY <1>2 DEF Sized
<1>4. v \in Seq(Byte)
  BY OctetsTogether, Zenon DEF FourEach
<1> HIDE DEF v
<1>5. Parameter(<<2, 16>>, v) = h \o (v \o z) /\ h \in Seq(Byte) /\ Len(h) = 4
  <2>1. 2 \in Byte /\ 16 \in Byte /\ Len(v) + 4 <= 255
    BY <1>3 DEF Byte
  <2> QED BY <1>4, <2>1, ShortParameter
<1>6. z \in Seq(Byte) /\ Len(z) = 0
  <2>1. 12 \in Nat /\ (4 - (12 % 4)) % 4 = 0
    OBVIOUS
  <2>2. Padding(12) \in Seq(Byte) /\ Len(Padding(12)) = (4 - (12 % 4)) % 4
    BY <2>1, PaddingType, Zenon
  <2> QED BY <1>3, <2>1, <2>2, Zenon
<1> HIDE DEF h, z
<1>7. Sized(h, 4) /\ Sized(v, 12) /\ Sized(z, 0)
  BY <1>3, <1>4, <1>5, <1>6, SizedOf, Zenon
<1>8. Sized(h \o (v \o z), 4 + (12 + 0))
  BY <1>7, SizedTogether, Zenon
<1>9. Len(h \o (v \o z)) = 16
  BY <1>8 DEF Sized
<1> QED BY <1>5, <1>9, Zenon DEF v

(* An element of less than 128 octets takes two more.                      *)
LEMMA SizedElement ==
  ASSUME NEW tag \in Byte, NEW c, NEW n, Sized(c, n), n < 128
  PROVE  Sized(Der(tag, c), n + 2)
<1>1. DerLength(Len(c)) = <<n>> /\ n \in Int /\ tag \in Int
  <2>1. Len(c) = n /\ n \in Nat
    BY Zenon DEF Sized
  <2>2. n \in Byte /\ n \in Int /\ tag \in Int
    BY <2>1 DEF Byte
  <2>3. DerLength(n) = <<n>>
    BY <2>2, LengthIsOctets
  <2> QED BY <2>1, <2>2, <2>3, Zenon
<1>2. Sized(<<tag>>, 1) /\ Sized(<<n>>, 1)
  BY <1>1, SizedOne, Zenon
<1>3. Sized((<<tag>> \o <<n>>) \o c, (1 + 1) + n)
  BY <1>2, SizedTogether, Zenon
<1>4. Der(tag, c) = (<<tag>> \o <<n>>) \o c
  BY <1>1, Zenon DEF Der
<1>5. (1 + 1) + n = n + 2
  BY <1>1
<1> QED BY <1>3, <1>4, <1>5, Zenon

(* The sizes of an answer whose number has three characters.               *)
Few == 0..100

(* An element of few octets has two more.                                  *)
LEMMA FewElement ==
  \A t \in Byte : \A c : \A n \in Few : Sized(c, n) => Sized(Der(t, c), n + 2)
<1> SUFFICES ASSUME NEW t \in Byte, NEW c, NEW n \in Few, Sized(c, n)
             PROVE  Sized(Der(t, c), n + 2)
  OBVIOUS
<1>1. n < 128
  BY DEF Few
<1> QED BY <1>1, SizedElement

(* The End that connects to a number of three digits has thirty octets.    *)
LEMMA ThreeAnswered ==
  ASSUME NEW tE \in Byte, NEW tO \in Byte, NEW tP \in Byte, NEW tI \in Byte, NEW tN \in Byte,
         NEW tS \in Byte, NEW tL \in Byte, NEW tA \in Byte, NEW tF \in Byte,
         NEW num, NEW flag, NEW id, NEW code, NEW otid,
         Sized(num, 3), Sized(flag, 1), Sized(id, 1), Sized(code, 1), Sized(otid, 4),
         NEW conn, conn = Der(tL, Der(tA, num)) \o Der(tF, flag),
         NEW args, args = (Der(tN, id) \o Der(tN, code)) \o Der(tS, conn),
         NEW parts, parts = Der(tO, otid) \o Der(tP, Der(tI, args))
  PROVE  Sized(Der(tE, parts), 30)
<1>1. /\ 1 \in Few /\ 3 \in Few /\ 4 \in Few /\ 5 \in Few /\ 10 \in Few /\ 18 \in Few
      /\ 20 \in Few /\ 28 \in Few
      /\ 1 + 2 = 3 /\ 3 + 2 = 5 /\ 4 + 2 = 6 /\ 5 + 2 = 7 /\ 7 + 3 = 10 /\ 10 + 2 = 12
      /\ (3 + 3) + 12 = 18 /\ 18 + 2 = 20 /\ 20 + 2 = 22 /\ 6 + 22 = 28 /\ 28 + 2 = 30
  BY DEF Few
<1>2. /\ Sized(Der(tA, num), 5) /\ Sized(Der(tF, flag), 3) /\ Sized(Der(tN, id), 3)
      /\ Sized(Der(tN, code), 3) /\ Sized(Der(tO, otid), 6)
  <2>1. /\ Sized(Der(tA, num), 3 + 2) /\ Sized(Der(tF, flag), 1 + 2) /\ Sized(Der(tN, id), 1 + 2)
        /\ Sized(Der(tN, code), 1 + 2) /\ Sized(Der(tO, otid), 4 + 2)
    BY <1>1, FewElement, Zenon
  <2> QED BY <1>1, <2>1
<1>3. Sized(Der(tL, Der(tA, num)), 7)
  <2>1. Sized(Der(tL, Der(tA, num)), 5 + 2)
    BY <1>1, <1>2, FewElement, Zenon
  <2> QED BY <1>1, <2>1
<1>4. Sized(conn, 10)
  <2>1. Sized(conn, 7 + 3)
    BY <1>2, <1>3, SizedTogether, Zenon
  <2> QED BY <1>1, <2>1
<1>5. Sized(Der(tS, conn), 12)
  <2>1. Sized(Der(tS, conn), 10 + 2)
    BY <1>1, <1>4, FewElement, Zenon
  <2> QED BY <1>1, <2>1
<1>6. Sized(args, 18)
  <2>1. Sized(args, (3 + 3) + 12)
    BY <1>2, <1>5, SizedTogether, Zenon
  <2> QED BY <1>1, <2>1
<1>7. Sized(Der(tI, args), 20)
  <2>1. Sized(Der(tI, args), 18 + 2)
    BY <1>1, <1>6, FewElement, Zenon
  <2> QED BY <1>1, <2>1
<1>8. Sized(Der(tP, Der(tI, args)), 22)
  <2>1. Sized(Der(tP, Der(tI, args)), 20 + 2)
    BY <1>1, <1>7, FewElement, Zenon
  <2> QED BY <1>1, <2>1
<1>9. Sized(parts, 28)
  <2>1. Sized(parts, 6 + 22)
    BY <1>2, <1>8, SizedTogether, Zenon
  <2> QED BY <1>1, <2>1
<1>10. Sized(Der(tE, parts), 28 + 2)
  BY <1>1, <1>9, FewElement, Zenon
<1> QED BY <1>1, <1>10

-----------------------------------------------------------------------------
(* The tags and lengths of the asn1c runtime.  The least element of a set  *)
(* of numbers is the one that is least, and there is one.                  *)
LEMMA MinIs ==
  ASSUME NEW S \in SUBSET Nat, NEW x \in S, \A y \in S : x <= y
  PROVE  Min(S) = x
<1>1. \A y \in S : (\A z \in S : y <= z) => y = x
  OBVIOUS
<1> QED BY <1>1 DEF Min

(* A set of numbers that is not empty has a least one.                     *)
LEMMA MinIn ==
  ASSUME NEW S \in SUBSET Nat, S # {}
  PROVE  Min(S) \in S /\ \A y \in S : Min(S) <= y
<1>1. PICK x \in S : \A y \in S : x <= y
  BY LeastOf
<1>2. Min(S) = x
  BY <1>1, MinIs
<1> QED BY <1>1, <1>2

(* What is in front of more octets.                                        *)
LEMMA InFront ==
  ASSUME NEW m \in Seq(Byte), NEW r \in Seq(Byte)
  PROVE  /\ m \o r \in Seq(Byte) /\ Len(m) \in Nat /\ Len(m) <= Len(m \o r) /\ Len(m \o r) \in Nat
         /\ \A k \in 1..Len(m) : (m \o r)[k] = m[k]
         /\ \A k \in 1..Len(m) : m[k] \in Byte
<1>1. \A k \in 1..Len(m) : m[k] \in Byte
  BY ElementOfSeq
<1> QED BY <1>1, ConcatProperties, LenProperties

(* The recursive function behind a long tag: one turn of its recursion     *)
(* with g for the function itself, and the equation for the first n turns. *)
TagTurn(m, g, k) ==
  IF k = 1 THEN 0 ELSE IF g[k - 1] < TagBits THEN 128 * g[k - 1] + (m[k] % 128) ELSE g[k - 1]

TagObeys(m, g, n) == g = [k \in 1..Len(m) |-> IF k <= n THEN TagTurn(m, g, k) ELSE 0]

(* There is a function that obeys it.                                      *)
LEMMA TagOfFirst ==
  ASSUME NEW m, Len(m) \in Nat
  PROVE  \A n \in Nat : \E g : TagObeys(m, g, n)
<1> DEFINE S == {n \in Nat : \E g : TagObeys(m, g, n)}
<1>1. 0 \in S
  <2> DEFINE g == [k \in 1..Len(m) |-> 0]
  <2>1. \A k \in 1..Len(m) : ~(k <= 0)
    OBVIOUS
  <2>2. TagObeys(m, g, 0)
    BY <2>1 DEF TagObeys
  <2> QED BY <2>2
<1>2. ASSUME NEW n \in S PROVE n + 1 \in S
  <2>1. PICK f : TagObeys(m, f, n)
    OBVIOUS
  <2> DEFINE g == [k \in 1..Len(m) |-> IF k <= n + 1 THEN TagTurn(m, f, k) ELSE 0]
  <2>2. \A k \in 1..Len(m) : f[k] = IF k <= n THEN TagTurn(m, f, k) ELSE 0
    BY <2>1 DEF TagObeys
  <2>3. \A k \in 1..Len(m) : k <= n => f[k] = g[k]
    <3>1. \A k \in 1..Len(m) : k <= n => k <= n + 1
      OBVIOUS
    <3> QED BY <2>2, <3>1
  <2> HIDE DEF g
  <2>4. ASSUME NEW k \in 1..Len(m), k <= n + 1
        PROVE  TagTurn(m, f, k) = TagTurn(m, g, k)
    <3>1. CASE k = 1
      BY <3>1 DEF TagTurn
    <3>2. CASE k # 1
      <4>1. k - 1 \in 1..Len(m) /\ k - 1 <= n
        BY <2>4, <3>2
      <4>2. f[k - 1] = g[k - 1]
        BY <2>3, <4>1
      <4> QED BY <4>2, Zenon DEF TagTurn
    <3> QED BY <3>1, <3>2
  <2>5. TagObeys(m, g, n + 1)
    BY <2>4 DEF g, TagObeys
  <2> QED BY <2>5
<1>3. S = Nat
  <2>1. S \in SUBSET Nat
    OBVIOUS
  <2> HIDE DEF S
  <2> QED BY <1>1, <1>2, <2>1, NumbersAll
<1> QED BY <1>3

(* The function obeys its equation.                                        *)
LEMMA LongTagDefined ==
  ASSUME NEW m, Len(m) \in Nat
  PROVE  \A k \in 1..Len(m) : LongTagNumber(m)[k] = TagTurn(m, LongTagNumber(m), k)
<1> DEFINE f == LongTagNumber(m)
<1>1. PICK g : TagObeys(m, g, Len(m))
  BY TagOfFirst
<1>2. g = [k \in 1..Len(m) |-> TagTurn(m, g, k)]
  <2>1. \A k \in 1..Len(m) : k <= Len(m)
    OBVIOUS
  <2> QED BY <1>1, <2>1 DEF TagObeys
<1>3. f = [k \in 1..Len(m) |-> TagTurn(m, f, k)]
  BY <1>2, Zenon DEF LongTagNumber, TagTurn
<1> QED BY <1>3, Zenon

(* Its values do not depend on what comes behind.                          *)
LEMMA LongTagInFront ==
  ASSUME NEW m \in Seq(Byte), NEW r \in Seq(Byte)
  PROVE  \A k \in 1..Len(m) : LongTagNumber(m \o r)[k] = LongTagNumber(m)[k]
<1> DEFINE w == m \o r
           f == LongTagNumber(m)
           g == LongTagNumber(w)
           S == {n \in Nat : n + 1 <= Len(m) => g[n + 1] = f[n + 1]}
<1>1. /\ Len(m) \in Nat /\ Len(w) \in Nat /\ Len(m) <= Len(w)
      /\ \A k \in 1..Len(m) : w[k] = m[k]
  BY InFront
<1> HIDE DEF w
<1>2. /\ \A k \in 1..Len(m) : f[k] = TagTurn(m, f, k)
      /\ \A k \in 1..Len(w) : g[k] = TagTurn(w, g, k)
  BY <1>1, LongTagDefined
<1> HIDE DEF f, g
<1>3. 0 \in S
  <2>1. ASSUME 1 <= Len(m) PROVE g[1] = f[1]
    <3>1. 1 \in 1..Len(m) /\ 1 \in 1..Len(w)
      BY <1>1, <2>1
    <3> QED BY <1>2, <3>1 DEF TagTurn
  <2> QED BY <2>1
<1>4. ASSUME NEW n \in S PROVE n + 1 \in S
  <2> SUFFICES ASSUME (n + 1) + 1 <= Len(m) PROVE g[(n + 1) + 1] = f[(n + 1) + 1]
    OBVIOUS
  <2> DEFINE k == (n + 1) + 1
  <2>1. /\ n + 1 <= Len(m) /\ k \in 1..Len(m) /\ k \in 1..Len(w) /\ k # 1 /\ k - 1 = n + 1
    BY <1>1
  <2>2. g[k - 1] = f[k - 1]
    BY <2>1
  <2>3. w[k] = m[k] /\ f[k] = TagTurn(m, f, k) /\ g[k] = TagTurn(w, g, k)
    BY <1>1, <1>2, <2>1
  <2> HIDE DEF k
  <2>4. g[k] = f[k]
    BY <2>1, <2>2, <2>3, Zenon DEF TagTurn
  <2> QED BY <2>4 DEF k
<1>5. S = Nat
  <2>1. S \in SUBSET Nat
    OBVIOUS
  <2> HIDE DEF S
  <2> QED BY <1>3, <1>4, <2>1, NumbersAll
<1>6. ASSUME NEW k \in 1..Len(m) PROVE g[k] = f[k]
  <2>1. k - 1 \in S /\ (k - 1) + 1 = k /\ k <= Len(m)
    BY <1>1, <1>5
  <2> QED BY <2>1
<1> QED BY <1>6 DEF f, g, w

(* The octets a long tag may end at, and what its octets say.              *)
TagEnds(m) == {k \in 2..Len(m) : m[k] < 128}

LongTagOf(m) == LongTag(m, LongTagNumber(m), TagEnds(m))

(* A long tag that is read, or refused, is read or refused alike whatever  *)
(* comes behind the octets there are;                                      *)
LEMMA LongTagInPieces ==
  ASSUME NEW m \in Seq(Byte), NEW r \in Seq(Byte), LongTagOf(m) # Unended
  PROVE  LongTagOf(m \o r) = LongTagOf(m)
<1> DEFINE w == m \o r
           e == TagEnds(m)
           d == TagEnds(w)
           f == LongTagNumber(m)
           g == LongTagNumber(w)
           b == IF d = {} THEN Len(w) ELSE Min(d)
<1>1. /\ Len(m) \in Nat /\ Len(w) \in Nat /\ Len(m) <= Len(w)
      /\ \A k \in 1..Len(m) : w[k] = m[k]
  BY InFront
<1>2. \A k \in 1..Len(m) : g[k] = f[k]
  BY LongTagInFront
<1> HIDE DEF w, f, g
<1>3. e \in SUBSET Nat /\ d \in SUBSET Nat /\ e \subseteq d /\ \A k \in d : k <= Len(m) => k \in e
  BY <1>1 DEF w, TagEnds
<1> HIDE DEF e, d
<1>4. CASE e # {}
  <2>1. Min(e) \in e /\ \A y \in e : Min(e) <= y
    BY <1>3, <1>4, MinIn
  <2>2. Min(e) \in 2..Len(m)
    BY <2>1 DEF e, TagEnds
  <2>3. ASSUME NEW y \in d PROVE Min(e) <= y
    <3>1. CASE y <= Len(m)
      BY <1>3, <2>1, <3>1
    <3>2. CASE ~(y <= Len(m))
      <4>1. y \in Nat
        BY <1>3
      <4> DEFINE x == Min(e)
      <4> HIDE DEF x
      <4>2. x \in 2..Len(m)
        BY <2>2 DEF x
      <4>3. x <= y
        BY <1>1, <3>2, <4>1, <4>2
      <4> QED BY <4>3 DEF x
    <3> QED BY <3>1, <3>2
  <2>4. Min(d) = Min(e)
    BY <1>3, <2>1, <2>3, MinIs
  <2>5. d # {}
    BY <1>3, <1>4
  <2>6. \A k \in 2..Min(e) : w[k] = m[k] /\ g[k] = f[k]
    BY <1>1, <1>2, <2>2
  <2>7. w[1] = m[1] /\ g[Min(e)] = f[Min(e)]
    BY <1>1, <2>2, <2>6
  <2>8. LongTag(w, g, d) = LongTag(m, f, e)
    BY <1>4, <2>4, <2>5, <2>6, <2>7, Zenon DEF LongTag
  <2> QED BY <2>8, Zenon DEF LongTagOf, w, f, g, e, d
<1>5. CASE e = {}
  <2>1. PICK k \in 2..Len(m) : m[k] >= 128 /\ f[k] >= TagBits
    BY <1>5, Zenon DEF LongTagOf, LongTag, f, e
  <2>2. k <= b
    <3>1. CASE d = {}
      BY <1>1, <3>1
    <3>2. CASE d # {}
      <4>1. Min(d) \in d
        BY <1>3, <3>2, MinIn
      <4>2. ~(Min(d) <= Len(m)) /\ Min(d) \in Nat
        BY <1>3, <1>5, <4>1
      <4>3. b = Min(d)
        BY <3>2
      <4> HIDE DEF b
      <4> QED BY <1>1, <4>2, <4>3
    <3> QED BY <3>1, <3>2
  <2>3. k \in 2..b
    <3>1. b \in Nat
      BY <1>1, <1>3, MinIn
    <3> HIDE DEF b
    <3> QED BY <2>2, <3>1
  <2>4. k \in 1..Len(m)
    BY <1>1
  <2>5. w[k] >= 128 /\ g[k] >= TagBits
    BY <1>1, <1>2, <2>1, <2>4, Zenon
  <2>6. LongTag(w, g, d) = Refused
    BY <2>3, <2>5, Zenon DEF LongTag
  <2>7. LongTag(m, f, e) = Refused
    BY <1>5, <2>1, Zenon DEF LongTag
  <2> QED BY <2>6, <2>7, Zenon DEF LongTagOf, w, f, g, e, d
<1> QED BY <1>4, <1>5

(* and so is every tag.                                                    *)
LEMMA TagInPieces ==
  ASSUME NEW m \in Seq(Byte), NEW r \in Seq(Byte), FetchTag(m) # Unended
  PROVE  FetchTag(m \o r) = FetchTag(m)
<1>1. /\ Len(m) \in Nat /\ Len(m \o r) \in Nat /\ Len(m) <= Len(m \o r)
      /\ \A k \in 1..Len(m) : (m \o r)[k] = m[k]
  BY InFront
<1>2. m # <<>>
  BY Zenon DEF FetchTag
<1>3. Len(m) >= 1 /\ (m \o r)[1] = m[1] /\ m \o r # <<>>
  <2>1. Len(m) >= 1
    BY <1>1, <1>2, EmptySeq
  <2>2. 1 \in 1..Len(m) /\ Len(m \o r) # 0
    BY <1>1, <2>1
  <2> QED BY <1>1, <2>1, <2>2
<1>4. CASE m[1] % 32 # 31
  BY <1>2, <1>3, <1>4, Zenon DEF FetchTag
<1>5. CASE m[1] % 32 = 31
  <2>1. FetchTag(m) = LongTagOf(m) /\ FetchTag(m \o r) = LongTagOf(m \o r)
    BY <1>2, <1>3, <1>5, Zenon DEF FetchTag, LongTagOf, TagEnds
  <2> QED BY <2>1, LongTagInPieces, Zenon
<1> QED BY <1>4, <1>5

(* A tag that is taken is one of the octets there are.                     *)
LEMMA TagTaken ==
  ASSUME NEW m \in Seq(Byte)
  PROVE  FetchTag(m).took \in -1..Len(m)
<1>1. Len(m) \in Nat
  BY LenProperties
<1>2. Unended.took = 0 /\ Refused.took = -1
  BY DEF Unended, Refused
<1>3. m # <<>> => Len(m) >= 1
  BY EmptySeq, <1>1
<1>4. ASSUME m # <<>>, m[1] % 32 = 31
      PROVE  FetchTag(m).took \in -1..Len(m)
  <2> DEFINE e == TagEnds(m)
             f == LongTagNumber(m)
  <2>1. FetchTag(m) = LongTag(m, f, e)
    BY <1>4, Zenon DEF FetchTag, TagEnds
  <2>2. e # {} => Min(e) \in 2..Len(m)
    <3>1. e \in SUBSET Nat /\ e \subseteq 2..Len(m)
      BY <1>1 DEF TagEnds
    <3> HIDE DEF e
    <3> QED BY <3>1, MinIn
  <2> HIDE DEF e, f
  <2>3. \/ LongTag(m, f, e) = Refused \/ LongTag(m, f, e) = Unended
        \/ e # {} /\ LongTag(m, f, e) = [took |-> Min(e), tag |-> <<m[1] \div 64, f[Min(e)]>>]
    BY Zenon DEF LongTag
  <2>4. LongTag(m, f, e).took \in {-1, 0} \/ (e # {} /\ LongTag(m, f, e).took = Min(e))
    BY <1>2, <2>3
  <2>5. \A x \in 2..Len(m) : x \in -1..Len(m)
    OBVIOUS
  <2>6. 0 \in -1..Len(m) /\ -1 \in -1..Len(m)
    BY <1>1
  <2> QED BY <2>1, <2>2, <2>4, <2>5, <2>6
<1>5. CASE m = <<>>
  BY <1>1, <1>2, <1>5 DEF FetchTag
<1>6. CASE m # <<>> /\ m[1] % 32 # 31
  BY <1>1, <1>3, <1>6 DEF FetchTag
<1> QED BY <1>4, <1>5, <1>6

(* The octets a length is read from are those in front.                    *)
LEMMA SignificantInFront ==
  ASSUME NEW m \in Seq(Byte), NEW r \in Seq(Byte), NEW k \in Nat, k + 1 <= Len(m)
  PROVE  SubSeq(m \o r, 2, k + 1) = SubSeq(m, 2, k + 1)
<1> DEFINE w == m \o r
           a == SubSeq(w, 2, k + 1)
           b == SubSeq(m, 2, k + 1)
<1>1. /\ w \in Seq(Byte) /\ Len(m) \in Nat /\ Len(w) \in Nat /\ Len(m) <= Len(w)
      /\ \A j \in 1..Len(m) : w[j] = m[j] /\ m[j] \in Byte
  BY InFront
<1> HIDE DEF w
<1>2. \A j \in 2..(k + 1) : w[j] = m[j] /\ m[j] \in Byte
  BY <1>1
<1>3. /\ a \in Seq(Byte) /\ Len(a) = IF 2 <= k + 1 THEN (k + 1) - 2 + 1 ELSE 0
      /\ \A j \in 1..((k + 1) - 2 + 1) : a[j] = w[2 + j - 1]
  BY <1>2, SubSeqProperties
<1>4. /\ b \in Seq(Byte) /\ Len(b) = IF 2 <= k + 1 THEN (k + 1) - 2 + 1 ELSE 0
      /\ \A j \in 1..((k + 1) - 2 + 1) : b[j] = m[2 + j - 1]
  BY <1>2, SubSeqProperties
<1> HIDE DEF a, b
<1>5. Len(a) = Len(b) /\ Len(a) = k
  BY <1>3, <1>4
<1>6. ASSUME NEW j \in 1..k PROVE a[j] = b[j]
  <2>1. j \in 1..((k + 1) - 2 + 1) /\ 2 + j - 1 \in 2..(k + 1)
    OBVIOUS
  <2> QED BY <1>2, <1>3, <1>4, <2>1
<1>7. a = b
  BY <1>3, <1>4, <1>5, <1>6, SeqEqual
<1> QED BY <1>7 DEF a, b, w

(* A long length that is read, or refused, is read or refused alike        *)
(* whatever comes behind;                                                  *)
LEMMA LongLengthInPieces ==
  ASSUME NEW m \in Seq(Byte), NEW r \in Seq(Byte), Len(m) >= 1, NEW count \in Nat \ {0},
         LongLength(m, count) # Unended
  PROVE  LongLength(m \o r, count) = LongLength(m, count)
<1> DEFINE w == m \o r
           a == Min({count, Len(m) - 1})
           b == Min({count, Len(w) - 1})
           U(k) == Significant(SubSeq(m, 2, k + 1))
           V(k) == Significant(SubSeq(w, 2, k + 1))
           TooLong(k) == k < count /\ Len(U(k)) = 8
<1>1. Len(m) \in Nat /\ Len(w) \in Nat /\ Len(m) <= Len(w)
  BY InFront
<1>2. \A k \in Nat : k + 1 <= Len(m) => V(k) = U(k)
  BY SignificantInFront, Zenon
<1>3. /\ a = IF count <= Len(m) - 1 THEN count ELSE Len(m) - 1
      /\ b = IF count <= Len(w) - 1 THEN count ELSE Len(w) - 1
  <2>1. \A c, d \in Nat : Min({c, d}) = IF c <= d THEN c ELSE d
    <3>1. ASSUME NEW c \in Nat, NEW d \in Nat PROVE Min({c, d}) = IF c <= d THEN c ELSE d
      <4>1. CASE c <= d
        <5>1. \A y \in {c, d} : c <= y
          BY <4>1
        <5> QED BY <4>1, <5>1, MinIs
      <4>2. CASE ~(c <= d)
        <5>1. \A y \in {c, d} : d <= y
          BY <4>2
        <5> QED BY <4>2, <5>1, MinIs
      <4> QED BY <4>1, <4>2
    <3> QED BY <3>1
  <2>2. count \in Nat /\ Len(m) - 1 \in Nat /\ Len(w) - 1 \in Nat
    BY <1>1
  <2> QED BY <2>1, <2>2
<1> HIDE DEF w, a, b
<1>4. a \in Nat /\ b \in Nat /\ a <= b /\ a <= Len(m) - 1 /\ a <= count /\ b <= count
  BY <1>1, <1>3
<1> HIDE DEF U, V
<1>5. LongLength(m, count) =
        IF (\E k \in 1..a : TooLong(k)) \/ (a = count /\ NearlyTooLarge(U(count))) THEN Refused
        ELSE IF a < count THEN Unended ELSE [took |-> count + 1, length |-> Value(U(count))]
  BY Zenon DEF LongLength, a, U
<1>6. LongLength(w, count) =
        IF (\E k \in 1..b : k < count /\ Len(V(k)) = 8) \/ (b = count /\ NearlyTooLarge(V(count))) THEN Refused
        ELSE IF b < count THEN Unended ELSE [took |-> count + 1, length |-> Value(V(count))]
  BY Zenon DEF LongLength, b, V
<1>7. CASE a = count
  <2>1. b = count /\ ~(a < count) /\ ~(b < count) /\ count + 1 <= Len(m)
    BY <1>1, <1>4, <1>7
  <2>2. \A k \in 1..count : V(k) = U(k)
    BY <1>1, <1>2, <2>1
  <2>3. V(count) = U(count)
    BY <2>2
  <2>4. LongLength(w, count) = LongLength(m, count)
    BY <1>5, <1>6, <1>7, <2>1, <2>2, <2>3, Zenon
  <2> QED BY <2>4 DEF w
<1>8. CASE a # count
  <2>1. a < count
    BY <1>4, <1>8
  <2>2. PICK k \in 1..a : TooLong(k)
    BY <1>5, <1>8, <2>1, Zenon
  <2>3. k \in 1..b /\ k \in Nat /\ k + 1 <= Len(m)
    BY <1>1, <1>4
  <2>4. V(k) = U(k)
    BY <1>2, <2>3
  <2>5. LongLength(w, count) = Refused
    BY <1>6, <2>2, <2>3, <2>4, Zenon
  <2>6. LongLength(m, count) = Refused
    BY <1>5, <2>2, Zenon
  <2> QED BY <2>5, <2>6 DEF w
<1> QED BY <1>7, <1>8

(* The first octet decides what the length is.                             *)
LengthBy(c, m) ==
  IF m[1] < 128 THEN [took |-> 1, length |-> m[1]]
  ELSE IF m[1] = 128 THEN [took |-> 1, length |-> IF c THEN Indefinite ELSE 0]
  ELSE IF m[1] = 255 THEN Refused ELSE LongLength(m, m[1] - 128)

(* The five cases of ber_fetch_length are these four, and the octets of a  *)
(* long length number 1 to 126.                                            *)
LEMMA FirstDecides ==
  ASSUME NEW c, NEW m, m # <<>>, m[1] \in Byte
  PROVE  /\ FetchLength(c, m) = LengthBy(c, m)
         /\ m[1] < 128 \/ m[1] = 128 \/ m[1] = 255 \/ m[1] - 128 \in 1..126
<1> DEFINE x == m[1]
<1>1. x \in 0..255
  BY DEF Byte
<1> HIDE DEF x
<1>2. \/ x < 128 /\ x # 128 /\ x \notin 129..254 /\ x # 255
      \/ ~(x < 128) /\ x = 128 /\ x \notin 129..254 /\ x # 255
      \/ ~(x < 128) /\ x # 128 /\ x \in 129..254 /\ x # 255
      \/ ~(x < 128) /\ x # 128 /\ x \notin 129..254 /\ x = 255
  BY <1>1
<1>3. FetchLength(c, m) = LengthBy(c, m)
  BY <1>2, Zenon DEF FetchLength, LengthBy, x
<1>4. x < 128 \/ x = 128 \/ x = 255 \/ x - 128 \in 1..126
  BY <1>1
<1> QED BY <1>3, <1>4, Zenon DEF x

(* and so is every length.                                                 *)
LEMMA LengthInPieces ==
  ASSUME NEW m \in Seq(Byte), NEW r \in Seq(Byte), NEW c \in BOOLEAN, FetchLength(c, m) # Unended
  PROVE  FetchLength(c, m \o r) = FetchLength(c, m)
<1>1. m # <<>>
  BY Zenon DEF FetchLength
<1>2. /\ Len(m) >= 1 /\ (m \o r)[1] = m[1] /\ m \o r # <<>> /\ m[1] \in Byte
  <2>1. /\ Len(m) \in Nat /\ Len(m \o r) \in Nat /\ Len(m) <= Len(m \o r)
        /\ \A k \in 1..Len(m) : (m \o r)[k] = m[k] /\ m[k] \in Byte
    BY InFront
  <2>2. Len(m) >= 1
    BY <1>1, <2>1, EmptySeq
  <2>3. 1 \in 1..Len(m) /\ Len(m \o r) # 0
    BY <2>1, <2>2
  <2> QED BY <2>1, <2>2, <2>3
<1>3. FetchLength(c, m) = LengthBy(c, m) /\ FetchLength(c, m \o r) = LengthBy(c, m \o r)
  BY <1>1, <1>2, FirstDecides, Zenon
<1>4. CASE m[1] < 128 \/ m[1] = 128 \/ m[1] = 255
  <2> DEFINE w == m \o r
  <2> HIDE DEF w
  <2>1. w[1] = m[1]
    BY <1>2 DEF w
  <2>2. LengthBy(c, w) = LengthBy(c, m)
    BY <1>4, <2>1 DEF LengthBy
  <2> QED BY <1>3, <2>2, Zenon DEF w
<1>5. CASE ~(m[1] < 128 \/ m[1] = 128 \/ m[1] = 255)
  <2> DEFINE n == m[1] - 128
  <2>1. FetchLength(c, m) = LongLength(m, n) /\ FetchLength(c, m \o r) = LongLength(m \o r, n)
    BY <1>2, <1>3, <1>5, Zenon DEF LengthBy
  <2>2. n \in 1..126
    BY <1>1, <1>2, <1>5, FirstDecides, Zenon
  <2> HIDE DEF n
  <2>3. n \in Nat \ {0}
    BY <2>2
  <2> QED BY <1>2, <2>1, <2>3, LongLengthInPieces, Zenon
<1> QED BY <1>4, <1>5, Zenon

(* A length that is taken is one of the octets there are.                  *)
LEMMA LengthTaken ==
  ASSUME NEW m \in Seq(Byte), NEW c \in BOOLEAN
  PROVE  FetchLength(c, m).took \in -1..Len(m)
<1>1. Len(m) \in Nat /\ -1 \in -1..Len(m) /\ 0 \in -1..Len(m)
  BY LenProperties
<1>2. Unended.took = 0 /\ Refused.took = -1
  BY DEF Unended, Refused
<1>3. CASE m = <<>>
  BY <1>1, <1>2, <1>3 DEF FetchLength
<1>4. CASE m # <<>>
  <2>1. Len(m) >= 1 /\ m[1] \in Byte
    BY <1>1, <1>4, EmptySeq, ElementOfSeq
  <2>2. 1 \in -1..Len(m)
    BY <1>1, <2>1
  <2>3. FetchLength(c, m) = LengthBy(c, m)
    BY <1>4, <2>1, FirstDecides, Zenon
  <2>4. CASE m[1] < 128 \/ m[1] = 128 \/ m[1] = 255
    <3>1. FetchLength(c, m).took \in {1, -1}
      BY <1>2, <2>3, <2>4 DEF LengthBy
    <3> QED BY <1>1, <2>2, <3>1
  <2>5. CASE ~(m[1] < 128 \/ m[1] = 128 \/ m[1] = 255)
    <3> DEFINE n == m[1] - 128
               a == Min({n, Len(m) - 1})
    <3>1. FetchLength(c, m) = LongLength(m, n) /\ n \in 1..126
      BY <1>4, <2>1, <2>3, <2>5, FirstDecides, Zenon DEF LengthBy
    <3> HIDE DEF n
    <3>2. a \in {n, Len(m) - 1} /\ a <= Len(m) - 1
      <4> DEFINE S == {n, Len(m) - 1}
      <4>1. S \in SUBSET Nat /\ S # {} /\ Len(m) - 1 \in S
        BY <1>1, <2>1, <3>1
      <4> HIDE DEF S
      <4>2. Min(S) \in S /\ Min(S) <= Len(m) - 1
        BY <4>1, MinIn
      <4> QED BY <4>2 DEF S
    <3> HIDE DEF a
    <3>3. \/ LongLength(m, n) = Refused \/ LongLength(m, n) = Unended
          \/ ~(a < n) /\ \E v : LongLength(m, n) = [took |-> n + 1, length |-> v]
      BY Zenon DEF LongLength, a
    <3>4. \/ LongLength(m, n).took \in {-1, 0} \/ (~(a < n) /\ LongLength(m, n).took = n + 1)
      BY <1>2, <3>3
    <3>5. ~(a < n) => n + 1 \in -1..Len(m)
      BY <1>1, <2>1, <3>1, <3>2
    <3> QED BY <1>1, <3>1, <3>4, <3>5
  <2> QED BY <2>4, <2>5
<1> QED BY <1>3, <1>4

(* The octets of a length without the zeros in front.                      *)
LEMMA SignificantOf ==
  ASSUME NEW s \in Seq(Byte)
  PROVE  /\ Len(Significant(s)) <= Len(s) /\ Len(Significant(s)) \in Nat
         /\ Len(s) >= 1 /\ s[1] # 0 => Significant(s) = s
<1> DEFINE used == {k \in DOMAIN s : s[k] # 0}
           a == Min(used)
<1>1. Len(s) \in Nat /\ DOMAIN s = 1..Len(s)
  BY LenProperties
<1>2. Significant(s) = IF used = {} THEN <<>> ELSE SubSeq(s, a, Len(s))
  BY Zenon DEF Significant
<1>3. used \in SUBSET Nat /\ used \subseteq 1..Len(s)
  BY <1>1
<1>4. CASE used = {}
  <2>1. Significant(s) = <<>>
    BY <1>2, <1>4
  <2>2. Len(s) >= 1 => s[1] = 0
    <3>1. ASSUME Len(s) >= 1, s[1] # 0 PROVE FALSE
      <4>1. 1 \in DOMAIN s
        BY <1>1, <3>1
      <4>2. 1 \in used
        BY <3>1, <4>1
      <4> QED BY <1>4, <4>2
    <3> QED BY <3>1
  <2> QED BY <1>1, <2>1, <2>2
<1>5. CASE used # {}
  <2>1. a \in 1..Len(s)
    BY <1>3, <1>5, MinIn
  <2>2. Len(s) >= 1 /\ s[1] # 0 => a = 1
    <3>1. ASSUME Len(s) >= 1, s[1] # 0 PROVE a = 1
      <4>1. 1 \in used
        BY <1>1, <3>1
      <4>2. \A y \in used : 1 <= y
        BY <1>3
      <4> HIDE DEF used
      <4> QED BY <1>3, <4>1, <4>2, MinIs
    <3> QED BY <3>1
  <2>3. Significant(s) = SubSeq(s, a, Len(s))
    BY <1>2, <1>5
  <2> HIDE DEF a, used
  <2>4. \A k \in a..Len(s) : s[k] \in Byte
    BY <1>1, <2>1, ElementOfSeq
  <2>5. /\ SubSeq(s, a, Len(s)) \in Seq(Byte)
        /\ Len(SubSeq(s, a, Len(s))) = IF a <= Len(s) THEN Len(s) - a + 1 ELSE 0
        /\ \A k \in 1..(Len(s) - a + 1) : SubSeq(s, a, Len(s))[k] = s[a + k - 1]
    BY <1>1, <2>1, <2>4, SubSeqProperties
  <2>6. ASSUME a = 1 PROVE SubSeq(s, a, Len(s)) = s
    <3> DEFINE t == SubSeq(s, a, Len(s))
    <3>1. t \in Seq(Byte) /\ Len(t) = Len(s) /\ \A k \in 1..Len(s) : t[k] = s[k]
      BY <1>1, <2>1, <2>5, <2>6
    <3> HIDE DEF t
    <3>2. t = s
      BY <3>1, SeqEqual
    <3> QED BY <3>2 DEF t
  <2>7. Len(SubSeq(s, a, Len(s))) <= Len(s) /\ Len(SubSeq(s, a, Len(s))) \in Nat
    BY <1>1, <2>1, <2>5
  <2> QED BY <2>2, <2>3, <2>6, <2>7
<1> QED BY <1>4, <1>5

(* A sequence with an octet put in front of it.                            *)
LEMMA OneInFront ==
  ASSUME NEW b \in Byte, NEW s \in Seq(Byte)
  PROVE  /\ <<b>> \o s \in Seq(Byte) /\ Len(<<b>> \o s) = Len(s) + 1 /\ Len(s) \in Nat
         /\ (<<b>> \o s)[1] = b
         /\ \A k \in 1..Len(s) : (<<b>> \o s)[k + 1] = s[k] /\ s[k] \in Byte
<1>1. ASSUME NEW p \in Seq(Byte), Len(p) = 1
      PROVE  /\ p \o s \in Seq(Byte) /\ Len(p \o s) = Len(s) + 1 /\ (p \o s)[1] = p[1]
             /\ \A k \in 1..Len(s) : (p \o s)[k + 1] = s[k]
  <2>1. /\ p \o s \in Seq(Byte) /\ Len(p \o s) = Len(p) + Len(s)
        /\ \A k \in 1..(Len(p) + Len(s)) :
             (p \o s)[k] = IF k <= Len(p) THEN p[k] ELSE s[k - Len(p)]
    BY ConcatProperties
  <2>2. /\ Len(s) \in Nat /\ 1 \in 1..(1 + Len(s))
        /\ \A k \in 1..Len(s) : k + 1 \in 1..(1 + Len(s)) /\ ~(k + 1 <= 1) /\ (k + 1) - 1 = k
    BY LenProperties
  <2> QED BY <1>1, <2>1, <2>2
<1>2. <<b>> \in Seq(Byte) /\ Len(<<b>>) = 1 /\ <<b>>[1] = b
  OBVIOUS
<1>3. Len(s) \in Nat /\ \A k \in 1..Len(s) : s[k] \in Byte
  BY LenProperties, ElementOfSeq
<1> QED BY <1>1, <1>2, <1>3

(* A long length whose first octet is not zero is read as it stands.       *)
LEMMA LongLengthRead ==
  ASSUME NEW s \in Seq(Byte), Len(s) \in 1..3, s[1] # 0, NEW r \in Seq(Byte), NEW b \in Byte
  PROVE  LongLength(<<b>> \o s \o r, Len(s)) = [took |-> Len(s) + 1, length |-> Value(s)]
<1> DEFINE h == <<b>> \o s
           w == h \o r
           n == Len(s)
           a == Min({n, Len(w) - 1})
           U(k) == Significant(SubSeq(w, 2, k + 1))
<1>1. /\ h \in Seq(Byte) /\ Len(h) = n + 1 /\ n \in Nat
      /\ \A k \in 1..n : h[k + 1] = s[k] /\ s[k] \in Byte
  BY OneInFront
<1> HIDE DEF h
<1>2. Len(w) \in Nat /\ Len(w) >= n + 1
  BY <1>1, InFront
<1>3. \A k \in 1..n : SubSeq(w, 2, k + 1) = SubSeq(h, 2, k + 1)
  BY <1>1, SignificantInFront
<1>4. \A k \in 1..n : /\ SubSeq(h, 2, k + 1) \in Seq(Byte) /\ Len(SubSeq(h, 2, k + 1)) = k
                      /\ \A j \in 1..k : SubSeq(h, 2, k + 1)[j] = s[j]
  <2> SUFFICES ASSUME NEW k \in 1..n
               PROVE  /\ SubSeq(h, 2, k + 1) \in Seq(Byte) /\ Len(SubSeq(h, 2, k + 1)) = k
                      /\ \A j \in 1..k : SubSeq(h, 2, k + 1)[j] = s[j]
    OBVIOUS
  <2>1. \A j \in 2..(k + 1) : h[j] \in Byte
    <3>1. \A j \in 2..(k + 1) : j \in 1..Len(h)
      BY <1>1
    <3> QED BY <1>1, <3>1, ElementOfSeq
  <2>2. /\ SubSeq(h, 2, k + 1) \in Seq(Byte)
        /\ Len(SubSeq(h, 2, k + 1)) = IF 2 <= k + 1 THEN (k + 1) - 2 + 1 ELSE 0
        /\ \A j \in 1..((k + 1) - 2 + 1) : SubSeq(h, 2, k + 1)[j] = h[2 + j - 1]
    BY <2>1, SubSeqProperties
  <2>3. k \in Nat /\ k >= 1
    BY <1>1
  <2>4. \A j \in 1..k : j \in 1..n /\ j \in 1..((k + 1) - 2 + 1) /\ 2 + j - 1 = j + 1
    BY <1>1
  <2> QED BY <1>1, <2>2, <2>3, <2>4
<1>5. SubSeq(h, 2, n + 1) = s
  <2> DEFINE t == SubSeq(h, 2, n + 1)
  <2>1. n \in 1..n
    BY <1>1
  <2>2. t \in Seq(Byte) /\ Len(t) = n /\ \A j \in 1..n : t[j] = s[j]
    BY <1>4, <2>1
  <2> HIDE DEF t
  <2>3. t = s
    BY <2>2, SeqEqual
  <2> QED BY <2>3 DEF t
<1>6. a = n
  <2> DEFINE S == {n, Len(w) - 1}
  <2>1. S \in SUBSET Nat /\ n \in S /\ \A y \in S : n <= y
    BY <1>1, <1>2
  <2> HIDE DEF S
  <2>2. Min(S) = n
    BY <2>1, MinIs
  <2> QED BY <2>2 DEF S
<1>7. U(n) = s
  <2>1. n \in 1..n
    BY <1>1
  <2>2. Significant(s) = s
    BY <1>1, SignificantOf
  <2> QED BY <1>3, <1>5, <2>1, <2>2, Zenon
<1>8. \A k \in 1..n : Len(U(k)) # 8
  <2> SUFFICES ASSUME NEW k \in 1..n PROVE Len(U(k)) # 8
    OBVIOUS
  <2>1. Len(U(k)) <= k /\ Len(U(k)) \in Nat
    BY <1>3, <1>4, SignificantOf
  <2>2. k \in 1..3
    <3>1. \A y \in 1..3 : \A x \in 1..y : x \in 1..3
      OBVIOUS
    <3> QED BY <3>1, Zenon
  <2> DEFINE x == Len(U(k))
  <2> HIDE DEF x
  <2>3. x <= k /\ x \in Nat
    BY <2>1, Zenon DEF x
  <2>4. x # 8
    BY <2>2, <2>3
  <2> QED BY <2>4, Zenon DEF x
<1>9. ~NearlyTooLarge(s)
  <2>1. \A x \in 1..3 : x # 8
    OBVIOUS
  <2> QED BY <2>1, Zenon DEF NearlyTooLarge
<1>10. LongLength(w, n) =
         IF (\E k \in 1..a : k < n /\ Len(U(k)) = 8) \/ (a = n /\ NearlyTooLarge(U(n))) THEN Refused
         ELSE IF a < n THEN Unended ELSE [took |-> n + 1, length |-> Value(U(n))]
  BY Zenon DEF LongLength
<1>11. ~(n < n)
  BY <1>1
<1> HIDE DEF U, a, w, n
<1>12. LongLength(w, n) = [took |-> n + 1, length |-> Value(s)]
  BY <1>6, <1>7, <1>8, <1>9, <1>10, <1>11, Zenon
<1> QED BY <1>12 DEF w, h, n

(* What the first octet of a length takes with it.                         *)
LEMMA LengthBehind ==
  ASSUME NEW s \in Seq(Byte), Len(s) \in 1..3, s[1] # 0, NEW r \in Seq(Byte), NEW c
  PROVE  FetchLength(c, <<128 + Len(s)>> \o s \o r) = [took |-> Len(s) + 1, length |-> Value(s)]
<1> DEFINE b == 128 + Len(s)
           w == <<b>> \o s \o r
<1>1. b \in Byte /\ b - 128 = Len(s) /\ ~(b < 128) /\ b # 128 /\ b # 255
  <2>1. \A x \in 1..3 : /\ 128 + x \in Byte /\ (128 + x) - 128 = x
                        /\ ~(128 + x < 128) /\ 128 + x # 128 /\ 128 + x # 255
    BY DEF Byte
  <2> DEFINE x == Len(s)
  <2>2. x \in 1..3
    OBVIOUS
  <2> HIDE DEF x
  <2>3. /\ 128 + x \in Byte /\ (128 + x) - 128 = x
        /\ ~(128 + x < 128) /\ 128 + x # 128 /\ 128 + x # 255
    BY <2>1, <2>2
  <2> QED BY <2>3, Zenon DEF x
<1> HIDE DEF b
<1>2. /\ <<b>> \o s \in Seq(Byte) /\ Len(<<b>> \o s) = Len(s) + 1 /\ Len(s) \in Nat
      /\ (<<b>> \o s)[1] = b
  BY <1>1, OneInFront
<1>3. w \in Seq(Byte) /\ w[1] = b /\ Len(w) >= 1
  <2> DEFINE h == <<b>> \o s
  <2> HIDE DEF h
  <2>1. h \in Seq(Byte) /\ Len(h) = Len(s) + 1 /\ h[1] = b /\ 1 \in 1..Len(h)
    BY <1>2 DEF h
  <2>2. h \o r \in Seq(Byte) /\ (h \o r)[1] = h[1] /\ Len(h) <= Len(h \o r) /\ Len(h \o r) \in Nat
    BY <2>1, InFront
  <2> QED BY <1>2, <2>1, <2>2 DEF h
<1>4. w # <<>>
  <2> HIDE DEF w
  <2> QED BY <1>3
<1>5. LongLength(w, Len(s)) = [took |-> Len(s) + 1, length |-> Value(s)]
  BY <1>1, LongLengthRead, Zenon
<1> HIDE DEF w
<1>6. FetchLength(c, w) = LengthBy(c, w)
  BY <1>1, <1>3, <1>4, FirstDecides, Zenon
<1>7. LengthBy(c, w) = LongLength(w, Len(s))
  BY <1>1, <1>3, Zenon DEF LengthBy
<1> QED BY <1>5, <1>6, <1>7, Zenon DEF w, b

(* The lengths of messages are those of at most three octets.              *)
ShortLength == {n \in Nat : n \div 65536 <= 255}

(* der_tlv_length_serialize writes one octet, or the count of those that   *)
(* follow, the first of them not zero.                                     *)
LEMMA LengthForms ==
  ASSUME NEW n \in ShortLength
  PROVE  \/ n \in Byte /\ n < 128 /\ LengthOctets(n) = <<n>>
         \/ n \in Byte /\ n # 0 /\ LengthOctets(n) = <<129, n>>
         \/ \E x, y \in Byte : x # 0 /\ 256 * x + y = n /\ LengthOctets(n) = <<130, x, y>>
         \/ \E x, y, z \in Byte :
              x # 0 /\ 65536 * x + 256 * y + z = n /\ LengthOctets(n) = <<131, x, y, z>>
<1>1. n \in Nat
  BY SMT DEF ShortLength
<1>2. CASE n <= 127
  <2>1. LengthOctets(n) = <<n>>
    BY <1>1, <1>2, SMT DEF LengthOctets
  <2> QED BY <1>1, <1>2, <2>1, SMT DEF Byte
<1>3. CASE n \in 128..255
  <2>1. LengthOctets(n) = <<129, n>>
    BY <1>3, SMT DEF LengthOctets
  <2> QED BY <1>3, <2>1, SMT DEF Byte
<1>4. CASE n \div 256 \in 1..255
  <2> DEFINE x == n \div 256
             y == n % 256
  <2>1. LengthOctets(n) = <<130, x, y>>
    BY <1>1, <1>4, SMT DEF LengthOctets
  <2>2. x \in Byte /\ y \in Byte /\ x # 0 /\ 256 * x + y = n
    BY <1>1, <1>4, SMT DEF Byte
  <2> HIDE DEF x, y
  <2> QED BY <2>1, <2>2, SMT
<1>5. CASE n \div 65536 \in 1..255
  <2> DEFINE x == n \div 65536
             y == (n \div 256) % 256
             z == n % 256
  <2>1. LengthOctets(n) = <<131, x, y, z>>
    BY <1>1, <1>5, SMT DEF LengthOctets
  <2>2. x \in Byte /\ y \in Byte /\ z \in Byte /\ x # 0 /\ 65536 * x + 256 * y + z = n
    BY <1>1, <1>5, SMT DEF Byte
  <2> HIDE DEF x, y, z
  <2> QED BY <2>1, <2>2, SMT
<1>6. n <= 127 \/ n \in 128..255 \/ n \div 256 \in 1..255 \/ n \div 65536 \in 1..255
  BY SMT DEF ShortLength
<1> QED BY <1>2, <1>3, <1>4, <1>5, <1>6, SMT

(* Two, three and four octets written out, as one in front of the others.  *)
LEMMA OctetsInFront ==
  /\ \A b, x \in Byte : <<b, x>> = <<b>> \o <<x>> /\ <<x>> \in Seq(Byte) /\ Len(<<x>>) = 1
  /\ \A b, x, y \in Byte : /\ <<b, x, y>> = <<b>> \o <<x, y>>
                            /\ <<x, y>> \in Seq(Byte) /\ Len(<<x, y>>) = 2
  /\ \A b, x, y, z \in Byte : /\ <<b, x, y, z>> = <<b>> \o <<x, y, z>>
                               /\ <<x, y, z>> \in Seq(Byte) /\ Len(<<x, y, z>>) = 3
<1>1. ASSUME NEW b \in Byte, NEW x \in Byte
      PROVE  <<b, x>> = <<b>> \o <<x>> /\ <<x>> \in Seq(Byte) /\ Len(<<x>>) = 1
  <2>1. <<b, x>> \in Seq(Byte) /\ <<x>> \in Seq(Byte) /\ Len(<<x>>) = 1
    OBVIOUS
  <2>2. <<b>> \o <<x>> \in Seq(Byte) /\ Len(<<b>> \o <<x>>) = 2
    BY <2>1, OneInFront
  <2>3. \A k \in 1..2 : <<b, x>>[k] = (<<b>> \o <<x>>)[k]
    OBVIOUS
  <2> QED BY <2>1, <2>2, <2>3, SeqEqual
<1>2. ASSUME NEW b \in Byte, NEW x \in Byte, NEW y \in Byte
      PROVE  <<b, x, y>> = <<b>> \o <<x, y>> /\ <<x, y>> \in Seq(Byte) /\ Len(<<x, y>>) = 2
  <2>1. <<b, x, y>> \in Seq(Byte) /\ <<x, y>> \in Seq(Byte) /\ Len(<<x, y>>) = 2
    OBVIOUS
  <2>2. <<b>> \o <<x, y>> \in Seq(Byte) /\ Len(<<b>> \o <<x, y>>) = 3
    BY <2>1, OneInFront
  <2>3. \A k \in 1..3 : <<b, x, y>>[k] = (<<b>> \o <<x, y>>)[k]
    OBVIOUS
  <2> QED BY <2>1, <2>2, <2>3, SeqEqual
<1>3. ASSUME NEW b \in Byte, NEW x \in Byte, NEW y \in Byte, NEW z \in Byte
      PROVE  <<b, x, y, z>> = <<b>> \o <<x, y, z>> /\ <<x, y, z>> \in Seq(Byte) /\ Len(<<x, y, z>>) = 3
  <2>1. <<b, x, y, z>> \in Seq(Byte) /\ <<x, y, z>> \in Seq(Byte) /\ Len(<<x, y, z>>) = 3
    OBVIOUS
  <2>2. <<b>> \o <<x, y, z>> \in Seq(Byte) /\ Len(<<b>> \o <<x, y, z>>) = 4
    BY <2>1, OneInFront
  <2>3. \A k \in 1..4 : <<b, x, y, z>>[k] = (<<b>> \o <<x, y, z>>)[k]
    OBVIOUS
  <2> QED BY <2>1, <2>2, <2>3, SeqEqual
<1> QED BY <1>1, <1>2, <1>3

(* A short length is read back as it was written, whatever comes after it. *)
LEMMA LengthReadBack ==
  ASSUME NEW n \in ShortLength, NEW r \in Seq(Byte), NEW c
  PROVE  /\ LengthOctets(n) \in Seq(Byte)
         /\ FetchLength(c, LengthOctets(n) \o r) = [took |-> Len(LengthOctets(n)), length |-> n]
<1>1. CASE n \in Byte /\ n < 128 /\ LengthOctets(n) = <<n>>
  <2>1. <<n>> \in Seq(Byte) /\ Len(<<n>>) = 1 /\ <<n>>[1] = n
    BY <1>1
  <2> DEFINE h == <<n>>
             w == h \o r
  <2> HIDE DEF h
  <2>2. /\ w \in Seq(Byte) /\ w[1] = h[1] /\ Len(w) \in Nat /\ Len(w) >= 1
    <3>1. h \in Seq(Byte) /\ Len(h) = 1 /\ 1 \in 1..Len(h)
      BY <2>1 DEF h
    <3> QED BY <3>1, InFront
  <2>3. w[1] = n
    BY <2>1, <2>2 DEF h
  <2> HIDE DEF w
  <2>4. w # <<>>
    BY <2>2
  <2>5. FetchLength(c, w) = LengthBy(c, w)
    BY <2>2, <2>3, <2>4, <1>1, FirstDecides, Zenon
  <2>6. LengthBy(c, w) = [took |-> 1, length |-> n]
    BY <1>1, <2>3 DEF LengthBy
  <2> QED BY <1>1, <2>1, <2>5, <2>6, Zenon DEF w, h
<1>2. ASSUME NEW s \in Seq(Byte), Len(s) \in 1..3, s[1] # 0, Value(s) = n,
             NEW b \in Byte, b = 128 + Len(s), LengthOctets(n) = <<b>> \o s
      PROVE  /\ LengthOctets(n) \in Seq(Byte)
             /\ FetchLength(c, LengthOctets(n) \o r) = [took |-> Len(LengthOctets(n)), length |-> n]
  <2>1. FetchLength(c, LengthOctets(n) \o r) = [took |-> Len(s) + 1, length |-> n]
    BY <1>2, LengthBehind, Zenon
  <2>2. <<b>> \o s \in Seq(Byte) /\ Len(<<b>> \o s) = Len(s) + 1
    BY <1>2, OneInFront
  <2> QED BY <1>2, <2>1, <2>2
<1>3. 129 \in Byte /\ 130 \in Byte /\ 131 \in Byte
  BY DEF Byte
<1>4. CASE n \in Byte /\ n # 0 /\ LengthOctets(n) = <<129, n>>
  <2>1. <<129, n>> = <<129>> \o <<n>> /\ <<n>> \in Seq(Byte) /\ Len(<<n>>) = 1
    BY <1>3, <1>4, OctetsInFront, ZenonT(40)
  <2>2. Len(<<n>>) \in 1..3 /\ 129 = 128 + Len(<<n>>)
    BY <2>1
  <2>3. Value(<<n>>) = n /\ <<n>>[1] # 0
    BY <1>4 DEF Value
  <2> QED BY <1>2, <1>3, <1>4, <2>1, <2>2, <2>3, Zenon
<1>5. ASSUME NEW x \in Byte, NEW y \in Byte, x # 0, 256 * x + y = n, LengthOctets(n) = <<130, x, y>>
      PROVE  /\ LengthOctets(n) \in Seq(Byte)
             /\ FetchLength(c, LengthOctets(n) \o r) = [took |-> Len(LengthOctets(n)), length |-> n]
  <2>1. <<130, x, y>> = <<130>> \o <<x, y>> /\ <<x, y>> \in Seq(Byte) /\ Len(<<x, y>>) = 2
    <3>1. \A b \in Byte : /\ <<b, x, y>> = <<b>> \o <<x, y>>
                         /\ <<x, y>> \in Seq(Byte) /\ Len(<<x, y>>) = 2
      BY OctetsInFront, Zenon
    <3> QED BY <1>3, <3>1, Zenon
  <2>2. Len(<<x, y>>) \in 1..3 /\ 130 = 128 + Len(<<x, y>>)
    BY <2>1
  <2>3. Value(<<x, y>>) = n /\ <<x, y>>[1] # 0
    BY <1>5 DEF Value
  <2> QED BY <1>2, <1>3, <1>5, <2>1, <2>2, <2>3, Zenon
<1>6. ASSUME NEW x \in Byte, NEW y \in Byte, NEW z \in Byte, x # 0,
             65536 * x + 256 * y + z = n, LengthOctets(n) = <<131, x, y, z>>
      PROVE  /\ LengthOctets(n) \in Seq(Byte)
             /\ FetchLength(c, LengthOctets(n) \o r) = [took |-> Len(LengthOctets(n)), length |-> n]
  <2>1. <<131, x, y, z>> = <<131>> \o <<x, y, z>> /\ <<x, y, z>> \in Seq(Byte) /\ Len(<<x, y, z>>) = 3
    <3>1. \A b \in Byte : /\ <<b, x, y, z>> = <<b>> \o <<x, y, z>>
                         /\ <<x, y, z>> \in Seq(Byte) /\ Len(<<x, y, z>>) = 3
      BY OctetsInFront, Zenon
    <3> QED BY <1>3, <3>1, Zenon
  <2>2. Len(<<x, y, z>>) \in 1..3 /\ 131 = 128 + Len(<<x, y, z>>)
    BY <2>1
  <2>3. Value(<<x, y, z>>) = n /\ <<x, y, z>>[1] # 0
    BY <1>6, SMT DEF Value
  <2>4. LengthOctets(n) = <<131, x, y, z>>
    BY <1>6, SMT
  <2> QED BY <1>2, <1>3, <2>1, <2>2, <2>3, <2>4, Zenon
<1> QED BY <1>1, <1>4, <1>5, <1>6, LengthForms, SMT

(* The octets in front of a length: the tag with the form bit in it.       *)
TagWritten(class, number, constructed) ==
  [TagOctets(<<class, number>>) EXCEPT ![1] = IF constructed THEN @ + 32 ELSE @]

FirstOctet(class, number, constructed) ==
  64 * class + (IF number <= 30 THEN number ELSE 31) + (IF constructed THEN 32 ELSE 0)

(* A tag is written as one octet or as two.                                *)
LEMMA TagForms ==
  ASSUME NEW class \in 0..3, NEW number \in 0..127, NEW constructed \in BOOLEAN
  PROVE  TagWritten(class, number, constructed) =
           IF number <= 30 THEN <<FirstOctet(class, number, constructed)>>
           ELSE <<FirstOctet(class, number, constructed), number>>
<1>1. CASE number <= 30 /\ constructed
  BY <1>1 DEF TagWritten, TagOctets, FirstOctet
<1>2. CASE number <= 30 /\ ~constructed
  BY <1>2 DEF TagWritten, TagOctets, FirstOctet
<1>3. CASE ~(number <= 30) /\ constructed
  BY <1>3 DEF TagWritten, TagOctets, FirstOctet
<1>4. CASE ~(number <= 30) /\ ~constructed
  BY <1>4 DEF TagWritten, TagOctets, FirstOctet
<1> QED BY <1>1, <1>2, <1>3, <1>4

(* What the first octet of a tag says.                                     *)
LEMMA FirstOctetSays ==
  ASSUME NEW class \in 0..3, NEW number \in 0..127, NEW constructed \in BOOLEAN
  PROVE  LET x == FirstOctet(class, number, constructed)
         IN  /\ x \in Byte /\ x \div 64 = class /\ x % 32 = (IF number <= 30 THEN number ELSE 31)
             /\ ((x \div 32) % 2 = 1) = constructed
<1> DEFINE x == FirstOctet(class, number, constructed)
           low == IF number <= 30 THEN number ELSE 31
<1>1. \A n \in 0..31 :
        /\ LET y == 64 * class + n + 32
           IN  y \in Byte /\ y \div 64 = class /\ y % 32 = n /\ (y \div 32) % 2 = 1
        /\ LET y == 64 * class + n + 0
           IN  y \in Byte /\ y \div 64 = class /\ y % 32 = n /\ (y \div 32) % 2 = 0
  BY DEF Byte
<1>2. low \in 0..31
  OBVIOUS
<1>3. x = 64 * class + low + (IF constructed THEN 32 ELSE 0)
  BY Zenon DEF FirstOctet
<1> HIDE DEF x, low
<1>4. CASE constructed
  <2>1. x = 64 * class + low + 32
    BY <1>4, <1>3, Zenon
  <2>2. x \in Byte /\ x \div 64 = class /\ x % 32 = low /\ (x \div 32) % 2 = 1
    BY <1>1, <1>2, <2>1, Zenon
  <2> QED BY <1>4, <2>2, Zenon DEF x, low
<1>5. CASE ~constructed
  <2>1. x = 64 * class + low + 0
    BY <1>5, <1>3, Zenon
  <2>2. x \in Byte /\ x \div 64 = class /\ x % 32 = low /\ (x \div 32) % 2 = 0
    BY <1>1, <1>2, <2>1, Zenon
  <2>3. (x \div 32) % 2 # 1
    BY <2>2
  <2> QED BY <1>5, <2>2, <2>3, Zenon DEF x, low
<1> QED BY <1>4, <1>5

(* A tag is read back as it was written.                                   *)
LEMMA TagReadBack ==
  ASSUME NEW class \in 0..3, NEW number \in 0..127, NEW constructed \in BOOLEAN
  PROVE  LET p == TagWritten(class, number, constructed)
         IN  /\ p \in Seq(Byte) /\ Len(p) \in 1..2
             /\ FetchTag(p) = [took |-> Len(p), tag |-> <<class, number>>]
             /\ Constructed(p) = constructed
<1> DEFINE x == FirstOctet(class, number, constructed)
           p == TagWritten(class, number, constructed)
<1>1. /\ x \in Byte /\ x \div 64 = class /\ x % 32 = (IF number <= 30 THEN number ELSE 31)
      /\ ((x \div 32) % 2 = 1) = constructed
  BY FirstOctetSays
<1>2. p = IF number <= 30 THEN <<x>> ELSE <<x, number>>
  BY TagForms
<1> HIDE DEF x, p
<1>3. CASE number <= 30
  <2>1. p \in Seq(Byte) /\ Len(p) = 1 /\ p[1] = x /\ p # <<>>
    BY <1>1, <1>2, <1>3
  <2>2. p[1] % 32 # 31 /\ p[1] % 32 = number
    BY <1>1, <1>3, <2>1
  <2>3. FetchTag(p) = [took |-> 1, tag |-> <<class, number>>]
    BY <1>1, <2>1, <2>2, Zenon DEF FetchTag
  <2>4. Constructed(p) = constructed
    BY <1>1, <2>1, Zenon DEF Constructed
  <2> QED BY <2>1, <2>3, <2>4 DEF p
<1>4. CASE ~(number <= 30)
  <2>1. p \in Seq(Byte) /\ Len(p) = 2 /\ p[1] = x /\ p[2] = number /\ p # <<>>
    BY <1>1, <1>2, <1>4 DEF Byte
  <2>2. p[1] % 32 = 31
    BY <1>1, <1>4, <2>1
  <2> DEFINE f == LongTagNumber(p)
             e == TagEnds(p)
  <2>3. FetchTag(p) = LongTag(p, f, e)
    BY <2>1, <2>2, Zenon DEF FetchTag, TagEnds
  <2>4. e \in SUBSET Nat /\ 2 \in e /\ e # {} /\ \A k \in e : 2 <= k
    BY <2>1 DEF TagEnds
  <2>5. \A k \in 1..Len(p) : f[k] = TagTurn(p, f, k)
    BY <2>1, LongTagDefined
  <2> HIDE DEF f, e
  <2>6. Min(e) = 2
    BY <2>4, MinIs
  <2>7. f[1] = 0
    BY <2>1, <2>5 DEF TagTurn
  <2>8. f[2] = number
    <3>1. f[2] = TagTurn(p, f, 2)
      BY <2>1, <2>5
    <3>2. TagTurn(p, f, 2) = 128 * 0 + (number % 128)
      BY <2>1, <2>7 DEF TagTurn, TagBits
    <3> QED BY <3>1, <3>2
  <2>9. \A k \in 2..2 : ~(p[k] >= 128)
    BY <2>1
  <2>10. LongTag(p, f, e) = [took |-> 2, tag |-> <<p[1] \div 64, f[2]>>]
    BY <2>4, <2>6, <2>9, Zenon DEF LongTag
  <2>11. FetchTag(p) = [took |-> 2, tag |-> <<class, number>>]
    BY <1>1, <2>1, <2>3, <2>8, <2>10
  <2>12. Constructed(p) = constructed
    BY <1>1, <2>1, Zenon DEF Constructed
  <2> QED BY <2>1, <2>11, <2>12 DEF p
<1> QED BY <1>3, <1>4

(* The header of an element that der_write_TL wrote is read back whole,    *)
(* whatever comes after it: ber_fetch_tag gives the tag it was given (of a *)
(* number below 128, as all in the grammars are), its first octet the      *)
(* form, and ber_fetch_length, behind the tag, the length, that of any     *)
(* message below 16 MB; and reading takes the octets that were written.    *)
THEOREM HeaderReadBack ==
  ASSUME NEW class \in 0..3, NEW number \in 0..127, NEW constructed \in BOOLEAN,
         NEW length \in ShortLength, NEW rest \in Seq(Byte)
  PROVE  LET h == WriteTL(<<class, number>>, length, constructed)
             m == h \o rest
             t == FetchTag(m)
             l == FetchLength(Constructed(m), SubSeq(m, t.took + 1, Len(m)))
         IN  /\ t.tag = <<class, number>> /\ Constructed(m) = constructed
             /\ l.length = length /\ t.took + l.took = Len(h)
<1> DEFINE p == TagWritten(class, number, constructed)
           o == LengthOctets(length)
           b == o \o rest
           m == p \o b
<1>1. /\ p \in Seq(Byte) /\ Len(p) \in 1..2
      /\ FetchTag(p) = [took |-> Len(p), tag |-> <<class, number>>]
      /\ Constructed(p) = constructed
  BY TagReadBack
<1>2. o \in Seq(Byte) /\ FetchLength(constructed, b) = [took |-> Len(o), length |-> length]
  BY LengthReadBack
<1>3. WriteTL(<<class, number>>, length, constructed) = p \o o
  BY Zenon DEF WriteTL, TagWritten
<1> HIDE DEF p, o
<1>4. /\ b \in Seq(Byte) /\ Len(p \o o) = Len(p) + Len(o) /\ Len(o) \in Nat
      /\ (p \o o) \o rest = m
  <2>1. o \in Seq(Byte) /\ p \in Seq(Byte)
    BY <1>1, <1>2
  <2> QED BY <2>1, ConcatProperties, LenProperties, ConcatAssociative
<1> HIDE DEF b
<1>5. /\ m \in Seq(Byte) /\ Len(m) = Len(p) + Len(b) /\ Holds(m, Len(p), b) /\ m[1] = p[1]
      /\ Len(p) \in Nat
  <2>1. m \in Seq(Byte) /\ Len(m) = Len(p) + Len(b) /\ Holds(m, Len(p), b)
    BY <1>1, <1>4, Behind
  <2>2. 1 \in 1..Len(p) /\ Len(p) \in Nat
    BY <1>1
  <2>3. m[1] = p[1]
    BY <1>1, <1>4, <2>2, InFront
  <2> QED BY <2>1, <2>2, <2>3
<1>6. FetchTag(m) = FetchTag(p)
  <2>1. FetchTag(p) # Unended
    <3>1. FetchTag(p).took # Unended.took
      BY <1>1 DEF Unended
    <3> QED BY <3>1, Zenon
  <2> QED BY <1>1, <1>4, <2>1, TagInPieces, Zenon
<1> HIDE DEF m
<1>7. SubSeq(m, Len(p) + 1, Len(m)) = b
  BY <1>1, <1>4, <1>5, HoldsCut
<1>8. Constructed(m) = constructed
  BY <1>1, <1>5, Zenon DEF Constructed
<1>9. FetchTag(m).took = Len(p) /\ FetchTag(m).tag = <<class, number>>
  BY <1>1, <1>6
<1>10. FetchLength(Constructed(m), SubSeq(m, FetchTag(m).took + 1, Len(m))) = [took |-> Len(o), length |-> length]
  BY <1>2, <1>7, <1>8, <1>9, Zenon
<1> DEFINE h == WriteTL(<<class, number>>, length, constructed)
           w == h \o rest
<1>11. w = m /\ Len(h) = Len(p) + Len(o)
  BY <1>3, <1>4
<1> HIDE DEF h, w
<1> DEFINE t == FetchTag(w)
           l == FetchLength(Constructed(w), SubSeq(w, t.took + 1, Len(w)))
<1>12. t.tag = <<class, number>> /\ t.took = Len(p) /\ Constructed(w) = constructed
  BY <1>8, <1>9, <1>11
<1>13. l = [took |-> Len(o), length |-> length]
  BY <1>10, <1>11, Zenon
<1>14. l.length = length /\ t.took + l.took = Len(h)
  BY <1>11, <1>12, <1>13
<1> QED BY <1>12, <1>14, Zenon DEF w, h

(* What the decoder has of a tag or of a length it goes on asking for: as  *)
(* soon as ber_fetch_tag or ber_fetch_length answers at all, it answers    *)
(* the same whatever comes behind, and never takes an octet that is not    *)
(* there.  It is what taking up a cut message again rests on.              *)
THEOREM TagsAndLengthsInPieces ==
  ASSUME NEW m \in Seq(Byte), NEW r \in Seq(Byte), NEW constructed \in BOOLEAN
  PROVE  /\ FetchTag(m).took \in -1..Len(m)
         /\ FetchTag(m) # Unended => FetchTag(m \o r) = FetchTag(m)
         /\ FetchLength(constructed, m).took \in -1..Len(m)
         /\ FetchLength(constructed, m) # Unended =>
              FetchLength(constructed, m \o r) = FetchLength(constructed, m)
  BY TagTaken, TagInPieces, LengthTaken, LengthInPieces
=============================================================================
