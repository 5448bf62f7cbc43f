-------------------------- MODULE PayloadScan_proof --------------------------
(***************************************************************************)
(* Proofs about the loop of decodePayload, for any messages and anything   *)
(* behind them on the heap.                                                *)
(***************************************************************************)
EXTENDS PayloadScan, Layers_proof

-----------------------------------------------------------------------------
(* What a run of the loop keeps to.                                        *)
Kept == m_msg \in Seq(Byte) /\ heap \in Byte /\ i \in Nat /\ data \in Data

(* Every turn of the loop keeps to it.                                     *)
LEMMA KeptStep == Kept /\ [Next]_vars => Kept'
<1> SUFFICES ASSUME Kept, [Next]_vars PROVE Kept'
  OBVIOUS
<1>1. CASE Skip
  BY <1>1 DEF Skip, Kept
<1>2. CASE Take
  <2>1. DataAt(m_msg, i, heap) \in Data
    BY DataAtType DEF Kept
  <2>2. Appended(data, DataAt(m_msg, i, heap)) \in Data
    BY <2>1, AppendedType DEF Kept
  <2> QED BY <1>2, <2>2 DEF Take, Kept
<1>3. CASE UNCHANGED vars
  BY <1>3 DEF vars, Kept
<1> QED BY <1>1, <1>2, <1>3 DEF Next

(* The loop starts with it.                                                *)
LEMMA KeptAtFirst == Init => Kept
BY ScanAssumption, NoDataType DEF Init, Kept

(* Of every field of the routing label there are as many octets as of any  *)
(* other, whatever the message and the heap (decodePayload's loop over y). *)
THEOREM LabelsInStep == Spec => []LabelInStep
<1>1. Init => LabelInStep
  BY EmptySeq DEF Init, NoData, LabelInStep
<1>2. ASSUME Kept, LabelInStep, [Next]_vars PROVE LabelInStep'
  <2> USE <1>2
  <2>1. CASE Skip
    BY <2>1 DEF Skip, LabelInStep
  <2>2. CASE Take
    <3> DEFINE e == DataAt(m_msg, i, heap)
               a == Appended(data, e)
    <3>1. /\ e \in Data
          /\ Len(e.opc) = 4 /\ Len(e.dpc) = 4 /\ Len(e.si) = 1
          /\ Len(e.ni) = 1 /\ Len(e.mp) = 1 /\ Len(e.sls) = 1
      BY DataAtType DEF Kept
    <3> HIDE DEF e
    <3>2. /\ a \in Data
          /\ Len(a.opc) = Len(data.opc) + Len(e.opc) /\ Len(a.dpc) = Len(data.dpc) + Len(e.dpc)
          /\ Len(a.si) = Len(data.si) + Len(e.si) /\ Len(a.ni) = Len(data.ni) + Len(e.ni)
          /\ Len(a.mp) = Len(data.mp) + Len(e.mp) /\ Len(a.sls) = Len(data.sls) + Len(e.sls)
      BY <3>1, AppendedType DEF Kept
    <3>3. data' = a
      BY <2>2 DEF Take, e
    <3> HIDE DEF a
    <3>4. Len(data.si) \in Nat
      BY LenProperties DEF Kept, Data
    <3>5. a.si # <<>>
      BY <3>1, <3>2, <3>4, EmptySeq
    <3>6. /\ Len(a.opc) = 4 * Len(a.si) /\ Len(a.dpc) = 4 * Len(a.si)
          /\ Len(a.ni) = Len(a.si) /\ Len(a.mp) = Len(a.si) /\ Len(a.sls) = Len(a.si)
      BY <3>1, <3>2, <3>4 DEF LabelInStep
    <3> QED BY <3>3, <3>5, <3>6 DEF LabelInStep
  <2>3. CASE UNCHANGED vars
    BY <2>3 DEF vars, LabelInStep
  <2> QED BY <2>1, <2>2, <2>3 DEF Next
<1> QED BY <1>1, <1>2, KeptAtFirst, KeptStep, PTL DEF Spec

(* What is appended for a whole parameter of less than 256 octets are the  *)
(* fields RFC 4666 puts there.                                             *)
LEMMA FieldsAt ==
  ASSUME Kept, NEW p \in 0..(Len(m_msg) - 16),
         LengthAt(p) \in 16..255, p + LengthAt(p) <= Len(m_msg)
  PROVE  DataAt(m_msg, p, heap) = FieldsOf(p)
<1>1. p \in Nat /\ Len(m_msg) \in Nat /\ p + 16 <= Len(m_msg)
  BY LenProperties DEF Kept
<1>2. m_msg[p + 3] \in Byte /\ m_msg[p + 4] \in Byte
  BY <1>1, ElementOfSeq DEF Kept
<1>3. \A x, y \in Byte : 256 * x + y \in 16..255 => 256 * x + y = y
  BY DEF Byte
<1>4. LengthAt(p) = m_msg[p + 4]
  BY <1>2, <1>3, Zenon DEF LengthAt
<1>5. At(m_msg, p + 3, heap) = LengthAt(p)
  BY <1>1, <1>4 DEF At
<1>6. \A a, b, n \in Nat : b = a + n /\ b <= 16 =>
        Copy(m_msg, p + a, p + b, heap) = SubSeq(m_msg, p + a + 1, p + a + n)
  <2> SUFFICES ASSUME NEW a \in Nat, NEW b \in Nat, NEW n \in Nat, b = a + n, b <= 16
               PROVE  Copy(m_msg, p + a, p + b, heap) = SubSeq(m_msg, p + a + 1, p + a + n)
    OBVIOUS
  <2> DEFINE f == p + a
             t == p + b
  <2>1. f \in Nat /\ t \in Nat /\ f <= t /\ t <= Len(m_msg) /\ t = p + a + n
    BY <1>1
  <2> HIDE DEF f, t
  <2>2. Copy(m_msg, f, t, heap) = SubSeq(m_msg, f + 1, t)
    BY <2>1, CopyInside DEF Kept
  <2> QED BY <2>1, <2>2 DEF f, t
<1>7. /\ 13 = 12 + 1 /\ 14 = 13 + 1 /\ 15 = 14 + 1 /\ 16 = 15 + 1
      /\ 13 <= 16 /\ 14 <= 16 /\ 15 <= 16 /\ 16 <= 16
      /\ {1, 12, 13, 14, 15, 16} \subseteq Nat
  OBVIOUS
<1>8. 8 = 4 + 4 /\ 8 <= 16 /\ {4, 8} \subseteq Nat
  OBVIOUS
<1>9. 12 = 8 + 4 /\ 12 <= 16 /\ {4, 8, 12} \subseteq Nat
  OBVIOUS
<1>10. Copy(m_msg, p + 4, p + 8, heap) = Octet(p + 4, 4)
  BY <1>6, <1>8, Zenon DEF Octet
<1>11. Copy(m_msg, p + 8, p + 12, heap) = Octet(p + 8, 4)
  BY <1>6, <1>9, Zenon DEF Octet
<1>12. Copy(m_msg, p + 12, p + 13, heap) = Octet(p + 12, 1)
  BY <1>6, <1>7, Zenon DEF Octet
<1>13. Copy(m_msg, p + 13, p + 14, heap) = Octet(p + 13, 1)
  BY <1>6, <1>7, Zenon DEF Octet
<1>14. Copy(m_msg, p + 14, p + 15, heap) = Octet(p + 14, 1)
  BY <1>6, <1>7, Zenon DEF Octet
<1>15. Copy(m_msg, p + 15, p + 16, heap) = Octet(p + 15, 1)
  BY <1>6, <1>7, Zenon DEF Octet
<1>16. LengthAt(p) \in Nat /\ LengthAt(p) >= 16
  <2>1. \A x \in 16..255 : x \in Nat /\ x >= 16
    OBVIOUS
  <2> QED BY <2>1, Zenon
<1>17. Copy(m_msg, p + 16, p + LengthAt(p), heap) = SubSeq(m_msg, p + 17, p + LengthAt(p))
  <2> DEFINE f == p + 16
             t == p + LengthAt(p)
  <2>1. f \in Nat /\ t \in Nat /\ f <= t /\ t <= Len(m_msg) /\ f + 1 = p + 17
    BY <1>1, <1>16
  <2> HIDE DEF f, t
  <2>2. Copy(m_msg, f, t, heap) = SubSeq(m_msg, f + 1, t)
    BY <2>1, CopyInside DEF Kept
  <2> QED BY <2>1, <2>2 DEF f, t
<1> QED BY <1>5, <1>10, <1>11, <1>12, <1>13, <1>14, <1>15, <1>17 DEF DataAt, FieldsOf

(* The inductive invariant: of a message with one tag the loop has seen    *)
(* nothing until it comes to the parameter, and then jumps past the octets *)
(* in which the tag could show again, with the fields taken.               *)
FieldsTaken ==
  \A p \in 0..(Len(m_msg) - 16) :
    OnlyAt(p) => \/ i <= p /\ data = NoData
                 \/ i >= p + 17 /\ data = FieldsOf(p)

(* What there is to be taken does not change while the message does not.   *)
LEMMA SameMessage ==
  ASSUME UNCHANGED <<m_msg, heap>>
  PROVE  /\ Len(m_msg)' = Len(m_msg)
         /\ \A p : (OnlyAt(p)' <=> OnlyAt(p)) /\ FieldsOf(p)' = FieldsOf(p)
BY DEF OnlyAt, LengthAt, FieldsOf, Octet, TagAt, At

(* Every turn of the loop keeps the inductive invariant.                   *)
LEMMA FieldsTakenStep ==
  ASSUME Kept, FieldsTaken, [Next]_vars
  PROVE  FieldsTaken'
<1>1. CASE UNCHANGED vars
  <2>1. UNCHANGED <<m_msg, heap, i, data>>
    BY <1>1 DEF vars
  <2> QED BY <2>1, SameMessage, Zenon DEF FieldsTaken
<1>2. CASE Next
  <2> SUFFICES ASSUME NEW p \in 0..(Len(m_msg) - 16), OnlyAt(p)
               PROVE  \/ i' <= p /\ data' = NoData
                      \/ i' >= p + 17 /\ data' = FieldsOf(p)
    <3>1. UNCHANGED <<m_msg, heap>>
      BY <1>2 DEF Next, Skip, Take
    <3> QED BY <3>1, SameMessage, Zenon DEF FieldsTaken
  <2>0. p \in Nat /\ i \in Nat /\ Len(m_msg) \in Nat
    BY LenProperties DEF Kept
  <2>1. \/ i <= p /\ data = NoData
        \/ i >= p + 17 /\ data = FieldsOf(p)
    BY DEF FieldsTaken
  <2>2. CASE Skip
    <3>1. i # p
      BY <2>2 DEF Skip, OnlyAt
    <3> QED BY <2>0, <2>1, <2>2, <3>1 DEF Skip
  <2>3. CASE Take
    <3>1. i \in 0..(Len(m_msg) - 1)
      BY <2>0, <2>3 DEF Take, Looking
    <3>2. i \in p..(p + 16)
      BY <2>3, <3>1 DEF Take, OnlyAt
    <3>3. i = p /\ data = NoData
      BY <2>0, <2>1, <3>2
    <3>4. DataAt(m_msg, p, heap) = FieldsOf(p)
      BY FieldsAt DEF OnlyAt
    <3>5. DataAt(m_msg, p, heap) \in Data
      BY <2>0, DataAtType DEF Kept
    <3>6. data' = FieldsOf(p)
      BY <2>3, <3>3, <3>4, <3>5, AppendedToNothing DEF Take
    <3> QED BY <2>0, <2>3, <3>3, <3>6 DEF Take
  <2> QED BY <1>2, <2>2, <2>3 DEF Next
<1> QED BY <1>1, <1>2

(* decodePayload takes the fields of a Protocol Data parameter that is the *)
(* only thing in the message to look like one, and nothing else.           *)
THEOREM PayloadDecoded == Spec => []DecodeCorrect
<1>1. Init => FieldsTaken
  BY ScanAssumption, LenProperties DEF Init, FieldsTaken
<1>2. Kept /\ FieldsTaken /\ [Next]_vars => FieldsTaken'
  BY FieldsTakenStep
<1>3. Kept /\ FieldsTaken => DecodeCorrect
  BY LenProperties DEF Kept, FieldsTaken, DecodeCorrect
<1> QED BY <1>1, <1>2, <1>3, KeptAtFirst, KeptStep, PTL DEF Spec

-----------------------------------------------------------------------------
(* The inductive invariant: what is taken and what the function says is to *)
(* come make the result.                                                   *)
ScanInvariant == Appended(data, ScanFrom(m_msg, heap)[i]) = DecodePayload(m_msg, heap)

(* A turn of the loop moves one value of the function into the members.    *)
LEMMA ScanStep ==
  ASSUME Kept, ScanInvariant, [Next]_vars
  PROVE  ScanInvariant'
<1> DEFINE f == ScanFrom(m_msg, heap)
<1>1. f[i] = ScanTurn(m_msg, heap, f, i)
  BY ScanFromDefined DEF Kept
<1>2. CASE Skip
  <2>1. f[i] = f[i + 1]
    <3>1. ~(i >= Len(m_msg))
      BY <1>2, LenProperties DEF Skip, Looking, Kept
    <3> HIDE DEF f
    <3> QED BY <1>1, <1>2, <3>1 DEF Skip, ScanTurn
  <2> QED BY <1>2, <2>1 DEF Skip, ScanInvariant
<1>3. CASE Take
  <2> DEFINE e == DataAt(m_msg, i, heap)
  <2>1. f[i] = Appended(e, f[i + 17])
    <3>1. ~(i >= Len(m_msg))
      BY <1>3, LenProperties DEF Take, Looking, Kept
    <3> HIDE DEF f
    <3> QED BY <1>1, <1>3, <3>1 DEF Take, ScanTurn
  <2>2. e \in Data /\ f[i + 17] \in Data /\ data \in Data
    BY DataAtType, ScanFromType DEF Kept
  <2>3. Appended(Appended(data, e), f[i + 17]) = Appended(data, f[i])
    <3> HIDE DEF e, f
    <3> QED BY <2>1, <2>2, AppendedAssociative
  <2> QED BY <1>3, <2>3 DEF Take, ScanInvariant
<1>4. CASE UNCHANGED vars
  BY <1>4 DEF vars, ScanInvariant
<1> QED BY <1>2, <1>3, <1>4 DEF Next

(* The operator the other modules use is the loop of decodePayload,        *)
(* whatever the message and whatever lies behind it.                       *)
THEOREM PayloadScanned == Spec => []ScanAgrees
<1>1. Init => ScanInvariant
  <2> SUFFICES ASSUME Init PROVE ScanInvariant
    OBVIOUS
  <2>1. ScanFrom(m_msg, heap)[0] \in Data
    BY KeptAtFirst, ScanFromType DEF Kept
  <2>2. i = 0 /\ data = NoData
    BY DEF Init
  <2> QED BY <2>1, <2>2, AppendedToNothing DEF ScanInvariant, DecodePayload
<1>2. Kept /\ ScanInvariant /\ [Next]_vars => ScanInvariant'
  BY ScanStep
<1>3. Kept /\ ScanInvariant => ScanAgrees
  <2> SUFFICES ASSUME Kept, ScanInvariant, ~Looking PROVE data = DecodePayload(m_msg, heap)
    BY DEF ScanAgrees
  <2>1. i >= Len(m_msg)
    BY LenProperties DEF Looking, Kept
  <2>2. ScanFrom(m_msg, heap)[i] = NoData
    BY <2>1, ScanFromDefined DEF ScanTurn, Kept
  <2> QED BY <2>2, AppendedAssociative DEF ScanInvariant, Kept
<1> QED BY <1>1, <1>2, <1>3, KeptAtFirst, KeptStep, PTL DEF Spec
==============================================================================
