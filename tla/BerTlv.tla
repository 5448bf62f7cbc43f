------------------------------- MODULE BerTlv -------------------------------
(***************************************************************************)
(* The tag and the length of a BER element, as the asn1c runtime reads and *)
(* writes them (asn/ber_tlv_tag.c, asn/ber_tlv_length.c).  A tag is the    *)
(* pair of its class and its number.  What is read says how many octets it *)
(* took: -1 for an encoding the runtime refuses, 0 for one that goes on    *)
(* past the octets there are.                                              *)
(***************************************************************************)
EXTENDS Octets, FiniteSetsExt

Universal(n)   == <<0, n>>
Application(n) == <<1, n>>
Context(n)     == <<2, n>>
Private(n)     == <<3, n>>

Constructed(m) == (m[1] \div 32) % 2 = 1

Refused == [took |-> -1]
Unended == [took |-> 0]

(* The number in octets 2..k, seven bits each, as far as 23 bits hold it.  *)
TagBits == 8388608

LongTagNumber(m) ==
  LET Upto[k \in 1..Len(m)] ==
        IF k = 1 THEN 0
        ELSE IF Upto[k-1] < TagBits THEN 128 * Upto[k-1] + (m[k] % 128)
        ELSE Upto[k-1]
  IN  Upto

(* The long form: a number that would not leave room for the class and     *)
(* seven bits more is refused while octets are still to come.              *)
LongTag(m, number, ends) ==
  LET last == IF ends = {} THEN Len(m) ELSE Min(ends)
  IN  IF \E k \in 2..last : m[k] >= 128 /\ number[k] >= TagBits THEN Refused
      ELSE IF ends = {} THEN Unended
      ELSE [took |-> last, tag |-> <<m[1] \div 64, number[last]>>]

FetchTag(m) ==
  IF m = <<>> THEN Unended
  ELSE IF m[1] % 32 # 31 THEN [took |-> 1, tag |-> <<m[1] \div 64, m[1] % 32>>]
  ELSE LongTag(m, LongTagNumber(m), {k \in 2..Len(m) : m[k] < 128})

(* A length of more than three significant octets is longer than any       *)
(* message; one that comes near to what ssize_t holds is refused.          *)
Indefinite == -1
Huge       == 1073741824

Significant(octets) ==
  LET used == {k \in DOMAIN octets : octets[k] # 0}
  IN  IF used = {} THEN <<>> ELSE SubSeq(octets, Min(used), Len(octets))

NearlyTooLarge(s) ==
  /\ Len(s) = 8
  /\ s[1] > 127 \/ (SubSeq(s, 1, 6) = <<127, 255, 255, 255, 255, 255>> /\ s[7] >= 252)

Value(s) ==
  CASE s = <<>>   -> 0
    [] Len(s) = 1 -> s[1]
    [] Len(s) = 2 -> 256 * s[1] + s[2]
    [] Len(s) = 3 -> 65536 * s[1] + 256 * s[2] + s[3]
    [] Len(s) > 3 -> Huge

LongLength(m, count) ==
  LET given == Min({count, Len(m) - 1})
      Upto(k) == Significant(SubSeq(m, 2, k + 1))
  IN  IF \/ \E k \in 1..given : k < count /\ Len(Upto(k)) = 8
         \/ given = count /\ NearlyTooLarge(Upto(count))
      THEN Refused
      ELSE IF given < count THEN Unended
      ELSE [took |-> count + 1, length |-> Value(Upto(count))]

(* 80 is the indefinite length of a constructed element and length 0 of a  *)
(* primitive one.                                                          *)
FetchLength(constructed, m) ==
  CASE m = <<>>                     -> Unended
    [] m # <<>> /\ m[1] < 128       -> [took |-> 1, length |-> m[1]]
    [] m # <<>> /\ m[1] = 128       -> [took |-> 1, length |-> IF constructed THEN Indefinite ELSE 0]
    [] m # <<>> /\ m[1] \in 129..254 -> LongLength(m, m[1] - 128)
    [] m # <<>> /\ m[1] = 255       -> Refused

-----------------------------------------------------------------------------
(* ber_tlv_tag_serialize, the form bit clear; the tags here have numbers   *)
(* below 128.                                                              *)
TagOctets(tag) ==
  IF tag[2] <= 30 THEN <<64 * tag[1] + tag[2]>> ELSE <<64 * tag[1] + 31, tag[2]>>

(* der_tlv_length_serialize, of what a program this size can hold.         *)
LengthOctets(n) ==
  CASE n <= 127               -> <<n>>
    [] n \in 128..255         -> <<129, n>>
    [] n \div 256 \in 1..255   -> <<130, n \div 256, n % 256>>
    [] n \div 65536 \in 1..255 -> <<131, n \div 65536, (n \div 256) % 256, n % 256>>

(* der_write_TL: the form bit goes into the first octet of the tag.        *)
WriteTL(tag, length, constructed) ==
  [TagOctets(tag) EXCEPT ![1] = IF constructed THEN @ + 32 ELSE @] \o LengthOctets(length)
=============================================================================
