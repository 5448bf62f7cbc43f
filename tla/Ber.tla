-------------------------------- MODULE Ber --------------------------------
(***************************************************************************)
(* BER as the signalling gateway reads and writes it, from X.690 and not   *)
(* from the asn1c runtime: the elements of a message with definite lengths *)
(* of at most two length octets, and DER.                                  *)
(***************************************************************************)
EXTENDS Octets, TLC

Malformed == [ok |-> FALSE]

IsConstructed(octet) == (octet \div 32) % 2 = 1

(* A tag is compared by class and number, without the form bit.            *)
TagId(octet) == IF IsConstructed(octet) THEN octet - 32 ELSE octet

(* The octets of tag and length at the start of m, and what the length is. *)
TlvHead(m) == IF m[2] < 128 THEN 2 ELSE m[2] - 126

TlvLength(m) ==
  CASE m[2] < 128 -> m[2]
    [] m[2] = 129 -> m[3]
    [] m[2] = 130 -> 256 * m[3] + m[4]

(* The element at the start of m; tags are of one octet.                   *)
Tlv(m) ==
  IF \/ Len(m) < 2
     \/ m[2] \notin 0..127 \cup {129, 130}
     \/ Len(m) < TlvHead(m)
     \/ Len(m) < TlvHead(m) + TlvLength(m)
  THEN Malformed
  ELSE [ok |-> TRUE, tag |-> TagId(m[1]),
        content |-> SubSeq(m, TlvHead(m) + 1, TlvHead(m) + TlvLength(m)),
        octets  |-> SubSeq(m, 1, TlvHead(m) + TlvLength(m))]

(* The elements m is made of, the last one Malformed if m does not end     *)
(* with an element.                                                        *)
TlvsFrom(m) ==
  LET From[k \in Nat] ==
        IF k >= Len(m) THEN <<>>
        ELSE LET e == Tlv(SubSeq(m, k + 1, Len(m)))
             IN  IF e.ok THEN <<e>> \o From[k + Len(e.octets)] ELSE <<e>>
  IN  From

Elements(m) == TlvsFrom(m)[0]

(* The value of an INTEGER.                                                *)
BerInteger(content) == Number(content)

DerLength(n) ==
  CASE n < 128 -> <<n>>
    [] n \in 128..255 -> <<129, n>>
    [] OTHER -> <<130, n \div 256, n % 256>>

Der(tag, content) == <<tag>> \o DerLength(Len(content)) \o content

(* The integers of at most two octets.                                     *)
Int16 == -32768..32767

DerInteger(n) ==
  CASE n \in -128..127         -> <<n % 256>>
    [] n \in Int16 \ -128..127 -> <<(n \div 256) % 256, n % 256>>
=============================================================================
