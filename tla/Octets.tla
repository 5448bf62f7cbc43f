------------------------------- MODULE Octets -------------------------------
(***************************************************************************)
(* Octet strings: the ByteStream (std::vector<unsigned char>) every layer  *)
(* of the program works on, and the C operations the layers perform on it. *)
(* Indices are C indices, from 0.                                          *)
(***************************************************************************)
EXTENDS Integers, Sequences

Byte == 0..255

(* What push_back of a wider integer stores.                               *)
LowByte(n) == n % 256

(* The unchecked m[k]: past the end of the vector it reads whatever the    *)
(* heap holds there, one unknown octet heap for the whole overrun.         *)
At(m, k, heap) == IF k < Len(m) THEN m[k + 1] ELSE heap

(* A copying loop for (i = from; i < to; i++) push_back(m[i]).             *)
Copy(m, from, to, heap) ==
  IF to <= from THEN <<>> ELSE [x \in 1..(to - from) |-> At(m, from + x - 1, heap)]

BigEndian32(n) ==
  << (n \div 16777216) % 256, (n \div 65536) % 256, (n \div 256) % 256, n % 256 >>

Zeros(n) == [x \in 1..n |-> 0]

(* The number octets hold in two's complement, the highest first.          *)
Number(octets) ==
  LET Upto[k \in 1..Len(octets)] ==
        IF k = 1 THEN (IF octets[1] < 128 THEN octets[1] ELSE octets[1] - 256)
        ELSE 256 * Upto[k - 1] + octets[k]
  IN  Upto[Len(octets)]

(* A pointer to nothing.                                                   *)
NoNode == [null |-> TRUE]
=============================================================================
