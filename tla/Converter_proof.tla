-------------------------- MODULE Converter_proof --------------------------
(***************************************************************************)
(* Proofs about the converter, for any files, any size of the pieces and   *)
(* any decoder that keeps to what Resumption asks of it.                   *)
(***************************************************************************)
EXTENDS Resumption, SequenceTheorems, TLAPS

(* A part of a sequence, a part of a part, and two parts that meet.        *)
LEMMA Part ==
  ASSUME NEW s \in Seq(Byte), NEW a \in Nat, NEW b \in Nat, a <= b, b <= Len(s)
  PROVE  /\ SubSeq(s, a + 1, b) \in Seq(Byte) /\ Len(SubSeq(s, a + 1, b)) = b - a
         /\ \A k \in 1..(b - a) : SubSeq(s, a + 1, b)[k] = s[a + k]
<1>1. \A k \in (a + 1)..b : s[k] \in Byte
  BY ElementOfSeq
<1>2. /\ SubSeq(s, a + 1, b) \in Seq(Byte)
      /\ Len(SubSeq(s, a + 1, b)) = IF a + 1 <= b THEN b - (a + 1) + 1 ELSE 0
      /\ \A k \in 1..(b - (a + 1) + 1) : SubSeq(s, a + 1, b)[k] = s[a + 1 + k - 1]
  BY <1>1, SubSeqProperties
<1> QED BY <1>2

(* A part of a part of the octets is the part at the sum of the offsets.   *)
LEMMA PartOfPart ==
  ASSUME NEW s \in Seq(Byte), NEW a \in Nat, NEW b \in Nat, NEW u \in Nat, NEW v \in Nat,
         b <= Len(s), u <= v, a + v <= b
  PROVE  SubSeq(SubSeq(s, a + 1, b), u + 1, v) = SubSeq(s, a + u + 1, a + v)
<1> DEFINE t == SubSeq(s, a + 1, b)
           l == SubSeq(t, u + 1, v)
           r == SubSeq(s, a + u + 1, a + v)
<1>0. a <= b /\ v <= b - a
  OBVIOUS
<1>1. t \in Seq(Byte) /\ Len(t) = b - a /\ \A k \in 1..(b - a) : t[k] = s[a + k]
  BY <1>0, Part
<1>2. l \in Seq(Byte) /\ Len(l) = v - u /\ \A k \in 1..(v - u) : l[k] = t[u + k]
  <2> HIDE DEF t
  <2> QED BY <1>0, <1>1, Part
<1>3. r \in Seq(Byte) /\ Len(r) = v - u /\ \A k \in 1..(v - u) : r[k] = s[a + u + k]
  <2>1. /\ a + u \in Nat /\ a + v \in Nat /\ a + u <= a + v /\ a + v <= Len(s)
        /\ (a + v) - (a + u) = v - u
    BY LenProperties
  <2> DEFINE f == a + u
             g == a + v
  <2> HIDE DEF f, g
  <2>2. /\ SubSeq(s, f + 1, g) \in Seq(Byte) /\ Len(SubSeq(s, f + 1, g)) = g - f
        /\ \A k \in 1..(g - f) : SubSeq(s, f + 1, g)[k] = s[f + k]
    BY <2>1, Part DEF f, g
  <2> QED BY <2>1, <2>2 DEF f, g
<1>4. ASSUME NEW k \in 1..(v - u) PROVE l[k] = r[k]
  <2> HIDE DEF t, l, r
  <2>1. u + k \in 1..(b - a) /\ a + (u + k) = a + u + k
    BY <1>0
  <2>2. l[k] = t[u + k] /\ t[u + k] = s[a + (u + k)] /\ r[k] = s[a + u + k]
    BY <1>1, <1>2, <1>3, <2>1
  <2> QED BY <2>1, <2>2
<1>5. Len(l) = Len(r)
  BY <1>2, <1>3
<1>6. \A k \in 1..Len(l) : l[k] = r[k]
  BY <1>2, <1>4
<1> HIDE DEF l, r
<1>7. l = r
  BY <1>2, <1>3, <1>5, <1>6, SeqEqual
<1> QED BY <1>7 DEF l, r

(* Two parts that meet are one part.                                       *)
LEMMA PartsMeet ==
  ASSUME NEW s \in Seq(Byte), NEW a \in Nat, NEW b \in Nat, NEW c \in Nat,
         a <= b, b <= c, c <= Len(s)
  PROVE  SubSeq(s, a + 1, b) \o SubSeq(s, b + 1, c) = SubSeq(s, a + 1, c)
<1> DEFINE x == SubSeq(s, a + 1, b)
           y == SubSeq(s, b + 1, c)
           r == SubSeq(s, a + 1, c)
<1>1. x \in Seq(Byte) /\ Len(x) = b - a /\ \A k \in 1..(b - a) : x[k] = s[a + k]
  BY Part
<1>2. y \in Seq(Byte) /\ Len(y) = c - b /\ \A k \in 1..(c - b) : y[k] = s[b + k]
  BY Part
<1>3. r \in Seq(Byte) /\ Len(r) = c - a /\ \A k \in 1..(c - a) : r[k] = s[a + k]
  BY Part
<1> HIDE DEF x, y, r
<1>4. /\ x \o y \in Seq(Byte) /\ Len(x \o y) = Len(x) + Len(y)
      /\ \A k \in 1..(Len(x) + Len(y)) :
           (x \o y)[k] = IF k <= Len(x) THEN x[k] ELSE y[k - Len(x)]
  BY <1>1, <1>2, ConcatProperties
<1> DEFINE z == x \o y
<1> HIDE DEF z
<1>5. ASSUME NEW k \in 1..(c - a)
      PROVE  z[k] = r[k]
  <2>1. z[k] = IF k <= b - a THEN x[k] ELSE y[k - (b - a)]
    <3>1. k \in 1..(Len(x) + Len(y))
      BY <1>1, <1>2
    <3> QED BY <1>1, <1>4, <3>1 DEF z
  <2>2. CASE k <= b - a
    BY <1>1, <1>3, <2>1, <2>2
  <2>3. CASE k > b - a
    BY <1>2, <1>3, <2>1, <2>3
  <2> QED BY <2>2, <2>3
<1>6. z = r
  <2>1. z \in Seq(Byte) /\ Len(z) = Len(x) + Len(y)
    BY <1>4 DEF z
  <2>2. Len(z) = c - a
    BY <1>1, <1>2, <2>1
  <2> QED BY <1>3, <1>5, <2>1, <2>2, SeqEqual
<1> QED BY <1>6 DEF x, y, z, r

-----------------------------------------------------------------------------
(* The buffer: add_bytes_to_buffer never writes past what is allocated,    *)
(* and neither it nor the moving of the offset loses octets.               *)
Buffers == [data : Seq(Byte), offset : Nat, allocated : Nat, shifted : Nat]
Fits(buf) == buf.offset + Len(buf.data) <= buf.allocated

(* The converter starts with a buffer that fits.                           *)
LEMMA EmptyBufferFits == EmptyBuffer \in Buffers /\ Fits(EmptyBuffer)
BY DEF EmptyBuffer, Buffers, Fits

(* add_bytes_to_buffer puts the octets behind what the buffer holds,       *)
(* whether it moves the contents, allocates or has room, and never past    *)
(* the end.                                                                *)
LEMMA AddBytesFits ==
  ASSUME NEW buf \in Buffers, Fits(buf), NEW octets \in Seq(Byte)
  PROVE  /\ AddBytes(buf, octets) \in Buffers /\ Fits(AddBytes(buf, octets))
         /\ AddBytes(buf, octets).data = buf.data \o octets
         /\ buf.allocated > 0 => AddBytes(buf, octets).allocated > 0
<1> DEFINE d == buf.data \o octets
           n == Len(octets)
<1>1. buf.data \in Seq(Byte) /\ Len(buf.data) \in Nat /\ n \in Nat
  BY DEF Buffers
<1>2. d \in Seq(Byte) /\ Len(d) = Len(buf.data) + n
  BY <1>1, ConcatProperties
<1> HIDE DEF d, n
<1>3. CASE octets = <<>>
  BY <1>1, <1>3, ConcatEmptySeq DEF AddBytes
<1>4. CASE octets # <<>> /\ Room(buf, n)
  <2>1. AddBytes(buf, octets) = [buf EXCEPT !.data = d]
    BY <1>4 DEF AddBytes, d, n
  <2>2. AddBytes(buf, octets) \in Buffers
    BY <1>1, <1>2, <2>1 DEF Buffers
  <2>3. /\ AddBytes(buf, octets).data = d
        /\ AddBytes(buf, octets).offset = buf.offset
        /\ AddBytes(buf, octets).allocated = buf.allocated
    BY <2>1 DEF Buffers
  <2>4. Fits(AddBytes(buf, octets)) /\ (buf.allocated > 0 => AddBytes(buf, octets).allocated > 0)
    BY <1>1, <1>2, <1>4, <2>3 DEF Room, Buffers, Fits
  <2> QED BY <2>2, <2>3, <2>4 DEF d
<1>5. CASE octets # <<>> /\ ~Room(buf, n) /\ n <= buf.offset
  <2>1. AddBytes(buf, octets) =
          [data |-> d, offset |-> 0, allocated |-> buf.allocated,
           shifted |-> buf.shifted + buf.offset]
    BY <1>5 DEF AddBytes, Moved, d, n, Buffers
  <2>2. AddBytes(buf, octets) \in Buffers
    BY <1>1, <1>2, <2>1 DEF Buffers
  <2>3. /\ AddBytes(buf, octets).data = d
        /\ AddBytes(buf, octets).offset = 0
        /\ AddBytes(buf, octets).allocated = buf.allocated
    BY <2>1 DEF Buffers
  <2>4. Fits(AddBytes(buf, octets)) /\ (buf.allocated > 0 => AddBytes(buf, octets).allocated > 0)
    BY <1>1, <1>2, <1>5, <2>3 DEF Buffers, Fits
  <2> QED BY <2>2, <2>3, <2>4 DEF d
<1>6. CASE octets # <<>> /\ ~Room(buf, n) /\ ~(n <= buf.offset)
  <2>1. AddBytes(buf, octets) =
          [data |-> d, offset |-> 0, allocated |-> 4 * buf.allocated + n,
           shifted |-> buf.shifted]
    BY <1>6 DEF AddBytes, Reallocated, d, n, Buffers
  <2>2. AddBytes(buf, octets) \in Buffers
    BY <1>1, <1>2, <2>1 DEF Buffers
  <2>3. /\ AddBytes(buf, octets).data = d
        /\ AddBytes(buf, octets).offset = 0
        /\ AddBytes(buf, octets).allocated = 4 * buf.allocated + n
    BY <2>1 DEF Buffers
  <2>4. Fits(AddBytes(buf, octets)) /\ (buf.allocated > 0 => AddBytes(buf, octets).allocated > 0)
    BY <1>1, <1>2, <1>6, <2>3 DEF Buffers, Fits
  <2> QED BY <2>2, <2>3, <2>4 DEF d
<1> QED BY <1>3, <1>4, <1>5, <1>6

(* The bytes the decoder used are taken off the front of the buffer and    *)
(* nothing else is.                                                        *)
LEMMA ConsumedFits ==
  ASSUME NEW buf \in Buffers, Fits(buf), NEW used \in Nat,
         buf.allocated > 0 => used <= Len(buf.data)
  PROVE  /\ Consumed(buf, used) \in Buffers /\ Fits(Consumed(buf, used))
         /\ Consumed(buf, used).data =
              IF buf.allocated > 0 THEN SubSeq(buf.data, used + 1, Len(buf.data)) ELSE buf.data
<1>1. CASE buf.allocated > 0
  <2> DEFINE d == SubSeq(buf.data, used + 1, Len(buf.data))
  <2>1. d \in Seq(Byte) /\ Len(d) = Len(buf.data) - used
    BY <1>1, Part DEF Buffers
  <2>2. Consumed(buf, used) = [data |-> d, offset |-> buf.offset + used,
                               allocated |-> buf.allocated, shifted |-> buf.shifted]
    BY <1>1 DEF Consumed, Buffers
  <2> HIDE DEF d
  <2>3. Consumed(buf, used) \in Buffers
    BY <2>1, <2>2 DEF Buffers
  <2>4. /\ Consumed(buf, used).data = d
        /\ Consumed(buf, used).offset = buf.offset + used
        /\ Consumed(buf, used).allocated = buf.allocated
    BY <2>2 DEF Buffers
  <2>5. Fits(Consumed(buf, used))
    BY <1>1, <2>1, <2>4 DEF Buffers, Fits
  <2> QED BY <1>1, <2>3, <2>4, <2>5 DEF d
<1>2. CASE ~(buf.allocated > 0)
  <2>1. Consumed(buf, used) = [buf EXCEPT !.shifted = buf.shifted + used]
    BY <1>2 DEF Consumed
  <2>2. Consumed(buf, used) \in Buffers
    BY <2>1 DEF Buffers
  <2>3. /\ Consumed(buf, used).data = buf.data
        /\ Consumed(buf, used).offset = buf.offset
        /\ Consumed(buf, used).allocated = buf.allocated
    BY <2>1 DEF Buffers
  <2> QED BY <1>2, <2>2, <2>3 DEF Fits
<1> QED BY <1>1, <1>2

(* What is left after a call of the decoder: in the buffer, or flushed to  *)
(* it out of the piece, it is what the decoder did not use.                *)
LEMMA AdjustedFits ==
  ASSUME NEW buf \in Buffers, Fits(buf), NEW piece \in Seq(Byte), NEW r, r.used \in Nat,
         IF buf.allocated > 0 THEN r.used <= Len(buf.data) ELSE r.used <= Len(piece)
  PROVE  /\ Adjusted(buf, piece, r) \in Buffers /\ Fits(Adjusted(buf, piece, r))
         /\ r.code # "FAIL" =>
              Adjusted(buf, piece, r).data =
                IF buf.allocated > 0 THEN SubSeq(buf.data, r.used + 1, Len(buf.data))
                ELSE SubSeq(piece, r.used + 1, Len(piece))
<1> DEFINE u == r.used
           rest == SubSeq(piece, u + 1, Len(piece))
<1>1. CASE buf.allocated = 0 /\ r.code # "FAIL" /\ u < Len(piece)
  <2> DEFINE b == AddBytes(buf, rest)
  <2>1. rest \in Seq(Byte)
    BY <1>1, Part
  <2>2. buf.data = <<>>
    BY <1>1, EmptySeq DEF Buffers, Fits
  <2>3. b \in Buffers /\ Fits(b) /\ b.data = rest
    <3>1. b \in Buffers /\ Fits(b) /\ b.data = buf.data \o rest
      BY <2>1, AddBytesFits
    <3> QED BY <2>1, <2>2, <3>1, ConcatEmptySeq
  <2>4. Adjusted(buf, piece, r) = [b EXCEPT !.shifted = u]
    BY <1>1 DEF Adjusted, Flushed
  <2> HIDE DEF b, rest
  <2>5. [b EXCEPT !.shifted = u] \in Buffers
    BY <2>3 DEF Buffers
  <2>6. /\ [b EXCEPT !.shifted = u].data = b.data
        /\ [b EXCEPT !.shifted = u].offset = b.offset
        /\ [b EXCEPT !.shifted = u].allocated = b.allocated
    BY <2>3 DEF Buffers
  <2>7. Fits([b EXCEPT !.shifted = u])
    BY <2>3, <2>6 DEF Fits
  <2>8. [b EXCEPT !.shifted = u].data = SubSeq(piece, r.used + 1, Len(piece))
    BY <2>3, <2>6 DEF rest
  <2>9. ~(buf.allocated > 0)
    BY <1>1
  <2> QED BY <2>4, <2>5, <2>7, <2>8, <2>9
<1>2. CASE ~(buf.allocated = 0 /\ r.code # "FAIL" /\ u < Len(piece))
  <2>1. Adjusted(buf, piece, r) = Consumed(buf, u)
    BY <1>2 DEF Adjusted
  <2>2. /\ Consumed(buf, u) \in Buffers /\ Fits(Consumed(buf, u))
        /\ Consumed(buf, u).data =
             IF buf.allocated > 0 THEN SubSeq(buf.data, u + 1, Len(buf.data)) ELSE buf.data
    BY ConsumedFits
  <2>3. CASE buf.allocated > 0 \/ r.code = "FAIL"
    BY <2>1, <2>2, <2>3
  <2>4. CASE ~(buf.allocated > 0) /\ r.code # "FAIL"
    <3>1. buf.allocated = 0 /\ buf.data = <<>>
      BY <2>4, EmptySeq DEF Buffers, Fits
    <3>2. u = Len(piece)
      BY <1>2, <2>4, <3>1
    <3>3. rest = <<>>
      BY <3>2, SubSeqEmpty
    <3> QED BY <2>1, <2>2, <2>4, <3>1, <3>3
  <2> QED BY <2>3, <2>4
<1> QED BY <1>1, <1>2

-----------------------------------------------------------------------------
(* The invariant of the reading: where the decoders have come to in the    *)
(* file, what that means before a first message, and that the decoder can  *)
(* be resumed there.                                                       *)
Contents == File.contents
Unread   == SubSeq(Contents, start + 1, Len(Contents))
Place    == <<taken - start, structure>>

IInv ==
  /\ job \in Jobs /\ which \in DOMAIN job.files
  /\ pc \in {"open", "prepare", "read", "clean", "use", "done"}
  /\ buffer \in Buffers /\ BufferFits
  /\ read \in 0..Len(Contents) /\ taken \in 0..read /\ start \in 0..taken
  /\ pc = "open" => firstPdu
  /\ pc \in {"open", "prepare"} /\ firstPdu => read = 0 /\ taken = 0
  /\ pc \in {"open", "prepare"} => taken = start /\ structure = NoStructure
  /\ UnreadKept
  /\ pc = "read" => Place \in Resumable(job.type, Unread)

(* The arguments of a run are files, at least one.                         *)
LEMMA FilesType ==
  ASSUME NEW j \in Jobs
  PROVE  /\ DOMAIN j.files = 1..Len(j.files) /\ Len(j.files) \in Nat \ {0}
         /\ \A n \in DOMAIN j.files : j.files[n].contents \in Seq(Byte)
<1>1. /\ j.files \in Seq([kind : {"file", "missing", "failing"}, contents : Seq(Byte)])
      /\ j.files # <<>>
  BY JobsAssumption
<1>2. DOMAIN j.files = 1..Len(j.files) /\ Len(j.files) \in Nat \ {0}
  BY <1>1, LenProperties, EmptySeq
<1>3. ASSUME NEW n \in DOMAIN j.files PROVE j.files[n].contents \in Seq(Byte)
  <2>1. j.files[n] \in [kind : {"file", "missing", "failing"}, contents : Seq(Byte)]
    BY <1>1, <1>2, ElementOfSeq
  <2> QED BY <2>1
<1> QED BY <1>2, <1>3

(* The file being converted, and the size of its pieces, are of their      *)
(* types.                                                                  *)
LEMMA FileType ==
  ASSUME job \in Jobs, which \in DOMAIN job.files
  PROVE  Contents \in Seq(Byte) /\ Len(Contents) \in Nat /\ job.bufsize \in Nat \ {0}
<1>1. Contents \in Seq(Byte)
  BY FilesType DEF Contents, File
<1> QED BY <1>1, JobsAssumption, LenProperties

(* fread yields the octets of the file that come next.                     *)
LEMMA PieceType ==
  ASSUME IInv
  PROVE  /\ Piece \in Seq(Byte) /\ Len(Piece) \in Nat /\ read + Len(Piece) <= Len(Contents)
         /\ Piece = SubSeq(Contents, read + 1, read + Len(Piece))
<1> DEFINE left == Len(Contents) - read
           n    == IF left < job.bufsize THEN left ELSE job.bufsize
<1>1. n \in Nat /\ read \in Nat /\ read + n <= Len(Contents) /\ Contents \in Seq(Byte)
  BY FileType DEF IInv
<1>2. Piece = SubSeq(Contents, read + 1, read + n)
  BY DEF Piece, Contents
<1>3. Piece \in Seq(Byte) /\ Len(Piece) = n
  <2> DEFINE to == read + n
  <2>1. to \in Nat /\ read <= to /\ to - read = n
    BY <1>1
  <2> HIDE DEF n, to
  <2>2. /\ SubSeq(Contents, read + 1, to) \in Seq(Byte)
        /\ Len(SubSeq(Contents, read + 1, to)) = to - read
    BY <1>1, <2>1, Part DEF to
  <2> QED BY <1>2, <2>1, <2>2 DEF to
<1> HIDE DEF n
<1> QED BY <1>1, <1>2, <1>3

(* The converter starts in the invariant.                                  *)
LEMMA ConverterInit == Init => IInv
<1> SUFFICES ASSUME Init PROVE IInv
  OBVIOUS
<1>1. /\ job \in Jobs /\ which = 1 /\ pc = "open" /\ read = 0 /\ taken = 0 /\ start = 0 /\ firstPdu
      /\ buffer = EmptyBuffer /\ structure = NoStructure
  BY DEF Init
<1>2. which \in DOMAIN job.files
  BY <1>1, FilesType
<1>3. Len(Contents) \in Nat
  BY <1>1, <1>2, FileType
<1> QED BY <1>1, <1>2, <1>3, EmptyBufferFits DEF IInv, BufferFits, Fits, UnreadKept

(* What a turn of the loop gives the decoder: all that was read and that   *)
(* it has not taken yet.                                                   *)
Grown  == IF buffer.allocated > 0 THEN AddBytes(buffer, Piece) ELSE buffer
Input  == IF buffer.allocated > 0 THEN Grown.data ELSE Piece
To     == read + Len(Piece)
Result == Resumed(job.type, Unread, Place, To - start)

(* What is left of the file from the start of the message is one of the    *)
(* rests a message can be decoded from.                                    *)
LEMMA UnreadType ==
  ASSUME IInv
  PROVE  /\ Unread \in Rests(job) /\ Unread \in Seq(Byte)
         /\ Len(Unread) = Len(Contents) - start
<1>1. Contents \in Seq(Byte) /\ Len(Contents) \in Nat /\ start \in 0..Len(Contents)
  BY FileType DEF IInv
<1>2. Unread \in Seq(Byte) /\ Len(Unread) = Len(Contents) - start
  BY <1>1, Part DEF Unread
<1>3. Unread \in {SubSeq(job.files[which].contents, s + 1, Len(job.files[which].contents)) :
                    s \in 0..Len(job.files[which].contents)}
  BY <1>1 DEF Unread, Contents, File
<1>4. Unread \in Rests(job)
  BY <1>3 DEF Rests, IInv
<1> QED BY <1>2, <1>4

(* In a turn of the loop the decoder is given exactly the octets of the    *)
(* file that were read and that no call has used, in the buffer or in the  *)
(* piece.                                                                  *)
LEMMA TurnInput ==
  ASSUME IInv, Turn
  PROVE  /\ Grown \in Buffers /\ Fits(Grown) /\ (Grown.allocated > 0 <=> buffer.allocated > 0)
         /\ To \in read..Len(Contents)
         /\ Input \in Seq(Byte) /\ Len(Input) = To - taken
         /\ Input = SubSeq(Contents, taken + 1, To)
         /\ Input = IF Grown.allocated > 0 THEN Grown.data ELSE Piece
<1>1. pc = "read"
  BY DEF Turn
<1>2. /\ Piece \in Seq(Byte) /\ Len(Piece) \in Nat /\ To <= Len(Contents)
      /\ Piece = SubSeq(Contents, read + 1, To)
  BY PieceType DEF To
<1>3. /\ read \in Nat /\ taken \in Nat /\ taken <= read /\ To \in Nat /\ read <= To
      /\ Contents \in Seq(Byte) /\ Len(Contents) \in Nat
  BY <1>2, FileType DEF IInv, To
<1>4. buffer \in Buffers /\ Fits(buffer) /\ buffer.data = SubSeq(Contents, taken + 1, read)
  BY <1>1 DEF IInv, BufferFits, Fits, UnreadKept, Contents
<1>5. /\ Grown \in Buffers /\ Fits(Grown) /\ (Grown.allocated > 0 <=> buffer.allocated > 0)
      /\ Input = SubSeq(Contents, taken + 1, To)
  <2>1. CASE buffer.allocated > 0
    <3>1. /\ Grown \in Buffers /\ Fits(Grown) /\ Grown.allocated > 0
          /\ Grown.data = buffer.data \o Piece
      BY <1>2, <1>4, <2>1, AddBytesFits DEF Grown
    <3>2. buffer.data \o Piece = SubSeq(Contents, taken + 1, To)
      BY <1>2, <1>3, <1>4, PartsMeet
    <3> QED BY <2>1, <3>1, <3>2 DEF Input
  <2>2. CASE ~(buffer.allocated > 0)
    <3>1. Len(buffer.data) = 0
      <4>1. buffer.data \in Seq(Byte) /\ buffer.offset \in Nat /\ buffer.allocated \in Nat
        BY DEF IInv, Buffers
      <4>2. buffer.offset + Len(buffer.data) <= buffer.allocated
        BY DEF IInv, BufferFits
      <4>3. Len(buffer.data) \in Nat
        BY <4>1, LenProperties
      <4> QED BY <2>2, <4>1, <4>2, <4>3
    <3>2. Len(buffer.data) = read - taken
      BY <1>2, <1>3, <1>4, Part
    <3>3. taken = read
      BY <1>3, <3>1, <3>2
    <3> QED BY <1>2, <1>4, <2>2, <3>3 DEF Grown, Input
  <2> QED BY <2>1, <2>2
<1>6. Input \in Seq(Byte) /\ Len(Input) = To - taken
  <2>1. taken <= To
    BY <1>3
  <2> QED BY <1>2, <1>3, <1>5, <2>1, Part
<1> QED BY <1>2, <1>3, <1>5, <1>6 DEF Input

(* That is a turn of the decoder resumed where it stands.                  *)
LEMMA TurnResumes ==
  ASSUME IInv, Turn
  PROVE  /\ Place \in Resumable(job.type, Unread) /\ Place[1] = taken - start
         /\ To - start \in Place[1]..Len(Unread)
         /\ Result = DecodePiece(job.type, structure, Input)
<1>1. /\ start \in Nat /\ taken \in Nat /\ start <= taken /\ taken <= To /\ To \in Nat
      /\ To <= Len(Contents) /\ Contents \in Seq(Byte) /\ Len(Contents) \in Nat
  BY TurnInput, FileType DEF IInv
<1>2. Len(Unread) = Len(Contents) - start
  BY UnreadType
<1>3. SubSeq(Unread, (taken - start) + 1, To - start) = SubSeq(Contents, taken + 1, To)
  <2> DEFINE u == taken - start
             v == To - start
             n == Len(Contents)
  <2>1. u \in Nat /\ v \in Nat /\ u <= v /\ start + v <= n /\ n \in Nat
    BY <1>1
  <2>2. start + u = taken /\ start + v = To
    BY <1>1
  <2> HIDE DEF u, v, n
  <2>3. SubSeq(SubSeq(Contents, start + 1, n), u + 1, v)
          = SubSeq(Contents, start + u + 1, start + v)
    BY <1>1, <2>1, PartOfPart DEF n
  <2> QED BY <2>2, <2>3 DEF Unread, u, v, n
<1>4. Place[1] = taken - start /\ Place[2] = structure
  BY DEF Place
<1>5. Place \in Resumable(job.type, Unread)
  BY DEF IInv, Turn
<1>6. To - start \in Place[1]..Len(Unread)
  BY <1>1, <1>2, <1>4
<1>7. Result = DecodePiece(job.type, structure, Input)
  BY <1>3, <1>4, TurnInput DEF Result, Resumed
<1> QED BY <1>4, <1>5, <1>6, <1>7

(* What the turn does, in these terms.                                     *)
LEMMA TurnDoes ==
  ASSUME IInv, Turn
  PROVE  /\ pc = "read" /\ read' = To /\ eof' = Ends(Piece) /\ turns' = 1 - turns
         /\ UNCHANGED <<job, which, status, firstPdu, oldOffset, start, printed>>
         /\ Loops(Piece) => Decoded(Piece, Result, Grown)
         /\ ~Loops(Piece) =>
              /\ pc' = "clean"
              /\ UNCHANGED <<code, structure, blocks, checks, taken, buffer, toleratedEof>>
<1>1. Result = DecodePiece(job.type, structure, Input)
  BY TurnResumes
<1> QED BY <1>1 DEF Turn, Grown, Input, To

(* In a turn of the loop the decoder keeps to those octets, and one that   *)
(* wants more stops where it can be resumed.                               *)
LEMMA TurnResult ==
  ASSUME DecoderKeepsToInput, IInv, Turn
  PROVE  /\ Result.code \in {"OK", "WMORE", "FAIL"}
         /\ Result.used \in Nat /\ Result.used <= To - taken
         /\ Result.code = "WMORE" =>
              <<(taken - start) + Result.used, Result.node>> \in Resumable(job.type, Unread)
<1>1. KeepsToInput(job.type, Unread)
  BY UnreadType DEF DecoderKeepsToInput, IInv
<1>2. /\ Place \in Resumable(job.type, Unread) /\ Place[1] = taken - start
      /\ To - start \in Place[1]..Len(Unread)
  BY TurnResumes
<1>3. /\ Result.code \in {"OK", "WMORE", "FAIL"}
      /\ Result.used \in 0..((To - start) - Place[1])
      /\ Result.code = "WMORE" =>
           <<Place[1] + Result.used, Result.node>> \in Resumable(job.type, Unread)
  BY <1>1, <1>2 DEF KeepsToInput, Result
<1>4. (To - start) - Place[1] = To - taken
  BY <1>2, TurnInput DEF IInv
<1> QED BY <1>2, <1>3, <1>4

(* A turn of the loop keeps the invariant.                                 *)
LEMMA TurnKeeps == DecoderKeepsToInput /\ IInv /\ Turn => IInv'
<1> SUFFICES ASSUME DecoderKeepsToInput, IInv, Turn PROVE IInv'
  OBVIOUS
<1>1. /\ pc = "read" /\ read' = To /\ UNCHANGED <<job, which, firstPdu, start>>
      /\ Loops(Piece) => Decoded(Piece, Result, Grown)
      /\ ~Loops(Piece) => pc' = "clean" /\ UNCHANGED <<taken, buffer, structure>>
  BY TurnDoes
<1>2. Contents' = Contents /\ Unread' = Unread
  BY <1>1 DEF Contents, Unread, File
<1>3. /\ read \in Nat /\ taken \in Nat /\ taken <= read /\ To \in Nat /\ read <= To
      /\ start \in Nat /\ start <= taken /\ To <= Len(Contents)
      /\ Contents \in Seq(Byte) /\ Len(Contents) \in Nat
  BY TurnInput, FileType DEF IInv
<1>4. Input \in Seq(Byte) /\ Len(Input) = To - taken /\ Input = SubSeq(Contents, taken + 1, To)
  BY TurnInput
<1>5. Piece \in Seq(Byte)
  BY PieceType
<1>6. CASE ~Loops(Piece)
  <2>1. pc' = "clean" /\ UNCHANGED <<taken, buffer, structure>>
    BY <1>1, <1>6
  <2> QED BY <1>1, <1>2, <1>3, <2>1 DEF IInv, BufferFits, UnreadKept
<1>7. CASE Loops(Piece)
  <2> DEFINE r == Result
             u == r.used
  <2>1. /\ pc' = After(r) /\ buffer' = Adjusted(Grown, Piece, r) /\ taken' = taken + u
        /\ structure' = r.node
    BY <1>1, <1>7 DEF Decoded
  <2>2. /\ r.code \in {"OK", "WMORE", "FAIL"} /\ u \in Nat /\ u <= To - taken
        /\ r.code = "WMORE" =>
             <<(taken - start) + u, r.node>> \in Resumable(job.type, Unread)
    BY TurnResult
  <2> HIDE DEF r
  <2>3. /\ pc' \in {"use", "read", "clean"} /\ (pc' # "clean" => r.code # "FAIL")
        /\ pc' = "read" => r.code = "WMORE"
    BY <2>1, <2>2 DEF After
  <2> HIDE DEF u
  <2>4. /\ buffer' \in Buffers /\ Fits(buffer')
        /\ r.code # "FAIL" => buffer'.data = SubSeq(Input, u + 1, Len(Input))
    <3>1. IF Grown.allocated > 0 THEN u <= Len(Grown.data) ELSE u <= Len(Piece)
      BY <1>4, <2>2, TurnInput
    <3>2. /\ Adjusted(Grown, Piece, r) \in Buffers /\ Fits(Adjusted(Grown, Piece, r))
          /\ r.code # "FAIL" =>
               Adjusted(Grown, Piece, r).data =
                 IF Grown.allocated > 0 THEN SubSeq(Grown.data, u + 1, Len(Grown.data))
                 ELSE SubSeq(Piece, u + 1, Len(Piece))
      BY <1>5, <2>2, <3>1, TurnInput, AdjustedFits DEF u
    <3> QED BY <2>1, <3>2, TurnInput
  <2>5. SubSeq(Input, u + 1, Len(Input)) = SubSeq(Contents, taken + u + 1, To)
    <3> DEFINE v == To - taken
    <3>1. v \in Nat /\ u <= v /\ taken + v = To
      BY <1>3, <2>2
    <3> HIDE DEF v
    <3>2. SubSeq(SubSeq(Contents, taken + 1, To), u + 1, v) = SubSeq(Contents, taken + u + 1, taken + v)
      BY <1>3, <2>2, <3>1, PartOfPart
    <3> QED BY <1>4, <3>1, <3>2 DEF v
  <2>6. taken' \in 0..To /\ start \in 0..taken'
    BY <1>3, <2>1, <2>2
  <2>7. UnreadKept'
    BY <1>1, <1>2, <2>1, <2>3, <2>4, <2>5 DEF UnreadKept, Contents
  <2>8. pc' = "read" => Place' \in Resumable(job.type, Unread)
    <3>1. taken' - start' = (taken - start) + u
      BY <1>1, <1>3, <2>1, <2>2
    <3>2. Place' = <<taken' - start', structure'>>
      BY DEF Place
    <3> QED BY <2>1, <2>2, <2>3, <3>1, <3>2
  <2>9. read' \in 0..Len(Contents') /\ taken' \in 0..read' /\ start' \in 0..taken'
    BY <1>1, <1>2, <1>3, <2>6
  <2>10. job' \in Jobs /\ which' \in DOMAIN job'.files /\ BufferFits'
    BY <1>1, <2>4 DEF IInv, BufferFits, Fits
  <2> QED BY <1>1, <1>2, <2>3, <2>4, <2>7, <2>8, <2>9, <2>10 DEF IInv
<1> QED BY <1>6, <1>7

(* The next file is read from its start.                                   *)
LEMMA NextFileKeeps ==
  ASSUME IInv, (NextFile /\ structure' = NoStructure) \/ Exit, UNCHANGED <<job, buffer>>
  PROVE  IInv'
<1>1. CASE pc' = "done" /\ UNCHANGED <<which, read, start, taken>>
  BY <1>1 DEF IInv, Contents, File, BufferFits, UnreadKept
<1>2. CASE /\ which # Len(job.files) /\ which' = which + 1 /\ pc' = "open"
           /\ read' = 0 /\ taken' = 0 /\ start' = 0 /\ firstPdu' /\ structure' = NoStructure
  <2>1. /\ DOMAIN job.files = 1..Len(job.files) /\ Len(job.files) \in Nat
        /\ job \in Jobs /\ which \in DOMAIN job.files
    BY FilesType DEF IInv
  <2>2. which' \in DOMAIN job.files
    BY <1>2, <2>1
  <2>3. Len(Contents') \in Nat
    BY <2>1, <2>2, FilesType, LenProperties DEF Contents, File
  <2> QED BY <1>2, <2>1, <2>2, <2>3 DEF IInv, BufferFits, UnreadKept
<1> QED BY <1>1, <1>2 DEF NextFile, Exit

(* Every step of the converter keeps the invariant.                        *)
LEMMA ConverterNext == DecoderKeepsToInput /\ IInv /\ [Next]_vars => IInv'
<1> SUFFICES ASSUME DecoderKeepsToInput, IInv, [Next]_vars PROVE IInv'
  OBVIOUS
<1>1. CASE Open
  <2>1. CASE File.kind = "missing"
    BY <1>1, <2>1, NextFileKeeps DEF Open
  <2>2. CASE File.kind # "missing"
    BY <1>1, <2>2 DEF Open, IInv, Contents, File, BufferFits, UnreadKept
  <2> QED BY <2>1, <2>2
<1>2. CASE Prepare
  <2> DEFINE buf == IF firstPdu THEN EmptyBuffer ELSE buffer
  <2>1. /\ pc = "prepare" /\ pc' = "read" /\ buffer' = buf
        /\ UNCHANGED <<job, which, read, firstPdu, start, taken, structure>>
    BY <1>2 DEF Prepare
  <2>2. buf \in Buffers /\ Fits(buf)
    BY EmptyBufferFits DEF IInv, BufferFits, Fits
  <2>3. buf.data = SubSeq(Contents, taken + 1, read)
    <3>1. CASE firstPdu
      <4>1. read = 0 /\ taken = 0
        BY <2>1, <3>1 DEF IInv
      <4> QED BY <3>1, <4>1, SubSeqEmpty DEF EmptyBuffer
    <3>2. CASE ~firstPdu
      BY <2>1, <3>2 DEF IInv, UnreadKept, Contents
    <3> QED BY <3>1, <3>2
  <2>4. Contents' = Contents /\ Unread' = Unread /\ Place' = <<0, NoStructure>>
    <3>1. Place' = <<taken - start, NoStructure>> /\ taken - start = 0
      BY <2>1 DEF Place, IInv
    <3> QED BY <2>1, <3>1 DEF Contents, Unread, File
  <2>5. <<0, NoStructure>> \in Resumable(job.type, Unread)
    BY UnreadType DEF DecoderKeepsToInput, KeepsToInput, IInv
  <2> HIDE DEF buf
  <2>6. UnreadKept'
    BY <2>1, <2>3, <2>4 DEF UnreadKept, Contents
  <2>7. buffer' \in Buffers /\ BufferFits'
    BY <2>1, <2>2 DEF BufferFits, Fits
  <2> QED BY <2>1, <2>4, <2>5, <2>6, <2>7 DEF IInv
<1>3. CASE Turn
  BY <1>3, TurnKeeps
<1>4. CASE CleanUp
  BY <1>4, NextFileKeeps DEF CleanUp, Free
<1>5. CASE Use
  <2>1. CASE job.onepdu
    BY <1>5, <2>1, NextFileKeeps DEF Use, Free
  <2>2. CASE ~job.onepdu
    BY <1>5, <2>2 DEF Use, Free, IInv, Contents, File, BufferFits, UnreadKept
  <2> QED BY <2>1, <2>2
<1>6. CASE Refuse
  BY <1>6, NextFileKeeps DEF Refuse
<1>7. CASE UNCHANGED vars
  BY <1>7 DEF vars, progress, IInv, Contents, File, BufferFits, UnreadKept, Place, Unread
<1> QED BY <1>1, <1>2, <1>3, <1>4, <1>5, <1>6, <1>7 DEF Next, Done

(* The invariant holds in every reachable state.                           *)
LEMMA Reading == ASSUME DecoderKeepsToInput PROVE Spec => []IInv
<1>1. Init => IInv
  BY ConverterInit
<1>2. IInv /\ [Next]_vars => IInv'
  BY ConverterNext
<1> QED BY <1>1, <1>2, PTL DEF Spec

(* add_bytes_to_buffer never writes past the end of the buffer.            *)
THEOREM ConverterBufferFits == ASSUME DecoderKeepsToInput PROVE Spec => []BufferFits
<1>1. IInv => BufferFits
  BY DEF IInv
<1> QED BY <1>1, Reading, PTL

(* No octet is lost, repeated or displaced between the pieces.             *)
THEOREM ConverterUnreadKept == ASSUME DecoderKeepsToInput PROVE Spec => []UnreadKept
<1>1. IInv => UnreadKept
  BY DEF IInv
<1> QED BY <1>1, Reading, PTL

-----------------------------------------------------------------------------
(* Memory: a turn allocates what the structure it makes then holds.        *)
MInv == NothingLeaked /\ Freed(job.type, structure) \in Nat

(* Freeing where there is no structure gives nothing back.                 *)
LEMMA NothingFreed ==
  ASSUME MemoryAccounted, IInv
  PROVE  Freed(job.type, NoStructure) = 0
BY UnreadType DEF MemoryAccounted, AccountsForMemory, IInv

(* In a turn of the loop the blocks counted are those of the structure.    *)
LEMMA TurnAllocates ==
  ASSUME MemoryAccounted, IInv, Turn, MInv
  PROVE  MInv'
<1>1. CASE ~Loops(Piece)
  BY <1>1, TurnDoes DEF MInv, NothingLeaked
<1>2. CASE Loops(Piece)
  <2>1. structure' = Result.node /\ blocks' = blocks + Result.blocks /\ job' = job
    BY <1>2, TurnDoes DEF Decoded
  <2>2. AccountsForMemory(job.type, Unread)
    BY UnreadType DEF MemoryAccounted, IInv
  <2>3. /\ Freed(job.type, Result.node) \in Nat
        /\ Freed(job.type, Place[2]) + Result.blocks = Freed(job.type, Result.node)
    BY <2>2, TurnResumes DEF AccountsForMemory, Result
  <2>4. Place[2] = structure
    BY DEF Place
  <2> QED BY <2>1, <2>3, <2>4 DEF MInv, NothingLeaked
<1> QED BY <1>1, <1>2

(* ASN_STRUCT_FREE gives back every block of the structure.                *)
LEMMA FreeReleases ==
  ASSUME MemoryAccounted, IInv, MInv, Free, UNCHANGED job
  PROVE  MInv'
<1>1. blocks = Freed(job.type, structure) /\ Freed(job.type, structure) \in Nat
  BY DEF MInv, NothingLeaked
<1>2. blocks' = 0 /\ structure' = NoStructure
  BY <1>1 DEF Free
<1> QED BY <1>2, NothingFreed DEF MInv, NothingLeaked

(* Every step keeps the account of the memory.                             *)
LEMMA MemoryNext ==
  MemoryAccounted /\ IInv /\ MInv /\ [Next]_vars => MInv'
<1> SUFFICES ASSUME MemoryAccounted, IInv, MInv, [Next]_vars PROVE MInv'
  OBVIOUS
<1>1. CASE Turn
  BY <1>1, TurnAllocates
<1>2. CASE CleanUp
  BY <1>2, FreeReleases DEF CleanUp
<1>3. CASE Use
  BY <1>3, FreeReleases DEF Use
<1>4. CASE UNCHANGED <<job, structure, blocks>>
  BY <1>4 DEF MInv, NothingLeaked
<1>5. Open \/ Prepare \/ Refuse \/ UNCHANGED vars => UNCHANGED <<job, structure, blocks>>
  BY DEF Open, Prepare, Refuse, vars, progress
<1> QED BY <1>1, <1>2, <1>3, <1>4, <1>5 DEF Next, Done

(* The account of the memory is right in every reachable state.            *)
LEMMA Memory ==
  ASSUME DecoderKeepsToInput, MemoryAccounted
  PROVE  Spec => []MInv
<1>1. Init => MInv
  <2> SUFFICES ASSUME Init PROVE MInv
    OBVIOUS
  <2>1. Freed(job.type, NoStructure) = 0
    BY ConverterInit, NothingFreed
  <2> QED BY <2>1 DEF Init, MInv, NothingLeaked
<1>2. IInv /\ MInv /\ [Next]_vars => MInv'
  BY MemoryNext
<1> QED BY <1>1, <1>2, Reading, PTL DEF Spec

(* Freeing the structure gives back every block of memory there is.        *)
THEOREM ConverterNothingLeaked ==
  ASSUME DecoderKeepsToInput, MemoryAccounted
  PROVE  Spec => []NothingLeaked
<1>1. MInv => NothingLeaked
  BY DEF MInv
<1> QED BY <1>1, Memory, PTL

-----------------------------------------------------------------------------
(* The rest of the types.                                                  *)
TInv ==
  /\ status \in {"running", "ok", "error"} /\ eof \in BOOLEAN /\ firstPdu \in BOOLEAN
  /\ toleratedEof \in LeastTolerance..1 /\ turns \in 0..1
  /\ oldOffset \in Nat /\ code \in {"OK", "WMORE", "FAIL"} /\ start \in Nat

(* A turn of the loop keeps the types of the variables that the invariant  *)
(* says nothing of.                                                        *)
LEMMA TurnTypes ==
  ASSUME DecoderKeepsToInput, IInv, TInv, Turn
  PROVE  TInv'
<1>1. /\ UNCHANGED <<status, firstPdu, oldOffset, start>>
      /\ eof' = Ends(Piece) /\ turns' = 1 - turns
      /\ Loops(Piece) => Decoded(Piece, Result, Grown)
      /\ ~Loops(Piece) => UNCHANGED <<code, toleratedEof>>
  BY TurnDoes
<1>2. eof' \in BOOLEAN
  BY <1>1 DEF Ends, TInv
<1>3. turns' \in 0..1
  BY <1>1 DEF TInv
<1>4. code' \in {"OK", "WMORE", "FAIL"} /\ toleratedEof' \in LeastTolerance..1
  <2>1. CASE ~Loops(Piece)
    BY <1>1, <2>1 DEF TInv
  <2>2. CASE Loops(Piece)
    <3>1. code' = Result.code /\ toleratedEof' = Tolerated(Piece)
      BY <1>1, <2>2 DEF Decoded
    <3>2. code' \in {"OK", "WMORE", "FAIL"}
      BY <3>1, TurnResult
    <3>3. toleratedEof' \in LeastTolerance..1
      BY <3>1 DEF Tolerated, LeastTolerance, TInv
    <3> QED BY <3>2, <3>3
  <2> QED BY <2>1, <2>2
<1> QED BY <1>1, <1>2, <1>3, <1>4 DEF TInv

(* Going on to the next file keeps them too.                               *)
LEMMA NextFileTypes ==
  ASSUME TInv, NextFile
  PROVE  /\ status' \in {"running", "ok", "error"} /\ eof' \in BOOLEAN
         /\ firstPdu' \in BOOLEAN /\ start' \in Nat
<1>1. CASE which = Len(job.files)
  BY <1>1 DEF NextFile, TInv
<1>2. CASE which # Len(job.files)
  <2>1. status' = status /\ eof' = FALSE /\ firstPdu' = TRUE /\ start' = 0
    BY <1>2 DEF NextFile
  <2>2. status \in {"running", "ok", "error"} /\ 0 \in Nat
    BY DEF TInv
  <2> QED BY <2>1, <2>2, Zenon
<1> QED BY <1>1, <1>2

(* And so does every other step.                                           *)
LEMMA TypesNext == DecoderKeepsToInput /\ IInv /\ TInv /\ [Next]_vars => TInv'
<1> SUFFICES ASSUME DecoderKeepsToInput, IInv, TInv, [Next]_vars PROVE TInv'
  OBVIOUS
<1>1. CASE Open
  BY <1>1 DEF Open, Exit, TInv
<1>2. CASE Prepare
  <2> DEFINE buf == IF firstPdu THEN EmptyBuffer ELSE buffer
  <2>1. /\ oldOffset' = buf.shifted + buf.offset /\ toleratedEof' = 1 /\ code' = "WMORE"
        /\ UNCHANGED <<status, eof, firstPdu, turns, start>>
    BY <1>2 DEF Prepare
  <2>2. buf \in Buffers
    BY EmptyBufferFits DEF IInv
  <2>3. oldOffset' \in Nat
    BY <2>1, <2>2 DEF Buffers
  <2> HIDE DEF buf
  <2> QED BY <2>1, <2>3 DEF TInv, LeastTolerance
<1>3. CASE Turn
  BY <1>3, TurnTypes
<1>4. CASE CleanUp
  <2>1. UNCHANGED <<turns, oldOffset, code, toleratedEof>>
    BY <1>4 DEF CleanUp
  <2>2. CASE Unfinished
    BY <1>4, <2>1, <2>2 DEF CleanUp, Exit, TInv
  <2>3. CASE ~Unfinished
    BY <1>4, <2>1, <2>3, NextFileTypes DEF CleanUp, TInv
  <2> QED BY <2>2, <2>3
<1>5. CASE Use
  <2>1. UNCHANGED <<turns, oldOffset, code, toleratedEof>>
    BY <1>5 DEF Use
  <2>2. CASE job.onepdu
    BY <1>5, <2>1, <2>2, NextFileTypes DEF Use, TInv
  <2>3. CASE ~job.onepdu
    <3>1. /\ UNCHANGED <<status, eof>>
          /\ firstPdu' = FALSE /\ start' = taken
      BY <1>5, <2>3 DEF Use
    <3>2. taken \in Nat
      BY FileType DEF IInv
    <3> QED BY <2>1, <3>1, <3>2 DEF TInv
  <2> QED BY <2>2, <2>3
<1>6. CASE Refuse
  BY <1>6 DEF Refuse, Exit, TInv
<1>7. CASE UNCHANGED vars
  BY <1>7 DEF vars, progress, TInv
<1> QED BY <1>1, <1>2, <1>3, <1>4, <1>5, <1>6, <1>7 DEF Next, Done

(* Every variable keeps its type; no block is freed twice.                 *)
THEOREM ConverterTypeOK ==
  ASSUME DecoderKeepsToInput, MemoryAccounted
  PROVE  Spec => []TypeOK
<1>1. Init => TInv
  <2> SUFFICES ASSUME Init PROVE TInv
    OBVIOUS
  <2>1. /\ status = "running" /\ eof = FALSE /\ firstPdu = TRUE /\ toleratedEof = 0
        /\ turns = 0 /\ oldOffset = 0 /\ code = "WMORE" /\ start = 0
    BY DEF Init
  <2>2. eof \in BOOLEAN /\ firstPdu \in BOOLEAN
    BY <2>1, Zenon
  <2>3. toleratedEof \in LeastTolerance..1 /\ turns \in 0..1 /\ oldOffset \in Nat /\ start \in Nat
    BY <2>1 DEF LeastTolerance
  <2> QED BY <2>1, <2>2, <2>3 DEF TInv
<1>2. IInv /\ TInv /\ [Next]_vars => TInv'
  BY TypesNext
<1>3. IInv /\ MInv /\ TInv => TypeOK
  <2> SUFFICES ASSUME IInv, MInv, TInv PROVE TypeOK
    OBVIOUS
  <2>1. blocks \in Nat
    BY DEF MInv, NothingLeaked
  <2>2. read \in Nat /\ taken \in Nat
    BY FileType DEF IInv
  <2> QED BY <2>1, <2>2 DEF TypeOK, IInv, TInv, Buffers
<1> QED BY <1>1, <1>2, <1>3, Reading, Memory, PTL DEF Spec

-----------------------------------------------------------------------------
(* The converter implements PduStream: it writes the messages of each file *)
(* in order, as decoding the file in one piece yields them, one after      *)
(* another, for any decoder, checks and encoder of Resumption.             *)

Whole == DecodeAll(job.type, Unread)

(* Whatever the checks are when a structure was decoded, they pass it if   *)
(* it must pass and only if it may.                                        *)
CheckedRight ==
  /\ Keep(checks, job.type, structure) \in AllChecks
  /\ MustPass(job.type, structure) => Check(checks, job.type, structure)
  /\ Check(checks, job.type, structure) => MayPass(job.type, structure)

(* What the converter knows of the message that starts at start: before it *)
(* gives up there is none, and it has seen all there is or the decoder has *)
(* failed; before a structure is used it is that message.  An offset that  *)
(* moved, or octets left over, mean that the file did not end there.       *)
PInv ==
  /\ pc # "done" => status = "running"
  /\ pc \notin {"open", "done"} => File.kind # "missing"
  /\ firstPdu \in BOOLEAN /\ (firstPdu <=> start = 0)
  /\ checks \in AllChecks
  /\ pc = "read" =>
       /\ NextOffset # oldOffset => start < read
       /\ read = Len(Contents) /\ (toleratedEof # 1 \/ start < taken) => Whole.code # "OK"
  /\ pc = "clean" =>
       /\ buffer.data # <<>> \/ NextOffset # oldOffset => start < read
       /\ Whole.code # "OK"
  /\ pc = "use" =>
       /\ Whole.code = "OK" /\ Whole.used = taken - start
       /\ SameMessage(job.type, structure, Whole.node) /\ CheckedRight

-----------------------------------------------------------------------------
(* The offsets into the file are numbers in order.                         *)
LEMMA KindType ==
  ASSUME IInv
  PROVE  /\ read \in Nat /\ taken \in Nat /\ start \in Nat /\ Len(Contents) \in Nat
         /\ start <= taken /\ taken <= read /\ read <= Len(Contents)
BY FileType DEF IInv

(* An empty piece says that the file is read to its end.                   *)
LEMMA EmptyPiece ==
  ASSUME IInv, Len(Piece) = 0
  PROVE  read = Len(Contents)
<1> DEFINE left == Len(Contents) - read
           n    == IF left < job.bufsize THEN left ELSE job.bufsize
<1>1. /\ n \in Nat /\ read \in Nat /\ read + n \in Nat /\ read <= read + n
      /\ read + n <= Len(Contents) /\ Contents \in Seq(Byte)
      /\ n = 0 => read = Len(Contents)
  BY FileType DEF IInv
<1>2. Piece = SubSeq(Contents, read + 1, read + n)
  BY DEF Piece, Contents
<1>3. Len(Piece) = n
  <2> DEFINE to == read + n
  <2>1. to - read = n
    BY <1>1
  <2> HIDE DEF n, to
  <2>2. Len(SubSeq(Contents, read + 1, to)) = to - read
    BY <1>1, Part DEF to
  <2> QED BY <1>2, <2>1, <2>2 DEF to
<1> HIDE DEF n
<1> QED BY <1>1, <1>3

(* A turn that finds nothing new behind the start of the message leaves    *)
(* the offset where it is.                                                 *)
LEMMA NothingMoves ==
  ASSUME DecoderKeepsToInput, IInv, Turn, Loops(Piece), To = start
  PROVE  /\ read = start /\ buffer'.data = <<>>
         /\ NextOffset' = NextOffset
<1>1. /\ read = start /\ taken = start /\ Len(Piece) = 0
  BY KindType, PieceType DEF To
<1>2. Piece = <<>> /\ buffer.data = <<>>
  <2>1. pc = "read" /\ Piece \in Seq(Byte)
    BY PieceType, TurnDoes
  <2>2. buffer.data = SubSeq(Contents, taken + 1, read)
    BY <2>1 DEF IInv, UnreadKept, Contents
  <2>3. buffer.data = <<>>
    BY <1>1, <2>2, SubSeqEmpty, KindType
  <2> QED BY <1>1, <2>1, <2>3, EmptySeq
<1>3. Result.used = 0
  BY <1>1, TurnResult, KindType
<1>4. buffer' = Adjusted(buffer, <<>>, Result)
  <2>1. buffer' = Adjusted(Grown, Piece, Result)
    BY TurnDoes DEF Decoded
  <2>2. Grown = buffer
    BY <1>2 DEF Grown, AddBytes
  <2> QED BY <1>2, <2>1, <2>2
<1>5. buffer' = Consumed(buffer, 0)
  <2>1. ~(Result.used < Len(<<>>))
    BY <1>3, EmptySeq
  <2> QED BY <1>3, <1>4, <2>1 DEF Adjusted
<1>6. buffer \in Buffers
  BY DEF IInv
<1>7. CASE buffer.allocated > 0
  <2>1. SubSeq(<<>>, 0 + 1, Len(<<>>)) = <<>>
    BY SubSeqEmpty, EmptySeq
  <2>2. Consumed(buffer, 0) = [data |-> <<>>, offset |-> buffer.offset + 0,
                               allocated |-> buffer.allocated, shifted |-> buffer.shifted]
    BY <1>2, <1>6, <1>7, <2>1 DEF Consumed, Buffers
  <2>3. buffer'.data = <<>> /\ buffer'.offset = buffer.offset /\ buffer'.shifted = buffer.shifted
    BY <1>5, <1>6, <2>2 DEF Buffers
  <2> QED BY <1>1, <1>6, <2>3 DEF Buffers, NextOffset
<1>8. CASE ~(buffer.allocated > 0)
  <2>1. buffer' = [buffer EXCEPT !.shifted = buffer.shifted + 0]
    BY <1>5, <1>8 DEF Consumed
  <2> QED BY <1>1, <1>2, <1>6, <2>1 DEF Buffers, NextOffset
<1> QED BY <1>7, <1>8

(* What the hypotheses say of the file at hand.                            *)
LEMMA Agrees ==
  ASSUME PiecesAgree, IInv
  PROVE  Whole.code = "OK" => Whole.used \in 1..Len(Unread)
<1>1. AgreesInPieces(job.type, Unread)
  BY UnreadType DEF PiecesAgree, IInv
<1> QED BY <1>1 DEF AgreesInPieces, Whole

(* What a turn of the loop yields is what decoding the rest of the file in *)
(* one piece yields: the same message with the same octets, or a failure   *)
(* where that fails.                                                       *)
LEMMA TurnAgrees ==
  ASSUME PiecesAgree, IInv, Turn
  PROVE  /\ Result.code = "OK" => /\ Whole.code = "OK" /\ Whole.used = (taken - start) + Result.used
                                  /\ SameMessage(job.type, Result.node, Whole.node)
         /\ Result.code = "FAIL" => Whole.code # "OK"
         /\ Result.code = "WMORE" /\ To = Len(Contents) => Whole.code # "OK"
<1>1. AgreesInPieces(job.type, Unread)
  BY UnreadType DEF PiecesAgree, IInv
<1>2. /\ Place \in Resumable(job.type, Unread) /\ Place[1] = taken - start
      /\ To - start \in Place[1]..Len(Unread)
  BY TurnResumes
<1>3. To = Len(Contents) => To - start = Len(Unread)
  BY UnreadType
<1>4. /\ Result.code = "OK" => /\ Whole.code = "OK" /\ Whole.used = Place[1] + Result.used
                               /\ SameMessage(job.type, Result.node, Whole.node)
      /\ Result.code = "FAIL" => Whole.code # "OK"
      /\ Result.code = "WMORE" /\ To - start = Len(Unread) => Whole.code # "OK"
  BY <1>1, <1>2 DEF AgreesInPieces, Whole, Result
<1> QED BY <1>2, <1>3, <1>4

(* A turn of the loop leaves the checks of the descriptors as the messages *)
(* so far have set them.                                                   *)
LEMMA TurnChecks ==
  ASSUME ChecksHold, IInv, checks \in AllChecks, Turn, Loops(Piece)
  PROVE  checks' \in AllChecks /\ CheckedRight'
<1>1. ChecksBetween(job.type, Unread)
  BY UnreadType DEF ChecksHold, IInv
<1>2. /\ Place \in Resumable(job.type, Unread) /\ To - start \in Place[1]..Len(Unread)
  BY TurnResumes
<1>3. \A c \in AllChecks :
        /\ Inherit(c, job.type, Result.node) \in AllChecks /\ Keep(c, job.type, Result.node) \in AllChecks
        /\ MustPass(job.type, Result.node) => Check(c, job.type, Result.node)
        /\ Check(c, job.type, Result.node) => MayPass(job.type, Result.node)
  BY <1>1, <1>2 DEF ChecksBetween, Result
<1>4. checks' = Inherit(checks, job.type, Result.node) /\ structure' = Result.node /\ job' = job
  BY TurnDoes DEF Decoded
<1> QED BY <1>3, <1>4 DEF CheckedRight

(* A turn of the loop keeps the invariant of the promise.                  *)
LEMMA TurnPromise ==
  ASSUME DecoderKeepsToInput, PiecesAgree, ChecksHold, IInv, PInv, Turn
  PROVE  PInv'
<1>1. /\ pc = "read" /\ read' = To
      /\ UNCHANGED <<job, which, status, firstPdu, oldOffset, start, printed>>
      /\ Loops(Piece) => Decoded(Piece, Result, Grown)
      /\ ~Loops(Piece) =>
           /\ pc' = "clean"
           /\ UNCHANGED <<code, structure, blocks, checks, taken, buffer, toleratedEof>>
  BY TurnDoes
<1>2. /\ File' = File /\ Contents' = Contents /\ Unread' = Unread /\ Whole' = Whole
  BY <1>1 DEF File, Contents, Unread, Whole
<1>3. /\ read \in Nat /\ taken \in Nat /\ start \in Nat /\ start <= taken /\ taken <= read
      /\ To \in Nat /\ read <= To /\ To <= Len(Contents) /\ Len(Contents) \in Nat
  BY KindType, TurnInput
<1>4. /\ status' = "running" /\ File'.kind # "missing"
      /\ firstPdu' \in BOOLEAN /\ (firstPdu' <=> start' = 0)
  BY <1>1, <1>2, Zenon DEF PInv
<1>5. CASE ~Loops(Piece)
  <2>1. Piece = <<>> /\ (toleratedEof = 0 \/ buffer.data = <<>>)
    BY <1>5 DEF Loops
  <2>2. read = Len(Contents) /\ To = read
    BY <1>3, <2>1, EmptyPiece, EmptySeq DEF To
  <2>3. buffer.data = SubSeq(Contents, taken + 1, read)
    BY <1>1 DEF IInv, UnreadKept, Contents
  <2>4. Len(buffer.data) = read - taken
    BY <1>3, <2>3, Part, FileType DEF IInv
  <2>5. Whole.code # "OK"
    <3>1. CASE toleratedEof = 0 \/ start < taken
      BY <1>1, <2>2, <3>1 DEF PInv
    <3>2. CASE toleratedEof # 0 /\ ~(start < taken)
      <4>1. Len(buffer.data) = 0
        BY <2>1, <3>2, EmptySeq
      <4>2. Len(Unread) = 0
        BY <1>3, <2>2, <2>4, <3>2, <4>1, UnreadType
      <4> QED BY <4>2, Agrees
    <3> QED BY <3>1, <3>2
  <2>6. buffer.data # <<>> => start < read
    <3>1. buffer.data \in Seq(Byte)
      BY DEF IInv, Buffers
    <3>2. buffer.data # <<>> => Len(buffer.data) # 0
      BY <3>1, EmptySeq
    <3> QED BY <1>3, <2>4, <3>2
  <2>7. NextOffset' = NextOffset
    BY <1>1, <1>5 DEF NextOffset
  <2> QED BY <1>1, <1>2, <1>4, <1>5, <2>2, <2>5, <2>6, <2>7 DEF PInv
<1>6. CASE Loops(Piece)
  <2>1. /\ pc' = After(Result) /\ taken' = taken + Result.used /\ structure' = Result.node
    BY <1>1, <1>6 DEF Decoded
  <2>2. Result.code \in {"OK", "WMORE", "FAIL"} /\ Result.used \in Nat
    BY TurnResult
  <2>3. buffer'.data # <<>> \/ NextOffset' # oldOffset => start < To
    <3> SUFFICES ASSUME To = start PROVE buffer'.data = <<>> /\ NextOffset' = oldOffset
      BY <1>3
    <3>1. read = start /\ buffer'.data = <<>> /\ NextOffset' = NextOffset
      BY <1>6, NothingMoves
    <3> QED BY <1>1, <1>3, <3>1 DEF PInv
  <2>4. checks' \in AllChecks /\ CheckedRight'
    BY <1>6, TurnChecks DEF PInv
  <2>5. CASE Result.code = "OK"
    <3>1. pc' = "use"
      BY <2>1, <2>5 DEF After
    <3>2. /\ Whole.code = "OK" /\ Whole.used = (taken - start) + Result.used
          /\ SameMessage(job.type, Result.node, Whole.node)
      BY <2>5, TurnAgrees
    <3>3. Whole.used = taken' - start'
      BY <1>1, <1>3, <2>1, <2>2, <3>2
    <3> QED BY <1>1, <1>2, <1>4, <2>1, <2>4, <3>1, <3>2, <3>3 DEF PInv
  <2>6. CASE Result.code = "FAIL"
    <3>1. pc' = "clean" /\ Whole.code # "OK"
      BY <2>1, <2>6, TurnAgrees DEF After
    <3> QED BY <1>1, <1>2, <1>4, <2>3, <2>4, <3>1 DEF PInv
  <2>7. CASE Result.code = "WMORE"
    <3>1. pc' = "read" /\ (To = Len(Contents) => Whole.code # "OK")
      BY <2>1, <2>7, TurnAgrees DEF After
    <3> QED BY <1>1, <1>2, <1>4, <2>3, <2>4, <3>1 DEF PInv
  <2> QED BY <2>2, <2>5, <2>6, <2>7
<1> QED BY <1>5, <1>6

-----------------------------------------------------------------------------
(* The converter starts in it.                                             *)
LEMMA PromiseInit == ChecksHold /\ Init => PInv
<1> SUFFICES ASSUME ChecksHold, Init PROVE PInv
  OBVIOUS
<1>1. /\ pc = "open" /\ status = "running" /\ firstPdu = TRUE /\ start = 0 /\ checks = NoChecks
      /\ job \in Jobs
  BY DEF Init
<1>2. ChecksBetween(job.type, Unread)
  BY <1>1, ConverterInit, UnreadType DEF ChecksHold
<1>3. checks \in AllChecks
  BY <1>1, <1>2 DEF ChecksBetween
<1>4. firstPdu \in BOOLEAN /\ (firstPdu <=> start = 0)
  BY <1>1, Zenon
<1> QED BY <1>1, <1>3, <1>4 DEF PInv

(* Going to the next file, or ending.                                      *)
LEMMA NextFilePromise ==
  ASSUME IInv, PInv, pc # "done", NextFile \/ Exit, checks' \in AllChecks, UNCHANGED job
  PROVE  PInv'
<1>1. CASE pc' = "done" /\ UNCHANGED <<start, firstPdu>>
  BY <1>1 DEF PInv
<1>2. CASE pc' = "open" /\ status' = status /\ start' = 0 /\ firstPdu' = TRUE
  <2>1. firstPdu' \in BOOLEAN /\ (firstPdu' <=> start' = 0)
    BY <1>2, Zenon
  <2> QED BY <1>2, <2>1 DEF PInv
<1> QED BY <1>1, <1>2 DEF NextFile, Exit

(* Every step keeps it.                                                    *)
LEMMA PromiseNext ==
  ASSUME DecoderKeepsToInput, PiecesAgree, ChecksHold, IInv, PInv, [Next]_vars
  PROVE  PInv'
<1>1. CASE Open
  <2>1. CASE File.kind = "missing"
    BY <1>1, <2>1, NextFilePromise DEF Open, PInv
  <2>2. CASE File.kind # "missing"
    <3>1. /\ pc = "open" /\ pc' = "prepare" /\ UNCHANGED <<job, which, status, firstPdu, start, checks>>
      BY <1>1, <2>2 DEF Open
    <3> QED BY <2>2, <3>1 DEF PInv, File
  <2> QED BY <2>1, <2>2
<1>2. CASE Prepare
  <2> DEFINE buf == IF firstPdu THEN EmptyBuffer ELSE buffer
  <2>1. /\ pc = "prepare" /\ pc' = "read" /\ buffer' = buf /\ oldOffset' = buf.shifted + buf.offset
        /\ toleratedEof' = 1
        /\ UNCHANGED <<job, which, status, read, firstPdu, start, taken, structure, checks>>
    BY <1>2 DEF Prepare
  <2>2. NextOffset' = oldOffset'
    BY <2>1 DEF NextOffset
  <2>3. taken = start /\ start \in Nat
    BY <2>1, KindType DEF IInv
  <2> HIDE DEF buf
  <2> QED BY <2>1, <2>2, <2>3 DEF PInv, File
<1>3. CASE Turn
  BY <1>3, TurnPromise
<1>4. CASE CleanUp
  BY <1>4, NextFilePromise DEF CleanUp, PInv
<1>5. CASE Use
  <2>1. checks' \in AllChecks /\ UNCHANGED job
    BY <1>5 DEF Use, PInv, CheckedRight
  <2>2. CASE job.onepdu
    BY <1>5, <2>1, <2>2, NextFilePromise DEF Use
  <2>3. CASE ~job.onepdu
    <3>1. /\ pc = "use" /\ pc' = "prepare" /\ firstPdu' = FALSE /\ start' = taken
          /\ UNCHANGED <<job, which, status>>
      BY <1>5, <2>3 DEF Use
    <3>2. taken # 0
      BY <3>1, Agrees, KindType, UnreadType DEF PInv
    <3>3. firstPdu' \in BOOLEAN /\ (firstPdu' <=> start' = 0)
      BY <3>1, <3>2, Zenon
    <3> QED BY <2>1, <3>1, <3>3 DEF PInv, File
  <2> QED BY <2>2, <2>3
<1>6. CASE Refuse
  BY <1>6, NextFilePromise DEF Refuse, PInv
<1>7. CASE UNCHANGED vars
  BY <1>7 DEF vars, progress, PInv, File, Contents, Unread, Whole, NextOffset, CheckedRight
<1> QED BY <1>1, <1>2, <1>3, <1>4, <1>5, <1>6, <1>7 DEF Next, Done

-----------------------------------------------------------------------------
(* The steps of the promise.                                               *)
LEMMA PromiseMessage ==
  /\ Promise!File = File /\ Promise!Unread = Unread /\ Promise!Message = Whole
  /\ Promise!Complete <=> (File.kind # "missing" /\ Whole.code = "OK")
  /\ Promise!Written = EncodeStructure(job.type, Whole.node)
BY DEF Promise!File, Promise!Unread, Promise!Message, Promise!Complete, Promise!Written,
       File, Contents, Unread, Whole

(* Where no message is, the program may end with an error unless the file  *)
(* ended behind a message.                                                 *)
LEMMA ExitFails ==
  ASSUME IInv, PInv, pc # "done", Exit, UNCHANGED <<job, printed>>,
         ~(/\ Promise!Complete /\ Promise!Written.ok
           /\ (job.check => MustPass(job.type, Whole.node))),
         File.kind = "missing" \/ Unread # <<>> \/ start = 0
  PROVE  Promise!Fail
BY PromiseMessage DEF Promise!Fail, Exit, PInv

(* Leaving the loop without a message ends the file as the promise does:   *)
(* in an error or at its end.                                              *)
LEMMA CleanUpKeeps ==
  ASSUME IInv, PInv, CleanUp
  PROVE  Promise!Fail \/ Promise!EndOfFile
<1>1. /\ pc = "clean" /\ UNCHANGED <<job, printed>>
      /\ Whole.code # "OK" /\ status = "running"
  BY DEF CleanUp, PInv
<1>2. ~Promise!Complete
  BY <1>1, PromiseMessage
<1>3. CASE Unfinished
  <2>1. Exit
    BY <1>3 DEF CleanUp
  <2>2. start = 0 \/ start < read
    BY <1>1, <1>3 DEF Unfinished, PInv
  <2>3. start < read => Unread # <<>>
    BY KindType, UnreadType, EmptySeq
  <2> QED BY <1>1, <1>2, <2>1, <2>2, <2>3, ExitFails
<1>4. CASE ~Unfinished
  <2>1. NextFile
    BY <1>4 DEF CleanUp
  <2>2. start > 0
    BY <1>4, KindType DEF Unfinished, PInv
  <2>3. Promise!NextFile
    BY <2>1 DEF NextFile, Promise!NextFile
  <2> QED BY <1>1, <1>2, <2>2, <2>3 DEF Promise!EndOfFile
<1> QED BY <1>3, <1>4

(* Writing a message out is the promise's writing of the next message.     *)
LEMMA UseKeeps ==
  ASSUME PiecesAgree, IInv, PInv, Use
  PROVE  Promise!Emit
<1>1. /\ pc = "use" /\ UNCHANGED job /\ Passed
      /\ printed' = Append(printed, EncodeStructure(job.type, structure).octets)
      /\ Whole.code = "OK" /\ Whole.used = taken - start /\ SameMessage(job.type, structure, Whole.node)
      /\ CheckedRight /\ status = "running" /\ File.kind # "missing"
  BY DEF Use, PInv
<1>2. /\ Promise!Complete /\ Promise!Written = EncodeStructure(job.type, structure)
      /\ Promise!Written.ok
      /\ job.check => MayPass(job.type, Promise!Message.node)
  BY <1>1, PromiseMessage DEF SameMessage, Passed, CheckedRight
<1>3. CASE job.onepdu
  <2>1. NextFile
    BY <1>3 DEF Use
  <2>2. Promise!NextFile
    BY <2>1 DEF NextFile, Promise!NextFile
  <2> QED BY <1>1, <1>2, <1>3, <2>2 DEF Promise!Emit
<1>4. CASE ~job.onepdu
  <2>1. start' = taken /\ UNCHANGED <<which, status>>
    BY <1>4 DEF Use
  <2>2. start' = start + Promise!Message.used /\ start' > start
    BY <1>1, <2>1, KindType, UnreadType, Agrees, PromiseMessage
  <2> QED BY <1>1, <1>2, <1>4, <2>1, <2>2 DEF Promise!Emit
<1> QED BY <1>3, <1>4

(* Refusing a message that breaks a constraint is the promise's failure.   *)
LEMMA RefuseKeeps ==
  ASSUME PiecesAgree, IInv, PInv, Refuse
  PROVE  Promise!Fail
<1>1. /\ pc = "use" /\ UNCHANGED <<job, printed>> /\ ~Passed /\ Exit
      /\ Whole.code = "OK" /\ SameMessage(job.type, structure, Whole.node) /\ CheckedRight
  BY DEF Refuse, PInv
<1>2. ~(Promise!Written.ok /\ (job.check => MustPass(job.type, Whole.node)))
  BY <1>1, PromiseMessage DEF Passed, SameMessage, CheckedRight
<1>3. Unread # <<>>
  BY <1>1, Agrees, EmptySeq
<1> QED BY <1>1, <1>2, <1>3, ExitFails

(* Every step of the converter is a step of the promise, or none.          *)
LEMMA StepKeepsPromise ==
  ASSUME DecoderKeepsToInput, PiecesAgree, ChecksHold, IInv, PInv, [Next]_vars
  PROVE  [Promise!Next]_(Promise!vars)
<1>1. CASE UNCHANGED <<job, which, start, printed, status>>
  BY <1>1 DEF Promise!vars
<1>2. CASE Open /\ File.kind = "missing"
  <2>1. Promise!Fail
    BY <1>2, PromiseMessage, ExitFails DEF Open
  <2> QED BY <2>1 DEF Promise!Next
<1>3. Open /\ File.kind # "missing" => UNCHANGED <<job, which, start, printed, status>>
  BY DEF Open
<1>4. Prepare \/ Turn \/ Done \/ UNCHANGED vars => UNCHANGED <<job, which, start, printed, status>>
  BY DEF Prepare, Turn, Done, vars
<1>5. CleanUp \/ Use \/ Refuse => Promise!Next
  BY CleanUpKeeps, UseKeeps, RefuseKeeps DEF Promise!Next
<1> QED BY <1>1, <1>2, <1>3, <1>4, <1>5 DEF Next

(* The converter implements PduStream: in whatever pieces the files are    *)
(* read and wherever the buffer is moved, grown or flushed, what is        *)
(* written is the messages of the files, in order, each decoded from where *)
(* the one before ended, and the program fails only at what is no message  *)
(* or does not pass the check (data_decode_from_file and main).            *)
THEOREM ConverterInPieces ==
  ASSUME DecoderKeepsToInput, PiecesAgree, ChecksHold
  PROVE  Spec => InPieces
<1>1. Init => PInv
  BY PromiseInit
<1>2. IInv /\ PInv /\ [Next]_vars => PInv'
  BY PromiseNext
<1>3. IInv /\ PInv /\ [Next]_vars => [Promise!Next]_(Promise!vars)
  BY StepKeepsPromise
<1>4. Init => Promise!AtStart
  BY DEF Init, Promise!AtStart
<1> QED BY <1>1, <1>2, <1>3, <1>4, Reading, PTL DEF Spec, InPieces
=============================================================================
