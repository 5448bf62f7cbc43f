----------------------------- MODULE Converter -----------------------------
(***************************************************************************)
(* The converter of the asn1c runtime (asn/converter-sample.c), the        *)
(* program around the generated decoders: it reads files in pieces of a    *)
(* given size, keeps what the decoder has not used in DynamicBuffer, and   *)
(* resumes the decoder with every piece.                                   *)
(***************************************************************************)
EXTENDS Octets

CONSTANTS
  Jobs,                \* the calls of the program
  NoStructure,         \* no structure decoded yet
  DecodePiece(_, _, _),  \* a type, a structure, octets: a turn of ber_decode
  Freed(_, _),         \* the blocks ASN_STRUCT_FREE gives back
  NoChecks,            \* the checks of the descriptors before any is used
  Inherit(_, _, _),    \* the checks left when this structure was decoded
  Keep(_, _, _),       \* the checks left when it was checked
  Check(_, _, _),      \* asn_check_constraints with these checks
  EncodeStructure(_, _),  \* der_encode
  DecodeAll(_, _),     \* ber_decode of octets that are all there
  MayPass(_, _),       \* may a structure pass the check, with any checks
  MustPass(_, _)       \* and must it

(* A job: the type of the messages, the options -1, -c and -b, and the     *)
(* files.  One file cannot be opened (missing), and where the contents of  *)
(* another end reading fails (failing).                                    *)
ASSUME JobsAssumption ==
  \A j \in Jobs :
    /\ j.files \in Seq([kind : {"file", "missing", "failing"}, contents : Seq(Byte)])
    /\ j.files # <<>> /\ j.bufsize \in Nat \ {0}

VARIABLES
  job, which, status,  \* the call, the file, whether the program has ended
  pc,                  \* "open", "prepare", "read", "clean", "use" or "done"
  read, eof,           \* how much of the file was read, and feof
  firstPdu,            \* first_pdu
  buffer,              \* DynamicBuffer
  toleratedEof,        \* tolerate_eof
  turns,               \* turns of the loop, modulo 2: one that changes nothing is a step
  oldOffset, code,     \* old_offset, rval.code
  structure, blocks,   \* the structure, and the blocks of memory not freed
  checks,              \* the checks in the type descriptors, which are static
  start, taken,        \* where the message starts, how far decoders have come
  printed              \* what was written

progress == <<read, eof, toleratedEof, code, structure, blocks, checks, taken>>
vars == <<job, which, status, pc, firstPdu, buffer, oldOffset, start, printed, turns, progress>>

File == job.files[which]

(* data holds the length octets from the offset on.                        *)
EmptyBuffer == [data |-> <<>>, offset |-> 0, allocated |-> 0, shifted |-> 0]

Init ==
  /\ job \in Jobs /\ which = 1 /\ status = "running" /\ pc = "open"
  /\ read = 0 /\ eof = FALSE /\ firstPdu = TRUE /\ buffer = EmptyBuffer
  /\ toleratedEof = 0 /\ turns = 0 /\ oldOffset = 0 /\ code = "WMORE"
  /\ structure = NoStructure /\ blocks = 0 /\ checks = NoChecks /\ start = 0 /\ taken = 0 /\ printed = <<>>

(***************************************************************************)
(* add_bytes_to_buffer                                                     *)
(***************************************************************************)
(* Mutants: the room is taken to be there one octet too early; the octets  *)
(* that were moved are those before the offset.                            *)
RoomTooEarly(buf, n) == buf.allocated + 1 >= buf.offset + Len(buf.data) + n
LostWhenMoved(buf, octets) ==
  [buf EXCEPT !.data = SubSeq(@, 1, Len(@) - 1) \o octets, !.offset = 0, !.shifted = @ + buf.offset]

Room(buf, n) == buf.allocated >= buf.offset + Len(buf.data) + n

Moved(buf, octets) ==
  [buf EXCEPT !.data = @ \o octets, !.offset = 0, !.shifted = @ + buf.offset]

Reallocated(buf, octets) ==
  [buf EXCEPT !.data = @ \o octets, !.offset = 0, !.allocated = 4 * @ + Len(octets)]

AddBytes(buf, octets) ==
  IF octets = <<>> THEN buf
  ELSE IF Room(buf, Len(octets)) THEN [buf EXCEPT !.data = @ \o octets]
  ELSE IF Len(octets) <= buf.offset THEN Moved(buf, octets)
  ELSE Reallocated(buf, octets)

(***************************************************************************)
(* data_decode_from_file                                                   *)
(***************************************************************************)
(* Position after a decoder used some octets of the piece, or of the       *)
(* buffer; what it left of a piece goes into the buffer first.             *)
Consumed(buf, used) ==
  IF buf.allocated > 0
  THEN [buf EXCEPT !.offset = @ + used, !.data = SubSeq(@, used + 1, Len(@))]
  ELSE [buf EXCEPT !.shifted = @ + used]

(* Mutant of Flushed: the rest of a piece is put away whatever was used.   *)
FlushedFromStart(buf, piece, used) == [AddBytes(buf, piece) EXCEPT !.shifted = used]

Flushed(buf, piece, used) ==
  [AddBytes(buf, SubSeq(piece, used + 1, Len(piece))) EXCEPT !.shifted = used]

Adjusted(buf, piece, r) ==
  IF buf.allocated = 0 /\ r.code # "FAIL" /\ r.used < Len(piece)
  THEN Flushed(buf, piece, r.used) ELSE Consumed(buf, r.used)

NextOffset == buffer.shifted + buffer.offset

Prepare ==
  LET buf == IF firstPdu THEN EmptyBuffer ELSE buffer
  IN  /\ pc = "prepare"
      /\ pc' = "read" /\ buffer' = buf /\ oldOffset' = buf.shifted + buf.offset
      /\ toleratedEof' = 1 /\ code' = "WMORE"
      /\ UNCHANGED <<job, turns, which, status, read, eof, firstPdu, structure, blocks, checks,
                     start, taken, printed>>

(* fread: the next piece, and whether it shows the end of the file.        *)
Piece ==
  LET left == Len(File.contents) - read
  IN  SubSeq(File.contents, read + 1, read + (IF left < job.bufsize THEN left ELSE job.bufsize))

Ends(piece) == eof \/ (File.kind = "file" /\ Len(piece) < job.bufsize)

(* Mutant of Tolerated: the end of the file is tolerated for ever.         *)
AlwaysTolerated(piece) == toleratedEof

(* Below zero tolerate_eof counts on, and is looked at no more: only a     *)
(* read that fails leads there.                                            *)
LeastTolerance == -1

Tolerated(piece) ==
  IF code' = "WMORE" /\ piece = <<>> /\ toleratedEof > LeastTolerance
  THEN toleratedEof - 1 ELSE toleratedEof

After(r) == CASE r.code = "OK" -> "use" [] r.code = "WMORE" -> "read" [] r.code = "FAIL" -> "clean"

Decoded(piece, r, buf) ==
  /\ code' = r.code /\ structure' = r.node /\ blocks' = blocks + r.blocks
  /\ checks' = Inherit(checks, job.type, r.node) /\ taken' = taken + r.used
  /\ buffer' = Adjusted(buf, piece, r)
  /\ toleratedEof' = Tolerated(piece)
  /\ pc' = After(r)

(* Mutant of Loops: an end of file at the end of a piece ends the loop.    *)
LoopsOnRead(piece) == piece # <<>> \/ ~Ends(piece)

Loops(piece) == piece # <<>> \/ ~Ends(piece) \/ (toleratedEof # 0 /\ buffer.data # <<>>)

(* A turn of the loop, from the reading in its condition on.               *)
Turn ==
  LET piece == Piece
      buf   == IF buffer.allocated > 0 THEN AddBytes(buffer, piece) ELSE buffer
      input == IF buffer.allocated > 0 THEN buf.data ELSE piece
  IN  /\ pc = "read"
      /\ read' = read + Len(piece) /\ eof' = Ends(piece) /\ turns' = 1 - turns
      /\ IF Loops(piece)
         THEN Decoded(piece, DecodePiece(job.type, structure, input), buf)
         ELSE pc' = "clean" /\ UNCHANGED <<code, structure, blocks, checks, taken, buffer, toleratedEof>>
      /\ UNCHANGED <<job, which, status, firstPdu, oldOffset, start, printed>>

(* The structure is freed.  Nothing in the buffer and no offset moved is   *)
(* taken for the end of the file, unless no message came before.           *)
Free ==
  structure' = NoStructure /\ blocks' = blocks - Freed(job.type, structure)

NextFile ==
  IF which = Len(job.files)
  THEN /\ status' = "ok" /\ pc' = "done"
       /\ UNCHANGED <<which, read, eof, start, taken, firstPdu>>
  ELSE /\ which' = which + 1 /\ pc' = "open" /\ read' = 0 /\ eof' = FALSE
       /\ start' = 0 /\ taken' = 0 /\ firstPdu' = TRUE /\ UNCHANGED status

Exit == status' = "error" /\ pc' = "done" /\ UNCHANGED <<which, read, eof, start, taken, firstPdu>>

Unfinished == firstPdu \/ buffer.data # <<>> \/ NextOffset # oldOffset

CleanUp ==
  /\ pc = "clean" /\ Free
  /\ IF Unfinished THEN Exit ELSE NextFile
  /\ UNCHANGED <<job, turns, buffer, oldOffset, code, checks, toleratedEof, printed>>

(***************************************************************************)
(* main                                                                    *)
(***************************************************************************)
Open ==
  /\ pc = "open"
  /\ IF File.kind = "missing" THEN Exit
     ELSE pc' = "prepare" /\ UNCHANGED <<status, which, read, eof, start, taken, firstPdu>>
  /\ UNCHANGED <<job, turns, buffer, oldOffset, code, toleratedEof, structure, blocks, checks,
                 printed>>

(* With -c a structure must pass the check, and it must be encodable: or   *)
(* else the program ends as it is.                                         *)
Passed == (job.check => Check(checks, job.type, structure)) /\ EncodeStructure(job.type, structure).ok

Refuse ==
  /\ pc = "use" /\ ~Passed
  /\ Exit
  /\ UNCHANGED <<job, turns, buffer, oldOffset, code, toleratedEof, structure, blocks, checks,
                 printed>>

Use ==
  /\ pc = "use" /\ Passed
  /\ printed' = Append(printed, EncodeStructure(job.type, structure).octets) /\ Free
  /\ checks' = IF job.check THEN Keep(checks, job.type, structure) ELSE checks
  /\ IF job.onepdu THEN NextFile
     ELSE /\ pc' = "prepare" /\ firstPdu' = FALSE /\ start' = taken
          /\ UNCHANGED <<which, status, read, eof, taken>>
  /\ UNCHANGED <<job, turns, buffer, oldOffset, code, toleratedEof>>

Done == pc = "done" /\ UNCHANGED vars

Next == Open \/ Prepare \/ Turn \/ CleanUp \/ Use \/ Refuse \/ Done

Spec == Init /\ [][Next]_vars

(* Weak fairness of Next, which is enabled until the program has ended.    *)
Progress == []<>(pc = "done") \/ []<><<Next>>_vars
FairSpec == Spec /\ Progress

-----------------------------------------------------------------------------
TypeOK ==
  /\ which \in DOMAIN job.files /\ status \in {"running", "ok", "error"}
  /\ pc \in {"open", "prepare", "read", "clean", "use", "done"}
  /\ read \in Nat /\ eof \in BOOLEAN /\ firstPdu \in BOOLEAN
  /\ toleratedEof \in LeastTolerance..1 /\ turns \in 0..1
  /\ buffer \in [data : Seq(Byte), offset : Nat, allocated : Nat, shifted : Nat]
  /\ oldOffset \in Nat /\ code \in {"OK", "WMORE", "FAIL"}
  /\ blocks \in Nat /\ start \in Nat /\ taken \in Nat

(* What add_bytes_to_buffer has put into the buffer was not written past   *)
(* its end: the octets before the offset and behind it fit into what was   *)
(* allocated.                                                              *)
BufferFits == buffer.offset + Len(buffer.data) <= buffer.allocated

(* Between the pieces no octet of the file is lost, repeated or out of its *)
(* place: while the decoder does not fail, the buffer holds those read     *)
(* that no message has taken.                                              *)
UnreadKept ==
  pc \in {"read", "use"} \/ (pc = "prepare" /\ ~firstPdu) =>
    buffer.data = SubSeq(File.contents, taken + 1, read)

(* Whatever octet the decoder has failed or waits at, ASN_STRUCT_FREE of   *)
(* the structure would give back every block of memory there is.           *)
NothingLeaked == blocks = Freed(job.type, structure)

(* Every call ends, unless reading a file fails: feof is then never true.  *)
Terminates ==
  (\A n \in DOMAIN job.files : job.files[n].kind # "failing") ~> (pc = "done")

(* However the octets come in, and whatever the decoder is resumed with,   *)
(* the messages written are those of the files, each decoded from where    *)
(* the one before ended.                                                   *)
Promise  == INSTANCE PduStream
InPieces == Promise!AtStart /\ [][Promise!Next]_(Promise!vars)

(* "Print a message and return failure only if not EOF, unless this is our *)
(* first PDU (empty file)": where a file ends in the middle of a message,  *)
(* with the decoder waiting for more, the call does not end as if it had   *)
(* ended behind the last one.                                              *)
AtTheEnd == (status' = "ok" \/ which' > which) /\ ~job.onepdu
OnlyEofIsSilent == [][AtTheEnd /\ code = "WMORE" => start = Len(File.contents)]_vars
=============================================================================
