----------------------------- MODULE Resumption -----------------------------
(***************************************************************************)
(* What the converter asks of the decoder it resumes, of the checks and of *)
(* the freeing of structures: the hypotheses of the proofs about it.  They *)
(* are stated of one type and the octets o of one file; that the codec of  *)
(* the program keeps them on a sample is an invariant of MCConverter.      *)
(***************************************************************************)
EXTENDS Converter

CONSTANTS Resumable(_, _),  \* of a type and octets: the pairs of the octets taken so far
                            \* and the structure that the decoder wants more for
          AllChecks         \* what checks may be in the descriptors

(* A turn of the decoder resumed at such a pair, with all read up to b.    *)
Resumed(type, o, at, b) == DecodePiece(type, at[2], SubSeq(o, at[1] + 1, b))

(* A decoder takes no more octets than it is given, and when it wants more *)
(* it can be resumed.                                                      *)
KeepsToInput(type, o) ==
  LET resumable == Resumable(type, o)
  IN  /\ <<0, NoStructure>> \in resumable
      /\ \A at \in resumable : \A b \in at[1]..Len(o) :
           \A r \in {Resumed(type, o, at, b)} :
             /\ r.code \in {"OK", "WMORE", "FAIL"} /\ r.used \in 0..(b - at[1])
             /\ r.code = "WMORE" => <<at[1] + r.used, r.node>> \in resumable

(* What it allocates in a turn is what freeing the structure then gives    *)
(* back besides.                                                           *)
AccountsForMemory(type, o) ==
  /\ Freed(type, NoStructure) = 0
  /\ \A at \in Resumable(type, o) : \A b \in at[1]..Len(o) :
       \A r \in {Resumed(type, o, at, b)} :
         /\ Freed(type, r.node) \in Nat
         /\ Freed(type, at[2]) + r.blocks = Freed(type, r.node)

(* Wherever o is cut, decoding ends as it does in one piece: with the same *)
(* message, where no octet can be taken from a message of none; with a     *)
(* failure only where there is no message; and it wants more than all of o *)
(* only where o is no message either.                                      *)
SameMessage(type, a, b) ==
  /\ EncodeStructure(type, a) = EncodeStructure(type, b)
  /\ MayPass(type, a) <=> MayPass(type, b)
  /\ MustPass(type, a) <=> MustPass(type, b)

AgreesInPieces(type, o) ==
  \A all \in {DecodeAll(type, o)} :
    /\ all.code = "OK" => all.used \in 1..Len(o)
    /\ \A at \in Resumable(type, o) : \A b \in at[1]..Len(o) :
         \A r \in {Resumed(type, o, at, b)} :
           /\ r.code = "OK" => all.code = "OK" /\ all.used = at[1] + r.used
                               /\ SameMessage(type, r.node, all.node)
           /\ r.code = "FAIL" => all.code # "OK"
           /\ r.code = "WMORE" /\ b = Len(o) => all.code # "OK"

(* Whatever checks the descriptors come to hold, a check passes what must  *)
(* pass and nothing that may not.                                          *)
ChecksBetween(type, o) ==
  /\ NoChecks \in AllChecks
  /\ \A at \in Resumable(type, o) : \A b \in at[1]..Len(o) : \A checks_ \in AllChecks :
       \A node \in {Resumed(type, o, at, b).node} :
         /\ Inherit(checks_, type, node) \in AllChecks /\ Keep(checks_, type, node) \in AllChecks
         /\ MustPass(type, node) => Check(checks_, type, node)
         /\ Check(checks_, type, node) => MayPass(type, node)

(* The octets of a file from any place on.                                 *)
Rests(j) ==
  UNION {{SubSeq(j.files[n].contents, s + 1, Len(j.files[n].contents)) :
            s \in 0..Len(j.files[n].contents)} : n \in DOMAIN j.files}

DecoderKeepsToInput == \A j \in Jobs : \A o \in Rests(j) : KeepsToInput(j.type, o)
MemoryAccounted     == \A j \in Jobs : \A o \in Rests(j) : AccountsForMemory(j.type, o)
PiecesAgree         == \A j \in Jobs : \A o \in Rests(j) : AgreesInPieces(j.type, o)
ChecksHold          == \A j \in Jobs : \A o \in Rests(j) : ChecksBetween(j.type, o)
=============================================================================
