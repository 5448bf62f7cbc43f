---------------------------- MODULE MCConverter ----------------------------
(***************************************************************************)
(* The converter with the decoders of the program's two grammars, for TLC. *)
(***************************************************************************)
EXTENDS Resumption, DerEncoder, TcapTypes, InapTypes

LOCAL INSTANCE SequencesExt

(* The types the converter is built for (-DPDU=...).                       *)
Pdu == [TCMessage    |-> asn_DEF_TCMessage,
        InitialDPArg |-> asn_DEF_InitialDPArg,
        ConnectArg   |-> asn_DEF_ConnectArg]

MCDecode(type, node, m)  == Decode(Pdu[type], node, m, Own)
MCDecodeAll(type, m)     == BerDecode(Pdu[type], m)
MCFreed(type, node)      == Released(Pdu[type], node, FALSE)
MCMayPass(type, node)    == Obeys(Pdu[type], node, "none")
MCMustPass(type, node)   == Obeys(Pdu[type], node, "all")
MCEncode(type, node)     == DerEncode(Pdu[type], node)

(* The checks of CalledPartyNumber, the one type with a constraint that is *)
(* the element of a list, as destinationRoutingAddress will use them.      *)
(* Decoding such a number puts the basic check in place of the generated   *)
(* one, but a list that is checked before keeps the one it finds.          *)
AddressList(type, node) == IF type = "ConnectArg" THEN node.members[1] ELSE NoNode

MCInherit(now, type, node) ==
  IF now = "new" /\ type = "ConnectArg"
     /\ (AddressList(type, node).entered \/ AddressList(type, node).list # <<>>)
  THEN "none" ELSE now

MCKeep(now, type, node) == IF now = "new" /\ type = "ConnectArg" THEN "elements" ELSE now

MCCheck(now, type, node) ==
  Obeys(Pdu[type], node, IF now = "elements" THEN "elements" ELSE "none")

-----------------------------------------------------------------------------
(* Messages.  One element, and one of indefinite length.                   *)
T(tag, constructed, content) == WriteTL(tag, Len(content), constructed) \o content

Open80(tag, content) ==
  [WriteTL(tag, 0, TRUE) EXCEPT ![Len(TagOctets(tag)) + 1] = 128] \o content \o <<0, 0>>

Otid4     == T(Application(8), FALSE, <<1, 2, 3, 4>>)
Otid7     == T(Application(8), FALSE, <<1, 2, 3, 4, 5, 6, 7>>)
Dtid2     == T(Application(9), TRUE, T(Application(9), FALSE, <<7>>) \o T(Application(9), FALSE, <<8>>))
Dialogue  == T(Application(11), FALSE, <<40, 1>>)
Dialogue0 == Open80(Application(11), Open80(Application(11), T(Universal(4), FALSE, <<9>>)))
Open4       == Open80(Universal(16), T(Context(33), FALSE, <<7>>))

Invoke1 == T(Context(1), TRUE, <<2, 1, 5, 2, 2, 0, 20, 48, 3, 128, 1, 7>>)
Invoke0 == Open80(Context(1), <<2, 1, 255, 128, 1, 4, 6, 1, 40>> \o Open4)
Result  == T(Context(2), TRUE, <<2, 1, 1>> \o T(Universal(16), TRUE, <<2, 1, 0>> \o Open4))
Error   == T(Context(3), TRUE, <<2, 1, 1, 211, 1, 9, 4, 0>>)
Rejects == T(Context(4), TRUE, <<5, 0, 130, 1, 1>>)

Parts(components) == T(Application(12), TRUE, components)

BeginShort == T(Application(2), TRUE, Otid4)
BeginPlain == T(Application(2), TRUE, Otid4 \o Parts(Invoke1))
BeginOpen  == Open80(Application(2), Otid4 \o Dialogue \o Open80(Application(12), Invoke0))
EndPlain   == T(Application(4), TRUE, Dtid2 \o Parts(Result \o Error))

Messages ==
  [TCMessage |->
     {BeginPlain, BeginOpen, EndPlain,
      T(Application(1), TRUE, Dialogue \o Parts(<<>>)),
      T(Application(2), TRUE, Otid7),
      T(Application(5), TRUE, Otid4 \o Dtid2 \o Parts(Rejects)),
      T(Application(7), TRUE, Dtid2 \o Dialogue0),
      T(Application(7), TRUE, Dtid2 \o T(Application(10), FALSE, <<0, 1>>))},
   InitialDPArg |->
     {T(Universal(16), TRUE, <<128, 2, 0, 5, 130, 3, 131, 144, 2, 133, 0>>),
      Open80(Universal(16), <<128, 1, 5, 164, 4, 48, 128, 0, 0>>),
      T(Universal(16), TRUE, <<128, 1, 255, 131, 0>>),
      T(Universal(16), TRUE, <<130, 1, 5>>)},
   ConnectArg |->
     {T(Universal(16), TRUE, <<160, 0>>),
      T(Universal(16), TRUE, <<160, 0, 131, 1, 23>>),
      T(Universal(16), TRUE, <<160, 2, 4, 0>>),
      Open80(Universal(16), <<160, 128, 36, 3, 4, 1, 49, 4, 1, 50, 0, 0, 131, 1, 0, 159, 27, 0>>)}]

-----------------------------------------------------------------------------
(* Calls.  A file holds a message or two, or three that are short, a       *)
(* message cut off or with one octet changed, or a message with such a     *)
(* one behind it.                                                          *)
Types == DOMAIN Messages

Call1(type, kind, contents, bufsize, onepdu, check) ==
  [type |-> type, files |-> <<[kind |-> kind, contents |-> contents]>>,
   bufsize |-> bufsize, onepdu |-> onepdu, check |-> check]

Pairs(type) == {a \o b : a, b \in Messages[type]}

WholeJobs ==
  UNION {{Call1(type, "file", m, b, FALSE, c) :
            m \in Messages[type] \cup Pairs(type), b \in {1, 3, 8, 64}, c \in BOOLEAN} :
           type \in Types}

(* One of the three lists of a ConnectArg may decide how the others are    *)
(* checked.                                                                *)
TripleJobs ==
  {Call1("ConnectArg", "file", a \o b \o c, 7, FALSE, TRUE) : a, b, c \in Messages["ConnectArg"]}

Cut(m)     == {SubSeq(m, 1, n) : n \in 0..Len(m)}
Changed(m) == {[m EXCEPT ![n] = x] : n \in DOMAIN m, x \in {0, 128, 255}}

Damaged == Cut(BeginOpen) \cup Changed(BeginOpen) \cup Cut(EndPlain) \cup Changed(EndPlain)

DamagedJobs ==
  {Call1("TCMessage", "file", before \o m, b, FALSE, FALSE) :
     m \in Damaged, before \in {<<>>, BeginShort, BeginPlain}, b \in {2, 6, 64}}

Two(a, b, onepdu) ==
  [Call1("TCMessage", "file", <<>>, 5, onepdu, FALSE) EXCEPT !.files = <<a, b>>]

OtherJobs ==
  LET files == {[kind |-> k, contents |-> m] : k \in {"file", "missing", "failing"},
                                               m \in {BeginPlain, BeginPlain \o EndPlain, <<>>}}
  IN  {Two(a, b, o) : a, b \in files, o \in BOOLEAN}

(* The short messages, and those cut and damaged in every way.             *)
Short(type) == {m \in Messages[type] : Len(m) <= 20}

SampleJobs ==
  UNION {{Call1(type, "file", m, 64, FALSE, FALSE) :
            m \in UNION {{a} \cup Cut(a) \cup Changed(a) : a \in Short(type)}} : type \in Types}

MCJobs == WholeJobs \cup TripleJobs \cup DamagedJobs \cup OtherJobs \cup SampleJobs

-----------------------------------------------------------------------------
(* Where decoding comes to, however the octets are cut.                    *)
RECURSIVE Reached(_, _, _, _)
Reached(type, o, fresh, sofar) ==
  LET calls == UNION {{<<at, Resumed(type, o, at, b)>> : b \in at[1]..Len(o)} : at \in fresh}
      next  == {<<t[1][1] + t[2].used, t[2].node>> : t \in {u \in calls : u[2].code = "WMORE"}}
  IN  IF next \subseteq sofar THEN sofar ELSE Reached(type, o, next \ sofar, sofar \cup next)

MCResumable(type, o) == LET first == {<<0, NoStructure>>} IN Reached(type, o, first, first)

(* Wherever a message is cut, and whatever comes next, the decoder goes on *)
(* to the message, the octets used and the memory that decoding in one     *)
(* piece gives, and the checks stay between the two bounds: what the       *)
(* proofs about the converter ask of the codec, of the messages of         *)
(* SampleJobs.                                                             *)
DecoderResumes ==
  pc = "open" /\ job \in SampleJobs =>
    LET o == File.contents
    IN  /\ KeepsToInput(job.type, o) /\ AccountsForMemory(job.type, o)
        /\ AgreesInPieces(job.type, o) /\ ChecksBetween(job.type, o)

(* What was written is a message of the type, all of it, and is written    *)
(* the same when it is read again: der_encode undoes ber_decode.           *)
ReadsBack(octets) ==
  LET again == MCDecodeAll(job.type, octets)
  IN  /\ again.code = "OK" /\ again.used = Len(octets)
      /\ MCEncode(job.type, again.node) = Encoded(octets)

OutputReadsBack == [][printed' # printed => ReadsBack(printed'[Len(printed')])]_vars
=============================================================================
