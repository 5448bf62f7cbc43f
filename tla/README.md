# protoVSCP in TLA+

protoVSCP is the prototype of a service control point: a program that answers
an exchange's "which number is this really?" over SIGTRAN. It opens one SCTP
association to a signalling gateway, registers there as an M3UA application
server process, and then handles one message at a time: an InitialDP with a
called number goes up through four codecs (M3UA, SCCP, TCAP, INAP), the number
is looked up in an sqlite table, and a Connect with the new number goes down
through the same four. The two upper codecs stand on the asn1c runtime, which
comes with a program of its own, the converter (`asn/converter-sample.c`). This
directory holds TLA+ modules for all of that, the TLC configurations that check
them, and proofs for TLAPS.

## 1. The system

| Component | State | Operations | Talks to |
|---|---|---|---|
| `main` (`protoVSCP.cpp`) | where it is in the loop; the message in hand | connect, send ASP Up, `select`, read the terminal, one `case` per message type, the DATA pipeline, the end | everything below, by calls |
| `SctpConnection` | the socket | `connectTo`, `sendMsg`, `waitForMsg` | the kernel's SCTP; the gateway by two streams each way |
| `M3UAmessage` | the message, its type, the fields of Protocol Data (`m_opc` .. `m_sls`, `payload`) | classify, `decodePayload`, `encodeMsg`, `aspUP`, `aspACTIVE` | `main`, `SctpConnection` |
| `SccpMessage` | validity, addresses, user data | classify, `decodeSccp`, `encodeSccp` | `main` |
| `TcapMessage` | transaction, operation code, invoke identifier, parameter | decode a Begin, `end` | asn1c runtime |
| `InapMessage` | called number | `decodeInitialDP` through the file `data.txt`, `parseNum`, `encodeConnect` | asn1c runtime, file system |
| `Database` | the handle | `open`, `find`, `close` | sqlite, `numsi.db` |
| asn1c runtime (`asn/`) | in each structure, how far its decoding has come; in the static descriptors, which check each list uses | BER decode with all octets there are, or go on with more; free; check constraints; DER encode | `TcapMessage`, `InapMessage`, the converter |
| type descriptors (`asn/`, generated) | none but those checks | | the runtime |
| converter (`asn/converter-sample.c`) | the file and how much of it was read, `DynamicBuffer`, the structure being decoded | read a piece, decode, check (`-c`), write, next message, next file | the runtime, files |
| gateway, SCTP, terminal (external) | registration state, messages under way, association, a line or end of file | answer ASP Up and ASP Active, ask, read answers, notify, hang up, type | `main` |

Each program has one thread. What is hard about them:

* **order**: registration is a dialogue spread over the message loop, while
  notifications, unknown messages and (on the other stream) queries arrive in
  between; the association may go at any point of it;
* **failure**: no result of a send is looked at, nothing is repeated, no timer
  exists, the database and `data.txt` may fail, and an uncaught exception or an
  unchecked read ends everything;
* **starvation**: the terminal is looked at first and alone, so that end of file
  on it starves the association;
* **restarts**: the decoder may be stopped at any octet and resumed with more,
  at any depth of nested definite and indefinite lengths; the converter keeps
  the octets not yet used in a buffer that moves and grows; and whatever fails
  half way must be freed once;
* **boundaries**: each codec reads octets and lengths unchecked, sometimes past
  the end of its buffer, and two loops (the scan for a tag, the exchange of
  digits) do much more than their comments say.

`PROJECT.json` lists each place ("hazards") with the properties that would
catch it going wrong, and the ones nothing catches yet with the reason.

## 2. The modules

| Module | Models | State and actions |
|---|---|---|
| `Vscp` | `main` and `SctpConnection`, with gateway, SCTP and terminal around them | `pc` is the place in `main`, `cur` the message of the present turn; one action per branch of the loop (`ReadStdin`, `Receive`, `EndOfAssociation`, `Ignore`, `OnAspUpAck`, `OnData`) and for `connectTo` and `aspUP`; one action per thing the outside may do |
| `NumberService` | what the program promises: each query answered once, in turn, with its own answer | abstract queues of queries and answers |
| `Scp` | the whole program: `Vscp` with the real codecs as its constants | instantiates `Vscp` with the octets of every message and with the outcomes `DataPipeline` computes |
| `Octets` | `ByteStream` and the C operations on it, unchecked reads included | operators |
| `M3UAmessage`, `SccpMessage`, `TcapMessage`, `InapMessage`, `Database` | the class of that name, every codec as a function of the octets; the asn1c runtime below TCAP and INAP is five constants (`DecodeTCMessage`, `ReleasedTCMessage`, `EncodeTCMessage`, `DecodeInitialDPArg`, `EncodeConnectArg`) | operators |
| `AsnCodec` | the value every run gives those five constants: `BerDecoder` and `DerEncoder` with the descriptors of the messages | operators |
| `BerTlv` | tags and lengths, read and written (`ber_tlv_tag.c`, `ber_tlv_length.c`) | operators |
| `AsnTypes`, `TcapTypes`, `InapTypes` | the type descriptors: what a descriptor says, and every one of `TCMessage` and of the INAP types | one definition per type |
| `BerDecoder` | the restartable decoder: `ber_check_tags`, SEQUENCE, SEQUENCE OF, CHOICE, OCTET STRING and ANY with constructed encodings, INTEGER, OBJECT IDENTIFIER, NULL, and `ASN_STRUCT_FREE` | `Decode(type, node, m, mode)`, a call; the structure `node` is its state |
| `DerEncoder` | `der_encode`, `asn_check_constraints` | operators |
| `Converter` | `converter-sample.c`: `main`, `data_decode_from_file`, `add_bytes_to_buffer` | the file, `buffer`, `structure`, `blocks`, `pc`; `Open`, `Prepare`, `Turn` (one turn of the read loop), `CleanUp`, `Use`, `Refuse`; the decoder and the encoder are constants |
| `PduStream` | what the converter promises: the messages of each file decoded one after another in one piece and written, an error at what is no message | `Emit`, `Fail`, `EndOfFile` |
| `Resumption` | what the converter relies on in the decoder it resumes: the hypotheses of the proofs about it | `DecoderKeepsToInput`, `MemoryAccounted`, `PiecesAgree`, `ChecksHold` |
| `DigitLine` | the statements of `parseNum` on a line of digits | operators |
| `PayloadScan` | the loop of `decodePayload`, turn by turn | `i`, the members so far; `Skip`, `Take` |
| `NumberScan` | `parseNum`, statement by statement and turn by turn | `line`, `i`, `fault`; `NoLine`, `Cut`, `Turn`, `CutLast` |
| `DataPipeline` | `case TM_DATA` of `main`: all codecs and the database in order, every early exit | `HandleData`, and `Outcomes` over heap contents and faults |
| `Sgp`, `Ber` | the gateway's side: how it encodes a query and what it reads in an answer. External: not in this repository, written from RFC 4666, Q.713, Q.763, Q.773, X.690 and the grammars in `asn/`, not from the runtime | operators |
| `Exchange` | which queries the program is written for (`Plain`), the answer to each (`Expected`), and what the program relies on in the asn1c runtime for them (`RuntimeServes`); which others reach its TCAP layer (`Delivered`), ask for a number (`AsksNumber`), have an operation code the program can tell from others (`CodeHeld`), or are given up (`GivenUp`), and what it relies on for those (`RuntimeReads`) | operators |
| `Transaction` | one query through the pipeline, and the gateway's reading of the answer | `query`, `fault`, `wire`, `kept`, `view`; `Handle`, `Read` |
| `Vscp_proof`, `PayloadScan_proof`, `NumberScan_proof`, `Converter_proof`, `Transaction_proof`, `Scp_proof` | the proofs about the module of that name | |
| `Layers_proof`, `Exchange_proof` | the lemmas about the codecs and about the tags and lengths of the runtime, and about a query on its way through them | |
| `MC...` | the instances for TLC | |

Messages in `Vscp` are names: which message is which and what may come of a
query are the constants `M3UAMsgType` and `Outcomes`. In `Scp` they are octets,
and the same `Vscp` runs over them. A definition named *Mutant of X* in a
module is a plausible slip in X; replacing X by it breaks a property.

Choices that need a word:

* **Reads past the end** yield one octet the environment chooses, the same for
  the whole overrun (`At`). Two overruns of one query thus see the same octet.
* **`sendMsg`** succeeds, fails (if `SendMayFail`), or, once the association is
  gone, fails or raises SIGPIPE, which ends the program.
* **The end of the association** is in order (`shut`: everything received is
  still delivered) or not (`lost`: what was under way may be lost).
* **Streams** are separate queues: nothing orders stream 0 against stream 1,
  neither here nor in SCTP.
* **The database** is the function `Nums` and a fault: `prepare` (the statement
  is refused), `step` (it fails while running).
* **`data.txt`** fails in three ways (`AllFaults`): it cannot be opened for
  writing (`fopen`), nothing is written (`write`), or it does not open again
  (`reopen`). A query meets one fault at most, of the file or the database. The
  text is shorter than a buffer of stdio and so written by one call, in
  `fclose`: it is taken to be there as a whole or not at all, and a line cut in
  the middle is left out. So is a `remove` that fails, whose result only the
  log shows: the file is emptied before it is written again.
* **Memory** is a count of blocks: `blocks` in `Converter`, `kept` in
  `Transaction`. A decoding call says by how many it grew, `Released` how many
  `ASN_STRUCT_FREE` gives back; the two are written from different functions of
  the runtime and compared by properties. What an allocation that fails does is
  left out: the runtime's paths for it are not modelled.
* **The send buffer** is 1024 octets on the stack (`SendBuffer`); a longer
  answer is taken to end the program, the least harm it does.
* **A structure** is the record of what the C structure and its context hold:
  the phase, the octets left, the member, the stack of a constructed string.
  Decoding is resumed with exactly that and the octets not used.
* **The checks of lists** in the static descriptors are the variable `checks`:
  decoding or checking one list decides what the next check looks at
  (section 5).
* **Recursion** over types and octets is written with `RECURSIVE` operators in
  `AsnTypes`, `BerDecoder` and `DerEncoder`, which nothing is proved about.
  `Converter` and the pipeline have the runtime as constants, so that they can
  be proved about for any runtime; what a proof assumes of it is a definition
  (`Resumption`, `RuntimeServes`, `RuntimeReads`) that a run evaluates for the real one.
  Everywhere else recursion is a recursive function.

## 3. The runs

| Run | Question | Instance and why it is enough |
|---|---|---|
| `vscp_safety` | Do types hold, does the registration run through once, and is `NumberService` still implemented, with failing sends? (`TypeOK`, `HandshakeOnce`, `ServiceRefined`) | one message of each type, four queries, one of each way the pipeline can end; up to two unread management messages, so that an acknowledgement can stand behind or before another message |
| `vscp_live` | Is the registration kept going, is `NumberService` implemented, is the program registered, every answerable query answered, and does it stop when the association goes? (`HandshakeNotLost`, `ServiceRefined`, `Registers`, `AlwaysAnswered`, `Stops`) | as above, sends work, one unread management message |
| `payload_scan` | Does `decodePayload` find the right fields, and is the operator `DecodePayload` that loop? (`DecodeCorrect`, `ScanAgrees`, `LabelInStep`) | every user data of up to four octets over 0, 2 and 16 (the octets of the tag), behind and before other parameters, with a tag in the routing context, and three heaps |
| `number_scan` | Does `parseNum` decode numbers, which end the program, and what comes of a `data.txt` that is not written or not opened again? (`PairsInOrder`, `OddNumbersRight`, `AbortsOnLength`, `ParseAgrees`) | all numbers of up to five octets over three octets, and one number of each parity of every size up to 22, past the 16 octets of a printed line |
| `transaction` | Is a query answered with its own answer through all codecs, is it answered at all, is nothing else answered, and is a message that is given up freed? Does the runtime read and write those messages as the standard says, and read in any other what stands in it? (`AnswerCorrect`, `PlainAnswered`, `RuntimeKeepsStandard`, `RuntimeReadsRight`, `OnlyNumbersAnswered`, `GivenUpFreed`) | one plain query and all ways of changing any two of ten fields (lengths, signs, missing parts, other operations, a local code of five octets whose low four are those of InitialDP, a global code, strings in either form, an EXTERNAL, 02 10 in a wrong place), numbers in the table up to and past the longest that an answer can carry and past the send buffer, each fault, three heaps |
| `scp_service` | Does the composed program implement `NumberService`, octets and all, and does the right answer arrive? (`NumberServiceProvided`, `RightAnswerArrives`) | four queries: known number, unknown number, another operation, and a number that ends the program; the statement may be refused. `MCScp` also evaluates the hypothesis of `ProgramServes` for them (`SuitedAssumption`) |
| `converter` | Does the converter write what decoding each file in one piece would, however the octets come in (`InPieces`, a refinement of `PduStream`)? Is no octet lost, displaced or written past the buffer (`UnreadKept`, `BufferFits`)? Would freeing the structure at any moment give back all memory (`NothingLeaked`)? Does the decoder keep the hypotheses of the proofs (`DecoderResumes`)? Does what is written read back (`OutputReadsBack`)? Does it end (`Terminates`)? And `TypeOK` | sixteen messages of three types, with definite and indefinite lengths, optional and unknown members, lists, constructed strings and constraints that fail; alone and in pairs in pieces of 1, 3, 8 and 64 octets, with and without `-c`; triples of those with a list; two messages cut at every octet or with any octet replaced by 0, 128 or 255, alone and behind others, in pieces of 2, 6 and 64; two files, missing and failing ones |
| `point_code`, `even_number`, `transaction_id`, `no_components`, `truncated` | one statement of a comment or grammar each, which the code does not keep | see section 5 |

The bounds are `Limit` (unread management messages) and the finite sets of
messages. The peer asks each query at most once, so each queue is bounded by
the number of queries; the registration happens once (`HandshakeOnce`).
`scp_service` takes its queries from those answered rightly or not at all:
the wrong answers of section 5 are studied in `transaction` instead.
Pieces of one octet stop the decoder at every place there is; those of 3 to 8
make the buffer move (the offset is large enough) and grow (it is not).
Deadlock is not checked where the program or the loop may really stop; the
converter stutters when it has ended (`Done`), so that there it is checked.

**Fairness** (`Vscp!Fairness`). The process is scheduled (weak fairness of the
program's steps). SCTP delivers, on each stream, a message that is there again
and again (strong fairness of `Receive(s)`, since the other stream or the
terminal may come first). The gateway reads and answers the two ASP messages,
and reads answers. Nothing makes it ask, hang up, notify or anybody type. The
liveness properties assume `Quiet`, that the terminal is left alone from some
time on: the code looks at it first, so without that they are false, and at
end of file they are false for good. The converter needs nothing but to be
scheduled: `Progress` is the weak fairness of `Next`, which is enabled until
the program has ended. `Terminates` excepts files whose reading fails, for
which `feof` is never true and the loop never ends.

## 4. The proofs

Each theorem holds for every value of the constants, under the assumptions
named in the modules, which TLC evaluates on the instances.

* `Vscp_proof!TypeCorrect`: `Spec => []TypeOK`, for any messages and outcomes,
  with or without failing sends. `TypeOK` is inductive as it stands because it
  says that a message is in hand exactly while one is handled and that streams
  are kept apart: without the first, `OnData` would have nothing to handle,
  without the second the peer could read a reply as ASP Up.
* `Vscp_proof!RegisteredOnce`: `Spec => []HandshakeOnce`. The inductive
  invariant `OneStage` lists the six stages (to connect, ASP Up under way,
  acknowledgement under way, in hand, ASP Active under way, active) and excludes
  each pair, with at most one acknowledgement in the queue and at most one
  message on stream 0. Every step keeps the stage, moves it on, or loses it.
  The lemmas `AckTaken` and `AckPut` say what taking and appending does to the
  acknowledgements of a queue. It needs `AspUp # AspActive` and nothing else.
* `Vscp_proof!RegistrationNotLost`: `Spec => []HandshakeNotLost`. The
  strengthening is `OneStage` again: a message sent on stream 0 is the first
  there, so that the stage that is left is the next one. `AckNotDropped` and
  `AckArrives` are about the queue the acknowledgement waits in.
* `Vscp_proof!ServiceProvided`: `Spec => ServiceRefined`, the refinement of
  `NumberService`, for any messages, any outcomes and failing sends too. The
  mapping is that of `Vscp!Service`: what is pending is the query in hand and
  behind it those received on stream 1. One lemma per step of the service
  (`Opens`, `Asks`, `Serves`, `Reads`, `Closes`); every other step of the
  session leaves the mapped state alone (`Stutter`). It needs `TypeOK` (only
  queries are on stream 1, none is on stream 0, nothing is in hand while
  `select` waits) and `Untouched` (nothing happens before `connectTo`).
* `PayloadScan_proof!PayloadDecoded`: `Spec => []DecodeCorrect`, for all
  messages. The inductive invariant `FieldsTaken` says that the loop has either
  not come to the parameter and has nothing, or is 17 octets past it and has
  exactly the fields; the step that takes them rests on `CopyInside` (a copying
  loop that stays inside is a `SubSeq`) and on the high octet of the length
  being zero.
* `PayloadScan_proof!LabelsInStep`: `Spec => []LabelInStep`, for all messages,
  overruns and repeated tags included.
* `PayloadScan_proof!PayloadScanned`: `Spec => []ScanAgrees`: the loop ends with
  what the operator `DecodePayload` says. The invariant is that of a fold: what
  the loop has, and behind it what the function `ScanFrom` still yields from
  `i` on, is the result (`ScanInvariant`).
* `NumberScan_proof!NumberPairsInOrder`, `NumberOddRight`,
  `NumberAbortsOnLength`: the loop of `parseNum` for numbers of any octets and
  any size. The strengthening `InLoop` adds to `PairsInOrder` what it needs to
  be inductive: the size (2 to 16 octets, what `substr` and the printing let
  through), that the line is an even count of digits, and that the turn stays
  within it. `SwapStepPairs` is the step: an odd turn exchanges the first pair
  only, an even one also its own, so the first pair is right after even counts
  of turns, and the count of turns is the count of digits, which is even
  (`Pairs`). `CutDigits` and `AllExchanged` are the statements before and after.
* `NumberScan_proof!NumberParsed`: `Spec => []ParseAgrees`: `parseNum` statement
  by statement ends with what the operator `ParseNum` says. The invariant
  (`SwapsInvariant`) is that the line is the value of the function `Swaps` at
  the turn.
* `Converter_proof!ConverterBufferFits`, `ConverterUnreadKept`,
  `ConverterNothingLeaked`, `ConverterTypeOK`: the converter for any files, any
  size of the pieces and **any decoder**. What is assumed of the decoder is
  stated in the theorems: `DecoderKeepsToInput` (there is a set of structures,
  with the empty one in it, on which it uses no more octets than it was given
  and which it does not leave) and `MemoryAccounted` (on these a call allocates
  as many blocks as freeing then gives back besides). The real decoder is
  recursive and not proved to have these two properties: that it has them on a
  sample of messages, cut at every octet, is the invariant `DecoderResumes` of
  the run `converter`. The inductive invariant `IInv` says where the decoders have come to in the
  file: `buffer.data` is the part of it between `taken` and `read`. The lemmas
  `AddBytesFits`, `ConsumedFits` and `AdjustedFits` follow the buffer through
  `add_bytes_to_buffer` and the moving of the offset, `Part`, `PartOfPart` and
  `PartsMeet` are about parts of a sequence.
* `Converter_proof!ConverterInPieces`: `Spec => InPieces`, the refinement of
  `PduStream`, for any decoder that besides ends in pieces as it does in one
  (`PiecesAgree`) and any checks that keep between `MustPass` and `MayPass`
  (`ChecksHold`). `IInv` says where the converter is in the file, with a
  structure the decoder can be resumed with for exactly the octets taken since
  the last message; `PInv` adds what it knows of the message that starts there:
  before it gives up there is none, before a structure is used it is that
  message. A turn is then a stutter; `Use` and `Refuse` are a message written, a
  failure or the end of the file, and `PiecesAgree` tells the three apart.
* `Transaction_proof!AnswerIsCorrect`, `PlainIsAnswered`:
  `Spec /\ []RuntimeKeepsStandard => []AnswerCorrect` and the same for
  `PlainAnswered`, for any queries, any table of numbers and any octets behind
  the buffers. The hypothesis is on the asn1c runtime alone: it reads in the
  query what the standard puts there and writes the End and the ConnectArg the
  standard asks for. It is itself an invariant of the run `transaction`, for the
  real runtime. `PlainAnswered` names the reasons it excuses: `data.txt` at each of
  its three uses, the statement failing while it runs, and what stands in the
  table. The program's own part is proved: the scan finds the parameter
  (`DataTaken`), the SCCP decoder the addresses and the user data (`SccpTaken`),
  `QueryTcap` and `QueryInap` go on from there, `QueryComesTo` says in one of
  five ways what `main` makes of it all (`ComesTo`); on the way back
  `MessagePut` is what `encodeMsg` and `encodeSccp` write, and `UdtRead`,
  `EndRead` and `AnswerRead` what the gateway reads in it. `AnswerCorrect` says
  nothing of an answer not yet read, so it is not inductive; the invariant is
  `TransactionInv`, proved as `TransactionInvariant`: what is under way is the
  query, and then one of the outcomes of `ComesTo`.
* `Transaction_proof!NumbersAnswered`, `GivenUpIsFreed`:
  `Spec /\ []RuntimeReadsRight => [](Delivered(query) => OnlyNumbersAnswered)`
  and the same for `GivenUpFreed`. These are about all other queries: the
  program must not answer what holds no number, nor an operation other than
  InitialDP where it can tell the code (`CodeHeld`; for the others see section 5),
  nor keep memory of what it gives up. `Delivered` is needed because a query with 02 10 in a second
  place does not reach the TCAP layer as it was sent (section 5), and the
  operation code and dialogue portion of a query that is not plain are octets
  chosen freely, which must be one element each for there to be anything the
  runtime could read in them. `RuntimeReadsRight` says that what it reads is
  there: the component count, operation code and parameter, the number, no
  EXTERNAL for an OCTET STRING, and no block left when the message is freed. It
  says nothing of what the program makes of that, and is an invariant of the run
  `transaction`, for the real runtime. The invariant is `DeliveredInv`, proved as
  `DeliveredInvariant`. `QueryReachesTcap` and `QueryKept` follow the octets to the
  TCAP layer, `SentWhenAsked` goes back from an answer through every early
  return (`NothingKept` through those that free), and `CutRefuses` and
  `ParseNumRefuses` say that a number without 3 to 16 octets ends the program
  before it is answered.
* `Scp_proof!ProgramIsService`: `Spec => NumberServiceProvided` for the whole
  program, for any queries with `Served(q)`: a plain one for which the runtime
  does its part and whose number an answer can carry, or one that is never
  answered. (Any other query is one of those of section 5, and would be answered
  wrongly.) The module instantiates `Vscp_proof` with the outcomes of the
  pipeline and so uses its lemmas about every step of the session; what they
  assume is proved here of the octets (`SessionQueries`: exactly the queries are
  classified as DATA; `SessionMessages`, `SessionOutcomes`). `SentIsRight` and
  `CertainSent`, from the same lemmas as the theorems about `Transaction`, say
  that what is sent is read as a right answer, and `ServiceStep` puts the two
  together. "Never answered" is a hypothesis on the program there;
  `ProgramServes` replaces it by one on the query and the runtime (`Suited`:
  plain, or delivered, not asking for a number, and holding none if the operation
  code is not one the program can tell), with the lemma
  `SuitedIsServed`.
* `Layers_proof!TagsAndLengthsInPieces`, `HeaderReadBack`: tags and lengths, for
  any octets. As soon as `ber_fetch_tag` or `ber_fetch_length` answers, it
  answers the same whatever comes behind, and takes no octet that is not there:
  the part of `DecoderResumes` that can be proved. What `der_write_TL` writes of
  a tag (of a number below 128, as all in the grammars are) and a length below
  16 MB they read back, and no octet more. `LongTagInPieces` and
  `LongLengthInPieces` are the loops over the octets of a long form,
  `LengthForms` the one to four octets a length is written as, `LengthBehind`
  their reading.

Facts about a recursive function for all inputs are proved without the library's
induction theorems, from `LeastOf` in `Layers_proof` (a set of numbers that is
not empty has a least one): if the claim failed, it would fail at a least
number, and there it follows from the number before it.

Model-checked only:

* liveness (`Registers`, `AlwaysAnswered`, `Stops`, `RightAnswerArrives`,
  `Terminates`), which the prover has no rules for;
* what the runtime computes, whose definitions are `RECURSIVE`:
  `RuntimeKeepsStandard`, `RuntimeReadsRight` and `DecoderResumes` (the
  hypotheses above) and `OutputReadsBack`;
* `OnlyNumbersAnswered` and `GivenUpFreed` for queries that are not `Delivered`:
  what reaches the TCAP layer of those is not what the gateway sent.

## 5. Where code and text disagree

Found while modelling; each run of section 3's last row ends in a
counterexample.

| Run | What the text says | What the code does |
|---|---|---|
| `point_code` | a point code has 32 bits (comment in `decodePayload`) | every 02 10 in the message counts as the tag, and each adds 32 bits more |
| `even_number` | numbers are encoded by ETS 300 356 (`INAP_DEF.asn`) | `if((isOdd = true))` cuts the last digit off even numbers too |
| `transaction_id` | 1 to 4 octets (`tcap.asn`) | four octets are read and four are answered, always |
| `no_components` | the component portion may be absent (`tcap.asn`) | it is dereferenced |
| `truncated` | failure is returned "only if not EOF" (comment in `data_decode_from_file`) | `bytes_shifted` is assigned where it should be added to, so a message that is cut off, used up to the last octet there is, can look like the end of the file |

More that have no run of their own:

* Only the low octet of the length of Protocol Data is read
  (`M3UAmessage.cpp:466`): a parameter of 256 octets or more loses user data, and
  one whose low octet is below 16 has none. `DecodeCorrect` is about lengths from
  16 to 255 for that reason, and so is `Plain`.
* A message shorter than its lengths say is read past its end
  (`M3UAmessage.cpp:495`), and one without user data ends the program there
  (`SccpMessage.cpp:37`). Both are in the model; no document says what should
  come of them, and no property is about them.
* The operation code stays at its default 0, which is InitialDP, when it is a
  global one (`TcapMessage.cpp:168`): what comes with it is read as the argument
  of InitialDP and answered, where `tcap.asn:120` has it of the type in the
  definition of the operation. A local code of more than four octets is cut to an
  int (`TcapMessage.cpp:164`): one whose low octets are 0 is answered too.
  `OnlyNumbersAnswered` asks for InitialDP only where the program can tell the
  code (`CodeHeld`), and of the others just that they hold a number; one of each is among the queries of `transaction`.
* The invoke identifier 127 is answered with 128 (`protoVSCP.cpp:144`), which
  the grammar does not allow (`tcap.asn:152`); `Expected` has it so.
* Where decoding fails with nothing used and no buffer allocated (the message
  before ended with a piece), the rest of the piece is not put into the buffer
  (`converter-sample.c:677`), the failure looks like the end of the file, and all
  that is left is dropped without an error. `EndOfFile` of `PduStream` allows
  that, and `OnlyEofIsSilent` is about the other way a call ends in silence, a
  message that is cut off.
* A number of 17 to 20 octets, which `INAP_DEF.asn` allows, ends the program
  (`AbortsOnLength` says so).
* A Begin with a dialogue portion in an EXTERNAL is passed over (`Plain`
  excludes it; the grammar used was adapted to another encoding,
  `asn/tcap.asn:71`).
* At end of file the terminal is readable for ever and is served first
  (`protoVSCP.cpp:70`), so that no query is answered any more; a file whose
  reading fails is never at its end for the converter
  (`converter-sample.c:602`), which then spins. The liveness properties except
  both (section 3).
* With `-c` the converter accepts values out of the range of their type:
  decoding a value puts the check of the basic type into its type's descriptor
  (`X_inherit_TYPE_descriptor`), and only ranges a SEQUENCE gives to a member
  itself are left. A list that is checked before an element was decoded keeps
  the generated check (`constr_SET_OF.c:860`), so that the verdict on a
  ConnectArg depends on the messages before it. `PduStream` says what holds all
  the same: a message that keeps every constraint passes, and one that breaks
  a check that is always left does not.

## 6. What is not modelled

* Messages of more than 1024 octets in `waitForMsg`, which would be classified
  in two pieces: no message the gateway has to send is near that size.
* Descriptors: `select(5, ...)` looks at 0 to 4 only, the socket is taken to be
  one of them. `select` interrupted by a signal.
* The dialogue PDUs of TCAP (`DialoguePDU`, AARQ, AARE, ABRT, RLRQ, RLRE and
  what they are made of): they need `EXTERNAL.c`, which the repository does not
  have, and nothing refers to them.
* XER and PER, on both sides of the converter, and printing; the converter's
  `-n`, `-s` and `JUNKTEST`; the limit on the depth of the stack, which the
  grammars' types do not reach; BIT STRING, BOOLEAN, ENUMERATED and SET, which
  no type that can be decoded has.
* Allocations that fail.
* Logging and build output.

## 7. Plan

Done so far: all modules of section 2, the runs of section 3, the proofs of
section 4. What would come next, in this order:

1. *Receive buffer.* `waitForMsg` with messages read in two pieces: another
   action of `Vscp`, and a property that a piece is never answered as a query.
2. *The runtime.* The decoder of one type at a time without `RECURSIVE`
   (INTEGER, OCTET STRING in primitive form), so that the first cases of
   `RuntimeReads` can be proved from `HeaderReadBack`.
