----------------------------- MODULE PduStream -----------------------------
(***************************************************************************)
(* What the converter of the asn1c runtime promises                        *)
(* (asn/converter-sample.c, main): the messages in each file are decoded   *)
(* one after another, each from where the one before ended, and written    *)
(* out; how the octets come in is no part of it.                           *)
(***************************************************************************)
EXTENDS Integers, Sequences

CONSTANTS
  Jobs,                \* the calls of the program: options and files
  DecodeAll(_, _),     \* a type and octets: the code, the octets used, the structure
  MayPass(_, _),       \* -c: a type and a structure, may it pass
  MustPass(_, _),      \* and must it pass
  EncodeStructure(_, _)  \* a type and a structure: what is written

VARIABLES job,         \* the call
          which,       \* the file being converted
          start,       \* where the next message starts in it
          printed,     \* what was written so far
          status       \* "running", or the way the program ended

vars == <<job, which, start, printed, status>>

File    == job.files[which]
Unread  == SubSeq(File.contents, start + 1, Len(File.contents))
Message == DecodeAll(job.type, Unread)

AtStart == which = 1 /\ start = 0 /\ printed = <<>> /\ status = "running"
Init    == job \in Jobs /\ AtStart

NextFile ==
  IF which = Len(job.files)
  THEN status' = "ok" /\ UNCHANGED <<which, start>>
  ELSE which' = which + 1 /\ start' = 0 /\ UNCHANGED status

Complete == File.kind # "missing" /\ Message.code = "OK"

Written == EncodeStructure(job.type, Message.node)

(* A message is written; after the only one wanted the file is done with.  *)
Emit ==
  /\ status = "running" /\ UNCHANGED job
  /\ job.onepdu \/ start' > start
  /\ Complete /\ Written.ok
  /\ job.check => MayPass(job.type, Message.node)
  /\ printed' = Append(printed, Written.octets)
  /\ IF job.onepdu THEN NextFile
     ELSE start' = start + Message.used /\ UNCHANGED <<which, status>>

(* The program ends with an error at what is no message, or may not pass,  *)
(* or if a first message is wanted and the file is empty.                  *)
Fail ==
  /\ status = "running" /\ status' = "error"
  /\ ~(Complete /\ Written.ok /\ (job.check => MustPass(job.type, Message.node)))
  /\ File.kind = "missing" \/ Unread # <<>> \/ start = 0
  /\ UNCHANGED <<job, which, start, printed>>

(* Behind a message the file may be done with.                             *)
EndOfFile ==
  /\ status = "running" /\ start > 0
  /\ NextFile /\ ~Complete
  /\ UNCHANGED <<job, printed>>

Next == Emit \/ Fail \/ EndOfFile

Spec == Init /\ [][Next]_vars
=============================================================================
