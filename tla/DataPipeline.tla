---------------------------- MODULE DataPipeline ----------------------------
(***************************************************************************)
(* What main does with one DATA message (protoVSCP.cpp, case TM_DATA):     *)
(* decode layer by layer, look the number up, encode the answer back.      *)
(***************************************************************************)
EXTENDS M3UAmessage, SccpMessage, InapMessage, Database

CONSTANTS HeapBytes,   \* what an octet read past the end of a buffer may be
          Faults       \* what may go wrong outside: some of AllFaults

(* One of: data.txt cannot be opened, written or opened again; sqlite      *)
(* refuses the statement, or fails while it runs.                          *)
AllFaults == {"fopen", "prepare", "step"} \cup LineFaults

ASSUME HeapAssumption == HeapBytes # {} /\ HeapBytes \subseteq Byte
ASSUME FaultAssumption == Faults \subseteq AllFaults

NoReply    == [kind |-> "none",  msg |-> <<>>]
Crash      == [kind |-> "crash", msg |-> <<>>]
Send(m)    == [kind |-> "send",  msg |-> m]

(* sendMsg copies the message into buf without looking at its size: a      *)
(* longer one is written over the stack, and the program is taken to end.  *)
SendBuffer == 1024

SendReply(m) == IF Len(m) <= SendBuffer THEN Send(m) ELSE Crash

Answer(data, called, calling, outTcap) ==
  IF SccpEncodable(called, calling)
  THEN SendReply(EncodeMsg(EncodeSccp(outTcap, called, calling), data))
  ELSE Crash

(* Mutants of Reply: the addresses keep their places; the invoke           *)
(* identifier is sent back as it came.                                     *)
SameDirection(data, sccp, tcap, newNum) ==
  Answer(data, sccp.called, sccp.calling,
         End(tcap.invokeId + 1, tcap.transactionId, EncodeConnect(newNum)))

SameInvokeId(data, sccp, tcap, newNum) ==
  Answer(data, sccp.calling, sccp.called,
         End(tcap.invokeId, tcap.transactionId, EncodeConnect(newNum)))

(* The invoke identifier of the answer is that of the question plus one;   *)
(* the two addresses change places, the point codes do not.                *)
Reply(data, sccp, tcap, newNum) ==
  Answer(data, sccp.calling, sccp.called,
         End(tcap.invokeId + 1, tcap.transactionId, EncodeConnect(newNum)))

(* The layers in turn, each with the exits that main has behind it.        *)
WithNewNum(data, sccp, tcap, newNum) ==
  IF newNum = Null THEN Crash
  ELSE IF newNum = <<>> THEN NoReply
  ELSE Reply(data, sccp, tcap, newNum)

WithInap(data, sccp, tcap, inap, fault) ==
  IF inap.crash THEN Crash
  ELSE IF inap.number = <<>> THEN NoReply
  ELSE WithNewNum(data, sccp, tcap,
                  Find(inap.number, IF fault \in {"prepare", "step"} THEN fault ELSE "ok"))

WithTcap(data, sccp, tcap, fault) ==
  IF tcap.crash THEN Crash
  ELSE WithInap(data, sccp, tcap,
                InapMessage(tcap.localCode, tcap.parameter, fault), fault)

WithSccp(data, sccp, heap, fault) == WithTcap(data, sccp, TcapMessage(sccp.data, heap), fault)

WithM3ua(data, heap, fault) ==
  IF ~SccpReadable(data.payload) THEN Crash
  ELSE IF ~SccpValid(data.payload) THEN NoReply
  ELSE WithSccp(data, DecodeSccp(data.payload, heap), heap, fault)

HandleData(m, heap, fault) == WithM3ua(DecodePayload(m, heap), heap, fault)

(* The blocks of memory of the TCAP message that are never freed.          *)
KeptOf(data, heap) ==
  IF SccpReadable(data.payload) /\ SccpValid(data.payload)
  THEN TcapMessage(DecodeSccp(data.payload, heap).data, heap).kept ELSE 0

MemoryKept(m, heap) == KeptOf(DecodePayload(m, heap), heap)

(* Everything that may come of one DATA message.                           *)
Outcomes(m) == {HandleData(m, heap, fault) : heap \in HeapBytes, fault \in Faults \cup {"none"}}
=============================================================================
