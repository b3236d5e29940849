---------------------------- MODULE ProxyProofs ----------------------------
(***************************************************************************)
(* Proofs about Proxy, for every number of recorded upstream messages.     *)
(*                                                                         *)
(* The inductive invariant says, for each place the handler can be in,     *)
(* what has been written to the client there and what the recorder, the    *)
(* wire and the pump's counter hold.  The properties of Proxy follow from  *)
(* it state by state, and so does the refinement of ResponseContract.      *)
(***************************************************************************)
EXTENDS Proxy, TLAPS

\* Nothing has been written.
Untouched == out = <<>> /\ ~sr.committed

\* Exactly the first `emitted' messages have been written.
Streamed == /\ Len(out) = emitted
            /\ \A i \in 1..emitted : out[i] = Message(i)

\* ... and the fault frame after them, at least one message preceding it.
BrokenOff == /\ emitted > 0
             /\ Len(out) = emitted + 1
             /\ \A i \in 1..emitted : out[i] = Message(i)
             /\ out[emitted + 1] = FaultFrame(Dialect(req.path), emitted)

\* One self-contained body has been written, under the recorded status.
AnsweredOnce == \E b \in Bodies : out = << <<b, sr.status>> >>

Before  == pc \in {"route", "readBody", "dial", "writeBody"}
Pumping == pc \in {"pump", "relay", "faultFrame"}

BeforeInv == Before => /\ Untouched
                       /\ emitted = 0 /\ read = 0 /\ pumpErr = "nil"

PumpInv == Pumping => /\ pumpErr = "nil"
                      /\ header = "sse"
                      /\ Streamed
                      /\ sr.committed <=> emitted > 0
                      /\ pc # "relay" => read = emitted
                      /\ pc = "relay" => read \in {emitted, emitted + 1}
                      /\ read <= Len(sent)
                      /\ pc = "faultFrame" => emitted > 0

\* How a pump leaves the response.
PumpResult ==
    \/ /\ pumpErr = "nil"
       /\ Streamed
       /\ sr.committed <=> emitted > 0
    \/ pumpErr = "write" /\ Streamed /\ sr.committed
    \/ pumpErr = "timeout" /\ emitted = 0 /\ Untouched
    \/ pumpErr = "timeout" /\ BrokenOff /\ sr.committed

ReplyInv == pc = "reply" => header = "sse" /\ PumpResult

\* After an answer the pump has relayed nothing.
EndInv == pc \in {"log", "done"} =>
    \/ /\ AnsweredOnce /\ sr.committed /\ emitted = 0
       /\ header # "sse" /\ wire.type # "sse"
       /\ pumpErr = "timeout" => out = << <<"proxyError", 504>> >>
    \/ /\ PumpResult /\ header = "sse"
       /\ pumpErr = "timeout" => emitted > 0

\* The recorder and the wire agree.
WireInv ==
    /\ sr.committed => wire.status = sr.status
    /\ ~sr.committed => sr.status = 200
    /\ ~sr.committed /\ pc # "done" => wire.status = 0
    /\ sr.committed /\ header = "sse" => sr.status = 200 /\ wire.type = "sse"
    /\ pc = "done" => logged = sr.status /\ wire.status = sr.status

ConnInv == /\ pc \in {"route", "readBody", "dial"} => conn = "none"
           /\ pc \in {"log", "done"} => conn # "open"

PhaseInv == BeforeInv /\ PumpInv /\ ReplyInv /\ EndInv /\ WireInv /\ ConnInv

IInv == TypeOK /\ PhaseInv

----------------------------------------------------------------------------
(* The inductive invariant.                                                *)

LEMMA BodyIsChunk ==
    ASSUME NEW b \in Bodies, NEW code \in Statuses PROVE <<b, code>> \in Chunks
  BY DEF Chunks, Statuses

LEMMA MessageIsChunk == ASSUME NEW n \in Nat PROVE Message(n) \in Chunks
  BY DEF Chunks, Message

LEMMA FaultIsChunk ==
    ASSUME req \in Requests, NEW n \in Nat
    PROVE  FaultFrame(Dialect(req.path), n) \in Chunks
  BY DEF FaultFrame, Dialect, Dialects, Chunks

RespType == /\ sr \in [status : Statuses, committed : BOOLEAN]
            /\ header \in {"none", "json", "text", "sse"}
            /\ wire \in [status : {0} \cup Statuses,
                         type : {"none", "json", "text", "sse"}]
            /\ out \in Seq(Chunks)

\* What the response writer does keeps its variables in their types.
LEMMA WriteBodyType ==
    ASSUME RespType, NEW b \in Bodies, NEW code \in Statuses,
           NEW type \in {"json", "text"}, WriteBody(b, code, type)
    PROVE  RespType'
<1>1. out' \in Seq(Chunks)
  BY BodyIsChunk DEF RespType, WriteBody
<1>2. sr' \in [status : Statuses, committed : BOOLEAN]
  BY DEF RespType, WriteBody
<1>3. wire' \in [status : {0} \cup Statuses, type : {"none", "json", "text", "sse"}]
  BY DEF RespType, WriteBody, OnWire
<1> QED
  BY <1>1, <1>2, <1>3 DEF RespType, WriteBody

LEMMA CommitType ==
    ASSUME RespType, sr' = [sr EXCEPT !.committed = TRUE], wire' = OnWire(200, header)
    PROVE  /\ sr' \in [status : Statuses, committed : BOOLEAN]
           /\ wire' \in [status : {0} \cup Statuses,
                         type : {"none", "json", "text", "sse"}]
<1>1. sr' \in [status : Statuses, committed : BOOLEAN]
  BY DEF RespType
<1>2. OnWire(200, header) \in [status : {0} \cup Statuses,
                               type : {"none", "json", "text", "sse"}]
  BY DEF RespType, OnWire, Statuses
<1> QED
  BY <1>1, <1>2

LEMMA WriteChunkType ==
    ASSUME RespType, NEW chunk \in Chunks, WriteChunk(chunk)
    PROVE  RespType'
<1>1. out' \in Seq(Chunks)
  BY DEF RespType, WriteChunk
<1> QED
  BY <1>1, CommitType DEF RespType, WriteChunk

\* Every step keeps every variable in its type.
LEMMA TypeStep == TypeOK /\ [Next]_vars => TypeOK'
<1> SUFFICES ASSUME TypeOK, [Next]_vars PROVE TypeOK'
  OBVIOUS
<1> USE DEF TypeOK
<1>0. RespType
  BY DEF RespType
<1>a. ASSUME NEW b \in Bodies, NEW code \in Statuses, NEW type \in {"json", "text"},
             Answer(b, code, type)
      PROVE  TypeOK'
  BY <1>0, <1>a, WriteBodyType DEF Answer, env, RespType
<1>1. CASE Route
  BY <1>1, <1>a DEF Route, env, resp, Bodies, Statuses
<1>2. CASE ReadBody \/ ReadBodyFails
  BY <1>2, <1>a DEF ReadBody, ReadBodyFails, env, resp, Bodies, Statuses
<1>3. CASE Dial \/ DialFails
  BY <1>3, <1>a DEF Dial, DialFails, DialStatuses, resp, Bodies, Statuses
<1>4. CASE SendRequest
  BY <1>4 DEF SendRequest, env
<1>5. CASE SendRequestFails
  BY <1>5, <1>0, WriteBodyType
     DEF SendRequestFails, writeProxyError, env, RespType, Bodies, Statuses
<1>6. CASE ReadEnds \/ ReadTimesOut \/ RelayLater
  BY <1>6 DEF ReadEnds, ReadTimesOut, RelayLater, AfterTimeout, PumpReturns, env, resp
<1>14. CASE ReadMessage
  <2>1. more' \in BOOLEAN
    BY <1>14, Zenon DEF ReadMessage
  <2>2. read' \in Nat
    BY <1>14 DEF ReadMessage
  <2> QED
    BY <1>14, <2>1, <2>2 DEF ReadMessage, resp
<1>7. CASE RelayFrame
  BY <1>7, <1>0, WriteChunkType, MessageIsChunk DEF RelayFrame, PumpReturns, env, RespType
<1>8. CASE RelayFails
  BY <1>8, <1>0, CommitType DEF RelayFails, PumpReturns, env
<1>9. CASE writeErrorFrame
  BY <1>9, <1>0, WriteChunkType, FaultIsChunk
     DEF writeErrorFrame, PumpReturns, env, RespType
<1>10. CASE Reply
  <2>1. CASE MayAnswer504
    BY <1>10, <2>1, <1>0, WriteBodyType
       DEF Reply, writeProxyError, env, RespType, Bodies, Statuses
  <2>2. CASE ~MayAnswer504
    BY <1>10, <2>2 DEF Reply, env, resp
  <2> QED
    BY <2>1, <2>2
<1>11. CASE LogRequest
  BY <1>11 DEF LogRequest, OnWire, env, Statuses
<1>12. CASE Environment
  <2>1. CASE ClientStalls \/ ClientResumes \/ ClientLeaves
    BY <2>1 DEF ClientStalls, ClientResumes, ClientLeaves, system
  <2>2. CASE UpstreamSends
    <3>1. sent' \in Seq(Kinds)
      BY <2>2 DEF UpstreamSends
    <3> QED
      BY <2>2, <3>1 DEF UpstreamSends, system
  <2>3. CASE UpstreamEnds
    BY <2>3 DEF UpstreamEnds, system
  <2>4. CASE UpstreamSendsOn
    BY <2>4 DEF UpstreamSendsOn, system
  <2> QED
    BY <1>12, <2>1, <2>2, <2>3, <2>4 DEF Environment
<1>13. CASE UNCHANGED vars
  BY <1>13 DEF vars
<1> QED
  BY <1>1, <1>2, <1>3, <1>4, <1>5, <1>6, <1>7, <1>8, <1>9, <1>10, <1>11, <1>12, <1>13,
     <1>14
     DEF Next, Handler, Pump

LEMMA InitInv == Init => IInv
<1> SUFFICES ASSUME Init PROVE IInv
  OBVIOUS
<1>1. TypeOK
  <2>1. /\ sr \in [status : Statuses, committed : BOOLEAN]
        /\ wire \in [status : {0} \cup Statuses, type : {"none", "json", "text", "sse"}]
        /\ logged \in {0} \cup Statuses
    BY DEF Init, Statuses
  <2>2. more \in BOOLEAN
    BY Zenon DEF Init
  <2>3. out \in Seq(Chunks) /\ sent \in Seq(Kinds) /\ read \in Nat /\ emitted \in Nat
    BY DEF Init
  <2> QED
    BY <2>1, <2>2, <2>3 DEF Init, TypeOK
<1>2. PhaseInv
  BY DEF Init, PhaseInv, BeforeInv, PumpInv, ReplyInv, EndInv, WireInv, ConnInv,
         Before, Pumping, Untouched
<1> QED
  BY <1>1, <1>2 DEF IInv

\* A chunk written after the first `emitted' messages leaves them in place.
LEMMA StreamGrows ==
    ASSUME out \in Seq(Chunks), emitted \in Nat, Streamed,
           NEW chunk \in Chunks, out' = Append(out, chunk)
    PROVE  /\ Len(out') = emitted + 1
           /\ out'[emitted + 1] = chunk
           /\ \A i \in 1..emitted : out'[i] = Message(i)
<1> HIDE DEF Message
<1> QED
  BY DEF Streamed

\* A body written to an untouched response is all there is.
LEMMA FirstBody ==
    ASSUME IInv, out = <<>>, ~sr.committed, pc # "done",
           NEW b \in Bodies, NEW code \in Statuses, NEW type \in {"json", "text"},
           WriteBody(b, code, type)
    PROVE  /\ out' = << <<b, code>> >>
           /\ AnsweredOnce'
           /\ sr'.committed /\ sr'.status = code
           /\ wire' = [status |-> code, type |-> type]
           /\ header' = type
<1>1. wire.status = 0
  BY DEF IInv, PhaseInv, WireInv
<1>2. sr' = [status |-> code, committed |-> TRUE] /\ header' = type
  BY DEF WriteBody
<1>3. out' = << <<b, code>> >>
  BY DEF WriteBody
<1>4. AnsweredOnce'
  BY <1>2, <1>3 DEF AnsweredOnce
<1> QED
  BY <1>1, <1>2, <1>3, <1>4 DEF WriteBody, OnWire

\* Every step outside the pumps that answers the request ends it so.
LEMMA AnswerStep ==
    ASSUME IInv, Before, pc' = "log", conn' # "open",
           emitted' = emitted, pumpErr' = pumpErr,
           NEW b \in Bodies, NEW code \in Statuses, NEW type \in {"json", "text"},
           WriteBody(b, code, type)
    PROVE  PhaseInv'
<1>1. out = <<>> /\ ~sr.committed /\ emitted = 0 /\ pumpErr = "nil" /\ pc # "done"
  BY DEF IInv, PhaseInv, BeforeInv, Before, Untouched
<1>2. /\ AnsweredOnce' /\ sr'.committed /\ sr'.status = code
      /\ wire' = [status |-> code, type |-> type] /\ header' = type
  BY <1>1, FirstBody
<1> QED
  BY <1>1, <1>2 DEF PhaseInv, BeforeInv, PumpInv, ReplyInv, EndInv, WireInv, ConnInv,
                    Before, Pumping


\* Steps that leave the response and the pump's counters alone.
LEMMA QuietStep ==
    ASSUME IInv, UNCHANGED <<req, emitted, resp>>,
           \/ ReadBody \/ Dial \/ Environment \/ UNCHANGED vars
           \/ Route /\ pc' = "readBody"
    PROVE  PhaseInv'
<1> USE DEF IInv, TypeOK
<1>1. sent' = sent \/ (sent' \in Seq(Kinds) /\ Len(sent') = Len(sent) + 1)
  <2>1. CASE UpstreamSends
    BY <2>1 DEF UpstreamSends
  <2>2. CASE ~UpstreamSends
    BY <2>2 DEF ReadBody, Dial, Environment, ClientStalls, ClientResumes, ClientLeaves,
                UpstreamSendsOn, UpstreamEnds, Route, Answer, env, vars
  <2> QED
    BY <2>1, <2>2
<1>2. read' = read /\ pumpErr' = pumpErr /\ logged' = logged
  BY DEF ReadBody, Dial, Environment, ClientStalls, ClientResumes, ClientLeaves,
         UpstreamSends, UpstreamSendsOn, UpstreamEnds, Route, Answer, env, system, vars
<1>3. CASE pc' = pc /\ conn' = conn
  BY <1>1, <1>2, <1>3
     DEF PhaseInv, BeforeInv, PumpInv, ReplyInv, EndInv, WireInv, ConnInv, Before, Pumping,
         Untouched, Streamed, BrokenOff, AnsweredOnce, PumpResult, resp
<1>4. CASE Before /\ pc' \in {"readBody", "dial", "writeBody"}
           /\ (pc' # "writeBody" => conn' = conn /\ pc # "writeBody")
  BY <1>1, <1>2, <1>4
     DEF PhaseInv, BeforeInv, PumpInv, ReplyInv, EndInv, WireInv, ConnInv, Before, Pumping,
         Untouched, resp
<1>5. CASE ReadBody \/ Dial \/ (Route /\ pc' = "readBody")
  BY <1>5, <1>4 DEF ReadBody, Dial, Route, Answer, Before
<1>6. CASE Environment \/ UNCHANGED vars
  BY <1>6, <1>3 DEF Environment, ClientStalls, ClientResumes, ClientLeaves,
         UpstreamSends, UpstreamSendsOn, UpstreamEnds, system, vars
<1> QED
  BY <1>5, <1>6


\* What the pump's write of a chunk to the client changes.
LEMMA ChunkWritten ==
    ASSUME IInv, Pumping, NEW chunk \in Chunks, WriteChunk(chunk)
    PROVE  /\ Len(out') = emitted + 1
           /\ out'[emitted + 1] = chunk
           /\ \A i \in 1..emitted : out'[i] = Message(i)
           /\ sr'.committed /\ sr'.status = sr.status
           /\ wire'.status = 200 /\ sr.status = 200 /\ wire'.type = "sse"
           /\ header' = "sse"
<1> USE DEF IInv, TypeOK
<1>1. header = "sse" /\ Streamed
  BY DEF PhaseInv, PumpInv
<1>2. out' = Append(out, chunk) /\ sr' = [sr EXCEPT !.committed = TRUE]
      /\ wire' = OnWire(200, header) /\ header' = header
  BY DEF WriteChunk
<1>3. sr'.committed /\ sr'.status = sr.status
  BY <1>2
<1>4. wire'.status = 200 /\ sr.status = 200 /\ wire'.type = "sse"
  BY <1>1, <1>2 DEF PhaseInv, WireInv, OnWire, Pumping
<1> QED
  BY <1>1, <1>2, <1>3, <1>4, StreamGrows

LEMMA RelayFrameStep == IInv /\ RelayFrame => PhaseInv'
<1> SUFFICES ASSUME IInv, RelayFrame PROVE PhaseInv'
  OBVIOUS
<1> USE DEF IInv, TypeOK
<1>1. Pumping /\ read = emitted + 1 /\ read <= Len(sent) /\ pumpErr = "nil"
  BY DEF PhaseInv, PumpInv, Pumping, RelayFrame
<1>2. WriteChunk(Message(read)) /\ Message(read) \in Chunks
  BY MessageIsChunk DEF RelayFrame
<1>3. /\ Len(out') = emitted + 1
      /\ out'[emitted + 1] = Message(read)
      /\ \A i \in 1..emitted : out'[i] = Message(i)
      /\ sr'.committed /\ sr'.status = 200 /\ wire'.status = 200 /\ wire'.type = "sse"
      /\ header' = "sse"
  BY <1>1, <1>2, ChunkWritten
<1>4. emitted' = emitted + 1 /\ read' = read /\ pc' \in {"pump", "reply"}
      /\ pumpErr' = "nil" /\ conn' = conn /\ sent' = sent
  BY <1>1 DEF RelayFrame, PumpReturns, env
<1>5. Streamed'
  BY <1>1, <1>3, <1>4 DEF Streamed
<1> QED
  BY <1>1, <1>3, <1>4, <1>5
     DEF PhaseInv, BeforeInv, PumpInv, ReplyInv, EndInv, WireInv, ConnInv, Before, Pumping,
         PumpResult

LEMMA FaultFrameStep == IInv /\ writeErrorFrame => PhaseInv'
<1> SUFFICES ASSUME IInv, writeErrorFrame PROVE PhaseInv'
  OBVIOUS
<1> USE DEF IInv, TypeOK
<1> DEFINE fault == FaultFrame(Dialect(req.path), emitted)
<1>1. Pumping /\ emitted > 0
  BY DEF PhaseInv, PumpInv, Pumping, writeErrorFrame
<1>2. WriteChunk(fault) /\ fault \in Chunks
  BY FaultIsChunk DEF writeErrorFrame
<1>3. /\ Len(out') = emitted + 1
      /\ out'[emitted + 1] = fault
      /\ \A i \in 1..emitted : out'[i] = Message(i)
      /\ sr'.committed /\ sr'.status = 200 /\ wire'.status = 200 /\ wire'.type = "sse"
      /\ header' = "sse"
  <2> HIDE DEF fault
  <2> QED
    BY <1>1, <1>2, ChunkWritten
<1>4. emitted' = emitted /\ req' = req /\ pc' = "reply" /\ pumpErr' = "timeout"
  BY DEF writeErrorFrame, PumpReturns
<1>5. fault = fault'
  BY <1>4 DEF FaultFrame, Dialect
<1>6. BrokenOff'
  BY <1>1, <1>3, <1>4, <1>5 DEF BrokenOff
<1> QED
  BY <1>3, <1>4, <1>6
     DEF PhaseInv, BeforeInv, PumpInv, ReplyInv, EndInv, WireInv, ConnInv, Before, Pumping,
         PumpResult

LEMMA RelayLaterStep == IInv /\ RelayLater => PhaseInv'
<1> SUFFICES ASSUME IInv, RelayLater PROVE PhaseInv'
  OBVIOUS
<1> USE DEF IInv, TypeOK
<1>1. /\ pc = "relay" /\ read = emitted /\ pc' = "pump"
      /\ UNCHANGED <<req, emitted, read, sent, pumpErr, conn, sr, header, wire, out>>
  BY DEF RelayLater, env, resp
<1>2. Streamed'
  BY <1>1 DEF PhaseInv, PumpInv, Pumping, Streamed
<1> QED
  BY <1>1, <1>2
     DEF PhaseInv, BeforeInv, PumpInv, ReplyInv, EndInv, WireInv, ConnInv, Before, Pumping

LEMMA RelayFailsStep == IInv /\ RelayFails => PhaseInv'
<1> SUFFICES ASSUME IInv, RelayFails PROVE PhaseInv'
  OBVIOUS
<1> USE DEF IInv, TypeOK
<1>1. Streamed /\ header = "sse" /\ pc = "relay"
  BY DEF PhaseInv, PumpInv, Pumping, RelayFails
<1>2. /\ sr'.committed /\ sr'.status = 200 /\ wire'.status = 200 /\ wire'.type = "sse"
      /\ header' = "sse" /\ pc' = "reply" /\ pumpErr' = "write"
  BY <1>1 DEF RelayFails, PumpReturns, OnWire, PhaseInv, WireInv
<1>3. Streamed'
  BY <1>1 DEF RelayFails, Streamed
<1> QED
  BY <1>2, <1>3
     DEF PhaseInv, BeforeInv, PumpInv, ReplyInv, EndInv, WireInv, ConnInv, Before, Pumping,
         PumpResult

\* The steps of the pump that write nothing.
LEMMA ReadStep ==
    ASSUME IInv, ReadMessage \/ ReadEnds \/ ReadTimesOut
    PROVE  PhaseInv'
<1> USE DEF IInv, TypeOK
<1>1. /\ pc = "pump" /\ Streamed /\ pumpErr = "nil" /\ header = "sse" /\ read = emitted
      /\ (sr.committed <=> emitted > 0)
  BY DEF PhaseInv, PumpInv, Pumping, ReadMessage, ReadEnds, ReadTimesOut, ReadDeadline
<1>2. UNCHANGED <<emitted, sr, header, wire, out, conn, sent>>
  BY DEF ReadMessage, ReadEnds, ReadTimesOut, env, resp
<1>3. Streamed'
  BY <1>1, <1>2 DEF Streamed
<1>4. emitted = 0 => Untouched'
  BY <1>1, <1>2 DEF Streamed, Untouched
<1>5. \/ /\ pc' = "relay" /\ pumpErr' = "nil"
         /\ read' \in {emitted, emitted + 1} /\ read' <= Len(sent)
      \/ pc' = "reply" /\ pumpErr' = "nil"
      \/ pc' = "faultFrame" /\ pumpErr' = "nil" /\ read' = read /\ emitted > 0
      \/ pc' = "reply" /\ pumpErr' = "timeout" /\ emitted = 0
  BY <1>1 DEF ReadMessage, ReadEnds, ReadTimesOut, AfterTimeout, PumpReturns
<1> QED
  BY <1>1, <1>2, <1>3, <1>4, <1>5
     DEF PhaseInv, BeforeInv, PumpInv, ReplyInv, EndInv, WireInv, ConnInv, Before, Pumping,
         PumpResult


LEMMA SendRequestStep == IInv /\ SendRequest => PhaseInv'
  BY DEF IInv, TypeOK, SendRequest, env, PhaseInv, BeforeInv, PumpInv, ReplyInv, EndInv,
         WireInv, ConnInv, Before, Pumping, Untouched, Streamed

\* The 504 after a pump that relayed nothing is an answer like any other.
LEMMA ReplyStep == IInv /\ Reply => PhaseInv'
<1> SUFFICES ASSUME IInv, Reply PROVE PhaseInv'
  OBVIOUS
<1> USE DEF IInv, TypeOK
<1>1. PumpResult /\ header = "sse" /\ pc = "reply"
  BY DEF PhaseInv, ReplyInv, Reply
<1>2. UNCHANGED <<emitted, pumpErr, req>> /\ pc' = "log" /\ conn' = "closed"
  BY DEF Reply
<1>3. CASE MayAnswer504
  <2>1. out = <<>> /\ ~sr.committed /\ emitted = 0 /\ pumpErr = "timeout"
    BY <1>1, <1>3 DEF MayAnswer504, PumpResult, Untouched
  <2>2. WriteBody("proxyError", 504, "json")
    BY <1>3 DEF Reply, writeProxyError
  <2>3. /\ out' = << <<"proxyError", 504>> >>
        /\ AnsweredOnce' /\ sr'.committed /\ sr'.status = 504
        /\ wire' = [status |-> 504, type |-> "json"] /\ header' = "json"
    BY <1>1, <2>1, <2>2, FirstBody DEF Bodies, Statuses
  <2> QED
    BY <1>2, <2>1, <2>3
       DEF PhaseInv, BeforeInv, PumpInv, ReplyInv, EndInv, WireInv, ConnInv, Before, Pumping
<1>4. CASE ~MayAnswer504
  <2>1. UNCHANGED resp
    BY <1>4 DEF Reply
  <2>2. PumpResult' /\ (pumpErr = "timeout" => emitted > 0)
    BY <1>1, <1>2, <1>4, <2>1
       DEF MayAnswer504, PumpResult, Streamed, BrokenOff, Untouched, FaultFrame, Dialect, resp
  <2> QED
    BY <1>1, <1>2, <2>1, <2>2
       DEF PhaseInv, BeforeInv, PumpInv, ReplyInv, EndInv, WireInv, ConnInv, Before, Pumping,
           resp
<1> QED
  BY <1>3, <1>4

LEMMA LogRequestStep == IInv /\ LogRequest => PhaseInv'
<1> SUFFICES ASSUME IInv, LogRequest PROVE PhaseInv'
  OBVIOUS
<1> USE DEF IInv, TypeOK
<1>1. UNCHANGED <<req, conn, emitted, pumpErr, sr, header, out>> /\ pc' = "done"
      /\ logged' = sr.status /\ pc = "log"
  BY DEF LogRequest
<1>2. wire' = IF sr.committed THEN wire ELSE [status |-> 200, type |-> header]
  BY DEF LogRequest, OnWire, PhaseInv, WireInv, Statuses
<1>3. EndInv'
  BY <1>1, <1>2 DEF PhaseInv, EndInv, AnsweredOnce, PumpResult, Streamed, BrokenOff,
                    Untouched, FaultFrame, Dialect
<1>4. WireInv'
  BY <1>1, <1>2 DEF PhaseInv, WireInv
<1> QED
  BY <1>1, <1>3, <1>4
     DEF PhaseInv, BeforeInv, PumpInv, ReplyInv, ConnInv, Before, Pumping

\* The steps that answer before the WebSocket is in use, or fail on first use.
LEMMA EarlyAnswer ==
    ASSUME IInv,
           \/ Route /\ pc' # "readBody"
           \/ ReadBodyFails \/ DialFails \/ SendRequestFails
    PROVE  PhaseInv'
<1> USE DEF IInv, TypeOK
<1>1. Before
  BY DEF Before, Route, ReadBodyFails, DialFails, SendRequestFails
<1>2. pc' = "log" /\ emitted' = emitted /\ pumpErr' = pumpErr
  BY DEF Route, ReadBodyFails, DialFails, SendRequestFails, Answer
<1>3. conn' # "open"
  <2>1. CASE SendRequestFails
    BY <2>1 DEF SendRequestFails
  <2>2. CASE ~SendRequestFails
    <3>1. pc \in {"route", "readBody", "dial"} /\ conn' = conn
      BY <2>2 DEF Route, ReadBodyFails, DialFails, Answer
    <3> QED
      BY <3>1 DEF PhaseInv, ConnInv
  <2> QED
    BY <2>1, <2>2
<1>4. \E b \in Bodies, code \in Statuses, type \in {"json", "text"} :
          WriteBody(b, code, type)
  BY DEF Route, ReadBodyFails, DialFails, SendRequestFails, Answer, writeProxyError,
         DialStatuses, Bodies, Statuses
<1> QED
  BY <1>1, <1>2, <1>3, <1>4, AnswerStep

LEMMA InvStep == IInv /\ [Next]_vars => IInv'
<1> SUFFICES ASSUME IInv, [Next]_vars PROVE PhaseInv'
  BY TypeStep DEF IInv
<1>1. CASE Route
  <2>1. CASE pc' = "readBody"
    BY <1>1, <2>1, QuietStep DEF Route, Answer, resp
  <2>2. CASE pc' # "readBody"
    BY <1>1, <2>2, EarlyAnswer
  <2> QED
    BY <2>1, <2>2
<1>2. CASE ReadBody \/ Dial
  BY <1>2, QuietStep DEF ReadBody, Dial, resp
<1>3. CASE ReadBodyFails \/ DialFails \/ SendRequestFails
  BY <1>3, EarlyAnswer
<1>4. CASE SendRequest
  BY <1>4, SendRequestStep
<1>5. CASE Pump
  BY <1>5, ReadStep, RelayFrameStep, RelayLaterStep, RelayFailsStep, FaultFrameStep DEF Pump
<1>6. CASE Reply
  BY <1>6, ReplyStep
<1>7. CASE LogRequest
  BY <1>7, LogRequestStep
<1>8. CASE Environment
  <2>1. UNCHANGED <<req, emitted, resp>>
    BY <1>8 DEF Environment, ClientStalls, ClientResumes, ClientLeaves, UpstreamSends,
                UpstreamSendsOn, UpstreamEnds, system, resp
  <2> QED
    BY <1>8, <2>1, QuietStep
<1>9. CASE UNCHANGED vars
  <2>1. UNCHANGED <<req, emitted, resp>>
    BY <1>9 DEF vars, resp
  <2> QED
    BY <1>9, <2>1, QuietStep
<1> QED
  BY <1>1, <1>2, <1>3, <1>4, <1>5, <1>6, <1>7, <1>8, <1>9 DEF Next, Handler

THEOREM Invariance == Spec => []IInv
<1> QED
  BY InitInv, InvStep, PTL DEF Spec


----------------------------------------------------------------------------
(* The properties of Proxy, state by state from the invariant.             *)

\* Every variable stays in its type on every behaviour of the handler.
THEOREM TypeCorrect == Spec => []TypeOK
<1>1. IInv => TypeOK
  BY DEF IInv
<1> QED
  BY <1>1, Invariance, PTL

\* The request log reports the status the client was sent, on every path
\* through the handler.
THEOREM LoggedStatus == Spec => []LoggedStatusIsSent
<1>1. IInv => LoggedStatusIsSent
  BY DEF IInv, PhaseInv, WireInv, LoggedStatusIsSent
<1> QED
  BY <1>1, Invariance, PTL

\* The upstream WebSocket is closed before the request is logged, on every
\* path through the handler.
THEOREM Released == Spec => []ConnReleased
<1>1. IInv => ConnReleased
  BY DEF IInv, PhaseInv, ConnInv, ConnReleased
<1> QED
  BY <1>1, Invariance, PTL

\* What a response that is not empty looks like.
LEMMA Shapes ==
    ASSUME IInv, out # <<>>
    PROVE  \/ /\ AnsweredOnce /\ wire.type # "sse" /\ pc \in {"log", "done"}
              /\ wire.status = sr.status
           \/ /\ emitted > 0 /\ sr.committed /\ wire.type = "sse" /\ wire.status = 200
              /\ Pumping \/ pc \in {"reply", "log", "done"}
              /\ \/ Streamed /\ pumpErr # "timeout"
                 \/ BrokenOff /\ pumpErr = "timeout"
<1> USE DEF IInv, TypeOK
<1>1. ~Before
  BY DEF PhaseInv, BeforeInv, Untouched
<1>2. CASE Pumping
  <2>1. Streamed /\ pumpErr = "nil" /\ header = "sse" /\ (sr.committed <=> emitted > 0)
    BY <1>2 DEF PhaseInv, PumpInv
  <2>2. emitted > 0
    BY <2>1 DEF Streamed
  <2> QED
    BY <1>2, <2>1, <2>2 DEF PhaseInv, WireInv
<1>3. ASSUME PumpResult, header = "sse", pc \in {"reply", "log", "done"}
      PROVE  /\ emitted > 0 /\ sr.committed /\ wire.type = "sse" /\ wire.status = 200
             /\ \/ Streamed /\ pumpErr # "timeout"
                \/ BrokenOff /\ pumpErr = "timeout"
  <2>1. emitted > 0 /\ sr.committed
    BY <1>3 DEF PumpResult, Streamed, BrokenOff, Untouched
  <2> QED
    BY <1>3, <2>1 DEF PumpResult, PhaseInv, WireInv, Untouched
<1>4. CASE pc = "reply"
  BY <1>3, <1>4 DEF PhaseInv, ReplyInv
<1>5. CASE pc \in {"log", "done"}
  BY <1>3, <1>5 DEF PhaseInv, EndInv, WireInv
<1> QED
  BY <1>1, <1>2, <1>4, <1>5 DEF Before, Pumping

\* Streamed chunks go out under text/event-stream and bodies under another
\* type, although the stream's header is set before anything is read.
THEOREM TypesMatch == Spec => []TypeMatchesBody
<1>1. IInv => TypeMatchesBody
  <2> SUFFICES ASSUME IInv, out # <<>>
               PROVE  wire.type = "sse" <=> out[1][1] \notin Bodies
    BY DEF TypeMatchesBody
  <2>1. CASE AnsweredOnce /\ wire.type # "sse"
    BY <2>1 DEF AnsweredOnce
  <2>2. CASE emitted > 0 /\ wire.type = "sse" /\ (Streamed \/ BrokenOff)
    <3>1. out[1] = Message(1)
      BY <2>2 DEF IInv, TypeOK, Streamed, BrokenOff
    <3> QED
      BY <2>2, <3>1 DEF Message, Bodies
  <2> QED
    BY <2>1, <2>2, Shapes
<1> QED
  BY <1>1, Invariance, PTL

\* An upstream timeout is always told to the client: as a 504 if nothing was
\* streamed, else as the last chunk, numbered after the messages relayed.
THEOREM TimeoutsTold == Spec => []TimeoutIsReported
<1>1. IInv => TimeoutIsReported
  <2> SUFFICES ASSUME IInv, pc = "done", pumpErr = "timeout"
               PROVE  IF emitted = 0
                      THEN wire.status = 504 /\ out = << <<"proxyError", 504>> >>
                      ELSE out[Len(out)] = FaultFrame(Dialect(req.path), emitted)
    BY DEF TimeoutIsReported
  <2>1. CASE AnsweredOnce /\ emitted = 0 /\ out = << <<"proxyError", 504>> >>
    <3>1. sr.status = 504
      BY <2>1 DEF AnsweredOnce
    <3> QED
      BY <2>1, <3>1 DEF IInv, PhaseInv, WireInv
  <2>2. CASE PumpResult /\ emitted > 0
    BY <2>2 DEF PumpResult, BrokenOff, IInv, TypeOK
  <2> QED
    BY <2>1, <2>2 DEF IInv, PhaseInv, EndInv
<1> QED
  BY <1>1, Invariance, PTL


----------------------------------------------------------------------------
(* Nothing follows a terminal event.                                       *)

\* Only the last message relayed on a typed-JSON route can be a terminal
\* event, and then the pump has returned without an error.
TerminalInv ==
    /\ emitted <= Len(sent)
    /\ FrameMode(req.path) = "typedJSON" =>
         \A i \in 1..emitted : sent[i] = "terminal" =>
            i = emitted /\ pc \in {"reply", "log", "done"} /\ pumpErr = "nil"

LEMMA TerminalStep == IInv /\ TerminalInv /\ [Next]_vars => TerminalInv'
<1> SUFFICES ASSUME IInv, TerminalInv, [Next]_vars PROVE TerminalInv'
  OBVIOUS
<1> USE DEF IInv, TypeOK
<1>1. CASE RelayFrame
  <2>1. /\ read = emitted + 1 /\ read <= Len(sent) /\ emitted' = emitted + 1
        /\ pumpErr = "nil" /\ pc = "relay" /\ UNCHANGED <<req, sent, read>>
    BY <1>1 DEF RelayFrame, PhaseInv, PumpInv, Pumping, env
  <2>2. FrameMode(req.path) = "typedJSON" => \A i \in 1..emitted : sent[i] # "terminal"
    BY <2>1 DEF TerminalInv
  <2>3. FrameMode(req.path) = "typedJSON" /\ sent[read] = "terminal" =>
           pc' = "reply" /\ pumpErr' = "nil"
    BY <1>1 DEF RelayFrame, EndsStream, PumpReturns
  <2> QED
    BY <2>1, <2>2, <2>3 DEF TerminalInv, FrameMode
<1>2. CASE UpstreamSends
  <2>1. /\ UNCHANGED <<req, emitted, pc, pumpErr>>
        /\ Len(sent') = Len(sent) + 1
        /\ \A i \in 1..Len(sent) : sent'[i] = sent[i]
    BY <1>2 DEF UpstreamSends, system
  <2> QED
    BY <2>1 DEF TerminalInv, FrameMode
<1>3. CASE ~RelayFrame /\ ~UpstreamSends
  <2>1. UNCHANGED <<req, emitted, sent>>
    BY <1>3 DEF Next, Handler, Pump, Environment, Route, ReadBody, ReadBodyFails, Dial,
       DialFails, SendRequest, SendRequestFails, ReadMessage, ReadEnds, ReadTimesOut,
       RelayLater, RelayFails, writeErrorFrame, Reply, LogRequest, ClientStalls, ClientResumes,
       ClientLeaves, UpstreamSendsOn, UpstreamEnds, Answer, env, system, vars
  <2>2. pc \in {"reply", "log", "done"} =>
           pc' \in {"reply", "log", "done"} /\ pumpErr' = pumpErr
    BY <1>3 DEF Next, Handler, Pump, Environment, Route, ReadBody, ReadBodyFails, Dial,
       DialFails, SendRequest, SendRequestFails, ReadMessage, ReadEnds, ReadTimesOut,
       ReadDeadline, RelayLater, RelayFails, writeErrorFrame, Reply, LogRequest, ClientStalls,
       ClientResumes, ClientLeaves, UpstreamSendsOn, UpstreamEnds, system, vars
  <2> QED
    BY <2>1, <2>2 DEF TerminalInv, FrameMode
<1> QED
  BY <1>1, <1>2, <1>3

\* On the typed-JSON routes the terminal event is the last thing a client gets.
THEOREM TerminalEndsStream == Spec => []TerminalIsLast
<1>1. Init => TerminalInv
  BY DEF Init, TerminalInv
<1>2. IInv /\ TerminalInv => TerminalIsLast
  <2> SUFFICES ASSUME IInv, TerminalInv, FrameMode(req.path) = "typedJSON",
                      NEW i \in 1..Len(out),
                      out[i][1] = "message", sent[out[i][2]] = "terminal"
               PROVE  i = Len(out)
    BY DEF TerminalIsLast
  <2> USE DEF IInv, TypeOK
  <2>1. CASE AnsweredOnce
    BY <2>1 DEF AnsweredOnce, Bodies
  <2>2. CASE Streamed
    BY <2>2 DEF Streamed, Message, TerminalInv
  <2>3. CASE BrokenOff /\ pumpErr = "timeout"
    <3>1. i # emitted + 1
      BY <2>3 DEF BrokenOff, FaultFrame, Dialect
    <3>2. i \in 1..emitted /\ out[i] = Message(i)
      BY <2>3, <3>1 DEF BrokenOff
    <3>3. sent[i] = "terminal"
      BY <3>2 DEF Message
    <3> QED
      BY <2>3, <3>2, <3>3 DEF TerminalInv
  <2>4. out # <<>>
    OBVIOUS
  <2> QED
    BY <2>1, <2>2, <2>3, <2>4, Shapes
<1> QED
  BY <1>1, <1>2, TerminalStep, Invariance, PTL DEF Spec


----------------------------------------------------------------------------
(* Proxy implements ResponseContract.                                      *)

\* Where the abstract response stands, from the invariant.
LEMMA PhasePending ==
    ASSUME IInv, out = <<>>, pc # "done"
    PROVE  respPhase = "pending" /\ respStatus = 0
  BY DEF IInv, TypeOK, PhaseInv, BeforeInv, PumpInv, ReplyInv, EndInv, Before, Pumping,
         PumpResult, Streamed, BrokenOff, AnsweredOnce, respPhase, respStatus, Answered,
         Faulted

LEMMA PhaseStreaming ==
    ASSUME IInv, Streamed, emitted > 0, sr.committed, wire.status = 200,
           pumpErr # "timeout", pc # "done"
    PROVE  respPhase = "streaming" /\ respStatus = 200
<1>1. out[Len(out)] = Message(emitted) /\ out # <<>>
  BY DEF IInv, TypeOK, Streamed
<1>2. ~Answered
  BY <1>1 DEF Answered, Message, Bodies
<1> QED
  BY <1>1, <1>2 DEF respPhase, respStatus, Faulted

\* A body written to an untouched response is an abstract answer.
LEMMA AnswerRefines ==
    ASSUME IInv, out = <<>>, ~sr.committed, pc # "done",
           NEW b \in Bodies, NEW code \in Statuses, NEW type \in {"json", "text"},
           WriteBody(b, code, type)
    PROVE  Contract!Next
<1>1. out' = << <<b, code>> >> /\ wire' = [status |-> code, type |-> type]
  BY FirstBody
<1>2. respPhase = "pending"
  BY PhasePending
<1>3. respPhase' = "ended" /\ respStatus' = code
  BY <1>1 DEF respPhase, respStatus, Answered
<1> QED
  BY <1>1, <1>2, <1>3 DEF Contract!Next, Contract!Answer

\* A step that leaves what was written, and the pump's verdict on it, is none
\* of the abstract response.
LEMMA StutterRefines ==
    ASSUME IInv, IInv', UNCHANGED <<out, emitted, pumpErr>>, pc' # "done" \/ pc = "done",
           pc = "done" => pc' = "done", wire.status # 0 => wire' = wire,
           pc = "done" \/ out # <<>> => wire.status # 0
    PROVE  UNCHANGED Contract!vars
  BY DEF Contract!vars, respPhase, respStatus, Answered, Faulted

LEMMA WireSet == IInv /\ (out # <<>> \/ pc = "done") => wire.status # 0
<1>1. IInv /\ pc = "done" => wire.status # 0
  BY DEF IInv, PhaseInv, WireInv, TypeOK, Statuses
<1>2. IInv /\ out # <<>> => wire.status # 0
  BY Shapes DEF IInv, TypeOK, Statuses
<1> QED
  BY <1>1, <1>2

LEMMA RelayRefines == IInv /\ IInv' /\ RelayFrame => Contract!Next
<1> SUFFICES ASSUME IInv, IInv', RelayFrame PROVE Contract!Next
  OBVIOUS
<1> USE DEF IInv, TypeOK
<1>1. /\ Pumping /\ Streamed /\ read = emitted + 1 /\ pc = "relay" /\ pumpErr = "nil"
      /\ (sr.committed <=> emitted > 0) /\ header = "sse"
  BY DEF PhaseInv, PumpInv, Pumping, RelayFrame
<1>2. /\ emitted' = emitted + 1 /\ pc' \in {"pump", "reply"} /\ pumpErr' = "nil"
      /\ WriteChunk(Message(read)) /\ out' = Append(out, Message(read))
  BY <1>1 DEF RelayFrame, PumpReturns, WriteChunk
<1>3. respPhase \in {"pending", "streaming"}
  BY <1>1, PhasePending, PhaseStreaming DEF PhaseInv, WireInv, Streamed
<1>4. sr'.committed /\ wire'.status = 200
  BY <1>1, <1>2, ChunkWritten, MessageIsChunk
<1>5. Streamed'
  <2>1. CASE pc' = "pump"
    BY <2>1 DEF PhaseInv, PumpInv, Pumping
  <2>2. CASE pc' = "reply"
    BY <1>2, <2>2 DEF PhaseInv, ReplyInv, PumpResult
  <2> QED
    BY <1>2, <2>1, <2>2
<1>6. respPhase' = "streaming" /\ respStatus' = 200
  <2>1. ~Answered' /\ out' # <<>>
    <3>1. Len(out') = emitted + 1 /\ out'[emitted + 1] = Message(emitted + 1)
      BY <1>2, <1>5 DEF Streamed
    <3>2. out'[Len(out')][1] = "message" /\ out' # <<>>
      BY <3>1 DEF Message
    <3> QED
      BY <3>2 DEF Answered, Bodies
  <2> QED
    BY <1>2, <1>4, <2>1 DEF respPhase, respStatus, Faulted
<1>7. out' = Append(out, Contract!Message(Len(out) + 1))
  BY <1>1, <1>2 DEF Streamed, Message, Contract!Message
<1> QED
  BY <1>3, <1>6, <1>7 DEF Contract!Next, Contract!Relay

LEMMA BreakRefines == IInv /\ IInv' /\ writeErrorFrame => Contract!Next
<1> SUFFICES ASSUME IInv, IInv', writeErrorFrame PROVE Contract!Next
  OBVIOUS
<1> USE DEF IInv, TypeOK
<1>1. /\ Pumping /\ Streamed /\ emitted > 0 /\ pc = "faultFrame" /\ pumpErr = "nil"
      /\ sr.committed /\ header = "sse" /\ wire.status = 200
  BY DEF PhaseInv, PumpInv, WireInv, Pumping, writeErrorFrame
<1>2. /\ emitted' = emitted /\ pc' = "reply" /\ pumpErr' = "timeout"
      /\ out' = Append(out, FaultFrame(Dialect(req.path), emitted)) /\ wire' = wire
  BY <1>1 DEF writeErrorFrame, PumpReturns, WriteChunk, OnWire
<1>3. respPhase = "streaming" /\ respStatus = 200
  BY <1>1, PhaseStreaming
<1>4. respPhase' = "ended" /\ respStatus' = 200
  BY <1>1, <1>2 DEF respPhase, respStatus, Faulted
<1>5. FaultFrame(Dialect(req.path), emitted) \in Faults(Len(out))
  BY <1>1 DEF Faults, Streamed, Dialect, Dialects
<1> QED
  BY <1>2, <1>3, <1>4, <1>5 DEF Contract!Next, Contract!Break

LEMMA FinishRefines ==
    IInv /\ IInv' /\ LogRequest => Contract!Next \/ UNCHANGED Contract!vars
<1> SUFFICES ASSUME IInv, IInv', LogRequest
             PROVE  Contract!Next \/ UNCHANGED Contract!vars
  OBVIOUS
<1> USE DEF IInv, TypeOK
<1>1. /\ pc = "log" /\ pc' = "done" /\ UNCHANGED <<out, emitted, pumpErr, sr>>
      /\ wire.status # 0 => wire' = wire
  BY DEF LogRequest, OnWire
<1>2. respPhase' = "ended"
  BY <1>1 DEF respPhase
<1>3. CASE respPhase = "ended"
  <2>1. out # <<>>
    BY <1>1, <1>3, PhasePending
  <2>2. wire' = wire
    BY <1>1, <2>1, WireSet
  <2> QED
    BY <1>1, <1>2, <1>3, <2>1, <2>2 DEF Contract!vars, respStatus
<1>4. CASE respPhase # "ended"
  <2>1. ~Answered
    BY <1>4 DEF respPhase
  <2>2. ~AnsweredOnce
    <3>1. ASSUME NEW b \in Bodies, out = << <<b, sr.status>> >> PROVE Answered
      <4>1. Len(out) = 1 /\ out[1] = <<b, sr.status>> /\ out # <<>>
        BY <3>1
      <4> QED
        BY <4>1 DEF Answered
    <3> QED
      BY <2>1, <3>1 DEF AnsweredOnce
  <2>3. sr.status = 200
    BY <1>1, <2>2 DEF PhaseInv, EndInv, WireInv
  <2>4. respStatus' = 200
    BY <1>1, <2>3 DEF PhaseInv, WireInv, respStatus
  <2> QED
    BY <1>1, <1>2, <1>4, <2>4 DEF Contract!Next, Contract!Finish
<1> QED
  BY <1>3, <1>4


LEMMA StepRefines ==
    IInv /\ IInv' /\ [Next]_vars => [Contract!Next]_Contract!vars
<1> SUFFICES ASSUME IInv, IInv', [Next]_vars
             PROVE  Contract!Next \/ UNCHANGED Contract!vars
  OBVIOUS
<1>1. ASSUME out = <<>>, ~sr.committed, pc # "done",
             \E b \in Bodies, code \in Statuses, type \in {"json", "text"} :
                 WriteBody(b, code, type)
      PROVE  Contract!Next
  BY <1>1, AnswerRefines
<1>2. CASE (Route /\ pc' # "readBody") \/ ReadBodyFails \/ DialFails \/ SendRequestFails
  <2>1. out = <<>> /\ ~sr.committed /\ pc # "done"
    BY <1>2 DEF IInv, PhaseInv, BeforeInv, Before, Untouched, Route, ReadBodyFails,
                DialFails, SendRequestFails
  <2>2. \E b \in Bodies, code \in Statuses, type \in {"json", "text"} :
            WriteBody(b, code, type)
    BY <1>2 DEF Route, ReadBodyFails, DialFails, SendRequestFails, Answer,
                writeProxyError, DialStatuses, Bodies, Statuses
  <2> QED
    BY <1>1, <2>1, <2>2
<1>3. CASE Reply /\ MayAnswer504
  <2>1. out = <<>> /\ ~sr.committed /\ pc # "done"
    BY <1>3 DEF Reply, MayAnswer504, IInv, PhaseInv, ReplyInv, PumpResult, Untouched
  <2>2. WriteBody("proxyError", 504, "json")
    BY <1>3 DEF Reply, writeProxyError
  <2> QED
    BY <1>1, <2>1, <2>2 DEF Bodies, Statuses
<1>4. CASE RelayFrame \/ writeErrorFrame \/ LogRequest
  BY <1>4, RelayRefines, BreakRefines, FinishRefines
<1>5. CASE ReadTimesOut /\ pumpErr' # pumpErr
  <2>1. /\ UNCHANGED <<out, emitted, wire>> /\ emitted = 0 /\ emitted \in Nat
        /\ pc = "pump" /\ pc' # "done"
    BY <1>5 DEF ReadTimesOut, ReadDeadline, AfterTimeout, PumpReturns, resp, IInv, TypeOK
  <2> QED
    BY <2>1 DEF Contract!vars, respPhase, respStatus, Answered, Faulted
<1>6. CASE RelayFails
  <2>1. UNCHANGED <<out, emitted>> /\ pumpErr' = "write" /\ pumpErr = "nil"
        /\ pc = "relay" /\ pc' # "done" /\ wire' = OnWire(200, header)
    BY <1>6 DEF RelayFails, PumpReturns, IInv, PhaseInv, PumpInv, Pumping
  <2>2. out # <<>> => wire' = wire
    BY <2>1, WireSet DEF OnWire
  <2> QED
    BY <2>1, <2>2 DEF Contract!vars, respPhase, respStatus, Answered, Faulted
<1>7. CASE \/ Route /\ pc' = "readBody"
           \/ ReadBody \/ Dial \/ SendRequest \/ ReadMessage \/ ReadEnds \/ RelayLater
           \/ ReadTimesOut /\ pumpErr' = pumpErr
           \/ Reply /\ ~MayAnswer504
           \/ Environment \/ UNCHANGED vars
  <2>1. out' = out /\ emitted' = emitted /\ wire' = wire
    BY <1>7 DEF Route, ReadBody, Dial, SendRequest, ReadMessage, ReadEnds, ReadTimesOut,
       RelayLater, Reply, Answer, Environment, ClientStalls, ClientResumes, ClientLeaves,
       UpstreamSends, UpstreamSendsOn, UpstreamEnds, system, resp, vars
  <2>2. /\ pc' # "done" \/ pc = "done"
        /\ pc = "done" => pc' = "done"
    BY <1>7 DEF Route, ReadBody, Dial, SendRequest, ReadMessage, ReadEnds, ReadTimesOut,
       RelayLater, ReadDeadline, AfterTimeout, PumpReturns, Reply, Environment, ClientStalls, ClientResumes,
       ClientLeaves, UpstreamSends, UpstreamSendsOn, UpstreamEnds, system, vars
  <2>3. CASE pumpErr' = pumpErr
    BY <2>1, <2>2, <2>3, WireSet, StutterRefines
  <2>4. CASE pumpErr' # pumpErr
    <3>1. ReadEnds
      BY <1>7, <2>4 DEF Route, ReadBody, Dial, SendRequest, ReadMessage, RelayLater, Reply,
         Answer, Environment, ClientStalls, ClientResumes, ClientLeaves,
         UpstreamSends, UpstreamSendsOn, UpstreamEnds, system, vars
    <3>2. pumpErr = "nil"
      BY <3>1 DEF ReadEnds, IInv, PhaseInv, PumpInv, Pumping
    <3> QED
      BY <2>4, <3>1, <3>2 DEF ReadEnds, PumpReturns
  <2> QED
    BY <2>3, <2>4
<1> QED
  BY <1>2, <1>3, <1>4, <1>5, <1>6, <1>7 DEF Next, Handler, Pump

\* Whatever the route, the upstream and the timing do, the response is one the
\* abstract contract allows.
THEOREM Refinement == Spec => ImplementsContract
<1>1. Init => Contract!Init
  BY DEF Init, Contract!Init, respPhase, respStatus, Answered, Faulted
<1> QED
  BY <1>1, StepRefines, Invariance, PTL DEF Spec, ImplementsContract, Contract!Spec

=============================================================================
