------------------------------- MODULE Proxy -------------------------------
(***************************************************************************)
(* One HTTP request through cc2ws: the router (routes.go), the per-request *)
(* handler (proxy.go), its streaming frame pumps (frames.go) and the       *)
(* status recorder and request log around them (logging.go).  Requests     *)
(* share nothing but the logger, so one request is the whole component;    *)
(* its environment is the client, which may stall or leave at any moment,  *)
(* and the upstream WebSocket peer, which may be slow, close or reset.     *)
(*                                                                         *)
(* Upstream messages are numbered 1, 2, ... by their position; only        *)
(* whether one is a terminal event matters of their contents.  The first   *)
(* MaxFrames of a stream are recorded one by one; an upstream may go on    *)
(* without end, and what it sends later is relayed and not recorded.       *)
(***************************************************************************)
EXTENDS Naturals, Sequences

CONSTANT MaxFrames            \* bound: upstream messages told apart

ASSUME MaxFramesAssumption == MaxFrames \in Nat \ {0}

----------------------------------------------------------------------------
(* Routing: newRouter binds a method and a path to a frame mode and a      *)
(* dialect for the proxy's own fault frames.                               *)

ProxyPaths == {"chat", "responses", "compact", "messages", "anthropic"}
Paths      == ProxyPaths \cup {"health", "unknown"}
Methods    == {"GET", "POST"}
Registered == ({"POST"} \X ProxyPaths) \cup {<<"GET", "health">>}

FrameMode(path) == IF path \in {"responses", "compact"}
                   THEN "typedJSON" ELSE "sseBytes"

Dialect(path) == IF path = "chat" THEN "OpenAI"
                 ELSE IF path \in {"messages", "anthropic"} THEN "Anthropic"
                 ELSE "Responses"

\* The request as the client sends it; its body is forwarded unread.
Requests == [method : Methods, path : Paths]

----------------------------------------------------------------------------
VARIABLES
    req,        \* the request, fixed
    pc,         \* where the handler goroutine stands
    client,     \* "reading", "stalled" (takes no bytes) or "gone"
    peer,       \* the upstream end: "none", "up", "closed" or "reset"
    conn,       \* the proxy's end of the WebSocket: "none", "open", "closed"
    sent,       \* the recorded messages the upstream has sent, as kinds
    more,       \* a later message, of kind "data", waits to be read
    read,       \* how many recorded messages ReadMessage has returned
    emitted,    \* the pump's counter of relayed messages, up to MaxFrames
    pumpErr,    \* the pump's result: "nil", "timeout" or "write"
    sr,         \* statusRecorder: status and committed
    header,     \* the Content-Type in the response header map
    wire,       \* what net/http has put on the wire: status line and type
    out,        \* the chunks handed to the client
    logged      \* the status in the request's log line, 0 before it

env  == <<client, peer, sent, more>>
resp == <<sr, header, wire, out>>
vars == <<req, pc, client, peer, conn, sent, more, read, emitted, pumpErr,
          sr, header, wire, out, logged>>

Kinds      == {"data", "terminal"}
Dialects   == {"OpenAI", "Anthropic", "Responses"}
Bodies     == {"proxyError", "health", "notFound", "notAllowed"}
Statuses   == {200, 400, 404, 405, 502, 504}

\* The chunks of a response: an upstream message by position, a fault frame
\* with its sequence number (only the Responses dialect carries one), a body.
Message(n)       == <<"message", n>>
FaultFrame(d, n) == <<d, IF d = "Responses" THEN n ELSE 0>>
Faults(n)        == {FaultFrame(d, n) : d \in Dialects}
Chunks           == (Bodies \cup Dialects \cup {"message"}) \X Nat

Init ==
    /\ req \in Requests
    /\ pc = "route"
    /\ client = "reading"
    /\ peer = "none"
    /\ conn = "none"
    /\ sent = <<>>
    /\ more = FALSE
    /\ read = 0
    /\ emitted = 0
    /\ pumpErr = "nil"
    /\ sr = [status |-> 200, committed |-> FALSE]
    /\ header = "none"
    /\ wire = [status |-> 0, type |-> "none"]
    /\ out = <<>>
    /\ logged = 0

----------------------------------------------------------------------------
(* net/http's ResponseWriter seen through statusRecorder.  The first       *)
(* WriteHeader or Write sends the status line with the header map as it    *)
(* stands; a later WriteHeader reaches the recorder and not the wire.      *)

OnWire(code, type) == IF wire.status = 0
                      THEN [status |-> code, type |-> type] ELSE wire

\* Fault seeded in WriteBody: the Content-Type is left as the pump set it.
WriteBody_StaleType(b, code, type) ==
    /\ sr' = [status |-> code, committed |-> TRUE]
    /\ wire' = OnWire(code, header)
    /\ out' = Append(out, <<b, code>>)
    /\ UNCHANGED header

\* WriteHeader(code) followed by Write(b) under Content-Type type.
WriteBody(b, code, type) ==
    /\ header' = type
    /\ sr' = [status |-> code, committed |-> TRUE]
    /\ wire' = OnWire(code, type)
    /\ out' = Append(out, <<b, code>>)

writeProxyError(code) == WriteBody("proxyError", code, "json")

\* A bare Write of one chunk of the stream, then a flush.
WriteChunk(chunk) ==
    /\ sr' = [sr EXCEPT !.committed = TRUE]
    /\ wire' = OnWire(200, header)
    /\ out' = Append(out, chunk)
    /\ UNCHANGED header

----------------------------------------------------------------------------
(* The handler.                                                            *)

Answer(b, code, type) ==
    /\ WriteBody(b, code, type)
    /\ pc' = "log"
    /\ UNCHANGED <<req, env, conn, read, emitted, pumpErr, logged>>

Route ==
    /\ pc = "route"
    /\ LET known == \E m \in Methods : <<m, req.path>> \in Registered
       IN  \/ /\ <<req.method, req.path>> \in Registered
              /\ req.path = "health"
              /\ Answer("health", 200, "json")
           \/ /\ <<req.method, req.path>> \in Registered
              /\ req.path \in ProxyPaths
              /\ pc' = "readBody"
              /\ UNCHANGED <<req, env, conn, read, emitted, pumpErr, resp, logged>>
           \/ /\ <<req.method, req.path>> \notin Registered
              /\ IF known THEN Answer("notAllowed", 405, "text")
                          ELSE Answer("notFound", 404, "text")

\* io.ReadAll of the body: the body is forwarded whatever it holds.
ReadBody ==
    /\ pc = "readBody"
    /\ pc' = "dial"
    /\ UNCHANGED <<req, env, conn, read, emitted, pumpErr, resp, logged>>

\* The client left, or the server's 60s ReadTimeout ran out.
ReadBodyFails ==
    /\ pc = "readBody"
    /\ Answer("proxyError", 400, "json")

Dial ==
    /\ pc = "dial"
    /\ conn' = "open"
    /\ peer' = "up"
    /\ pc' = "writeBody"
    /\ UNCHANGED <<req, client, sent, more, read, emitted, pumpErr, resp, logged>>

\* Fault seeded in DialStatuses: a failed dial is an internal error.
DialStatuses_Internal == {500, 504}

\* A timeout (context deadline or handshake) is 504, any other failure 502;
\* a client that leaves cancels the dial, which is such another failure.
DialStatuses == {502, 504}

DialFails ==
    /\ pc = "dial"
    /\ \E code \in DialStatuses : Answer("proxyError", code, "json")

SendRequest ==
    /\ pc = "writeBody"
    /\ pc' = "pump"
    /\ header' = "sse"                       \* setSSEHeaders, on pump entry
    /\ UNCHANGED <<req, env, conn, read, emitted, pumpErr, sr, wire, out, logged>>

\* Fault seeded in SendRequestFails: Close is deferred only after the write.
SendRequestFails_Leak ==
    /\ pc = "writeBody"
    /\ Answer("proxyError", 502, "json")

\* The write deadline (ConnectTimeout) or a dead connection; the deferred
\* Close releases the WebSocket.
SendRequestFails ==
    /\ pc = "writeBody"
    /\ writeProxyError(502)
    /\ conn' = "closed"
    /\ pc' = "log"
    /\ UNCHANGED <<req, env, read, emitted, pumpErr, logged>>

----------------------------------------------------------------------------
(* The streaming pumps.  Both loop over ReadMessage; they differ in what a *)
(* failed write to the client does and in what ends the stream.            *)

PumpReturns(err) == pumpErr' = err /\ pc' = "reply"

ReadMessage ==
    /\ pc = "pump"
    /\ \/ read < Len(sent) /\ read' = read + 1 /\ UNCHANGED more
       \/ read = Len(sent) /\ more /\ more' = FALSE /\ UNCHANGED read
    /\ pc' = "relay"
    /\ UNCHANGED <<req, client, peer, sent, conn, emitted, pumpErr, resp, logged>>

NothingToRead == read = Len(sent) /\ ~more

\* Any read error that is not a timeout ends the stream normally; a reset
\* also discards what was not read yet.
ReadEnds ==
    /\ pc = "pump"
    /\ \/ peer = "reset"
       \/ peer = "closed" /\ NothingToRead
    /\ PumpReturns("nil")
    /\ UNCHANGED <<req, env, conn, read, emitted, resp, logged>>

\* Fault seeded in ReadDeadline: the deadline is set for the first read only.
ReadDeadline_FirstRead == pc = "pump" /\ read = 0 /\ Len(sent) = 0 /\ peer = "up"

\* idleConn renews the read deadline before every ReadMessage, so IDLE_TIMEOUT
\* can elapse in any read that finds nothing.
ReadDeadline == pc = "pump" /\ NothingToRead /\ peer = "up"

\* Faults seeded in AfterTimeout: the stream just stops; a fault frame is sent
\* even when no message was.
AfterTimeout_Silent  == PumpReturns("timeout")
AfterTimeout_Eagerly == pc' = "faultFrame" /\ UNCHANGED pumpErr

\* A timeout is announced in the stream once the stream has begun.
AfterTimeout == IF emitted > 0
                THEN pc' = "faultFrame" /\ UNCHANGED pumpErr
                ELSE PumpReturns("timeout")

ReadTimesOut ==
    /\ ReadDeadline
    /\ AfterTimeout
    /\ UNCHANGED <<req, env, conn, read, emitted, resp, logged>>

\* Fault seeded in EndsStream: the pump reads on after a terminal event.
EndsStream_Never(kind) == FALSE

EndsStream(kind) == FrameMode(req.path) = "typedJSON" /\ kind = "terminal"

\* The message in hand is written and flushed; the goroutine blocks in the
\* write while the client takes no bytes (WriteTimeout is 0).
RelayFrame ==
    /\ pc = "relay"
    /\ emitted < read
    /\ client # "stalled"
    /\ WriteChunk(Message(read))
    /\ emitted' = emitted + 1
    /\ IF EndsStream(sent[read])
       THEN PumpReturns("nil")
       ELSE pc' = "pump" /\ UNCHANGED pumpErr
    /\ UNCHANGED <<req, env, conn, read, logged>>

\* The same for a message that is not recorded; none of those is terminal.
RelayLater ==
    /\ pc = "relay"
    /\ emitted = read
    /\ client # "stalled"
    /\ pc' = "pump"
    /\ UNCHANGED <<req, env, conn, read, emitted, pumpErr, resp, logged>>

\* The write fails because the client left.  pumpSSEBytes gives up,
\* pumpTypedJSON ignores the error (that is RelayFrame).
RelayFails ==
    /\ pc = "relay"
    /\ client = "gone"
    /\ FrameMode(req.path) = "sseBytes"
    /\ sr' = [sr EXCEPT !.committed = TRUE]
    /\ wire' = OnWire(200, header)
    /\ PumpReturns("write")
    /\ UNCHANGED <<req, env, conn, read, emitted, header, out, logged>>

writeErrorFrame ==
    /\ pc = "faultFrame"
    /\ client # "stalled"
    /\ WriteChunk(FaultFrame(Dialect(req.path), emitted))
    /\ PumpReturns("timeout")
    /\ UNCHANGED <<req, env, conn, read, emitted, logged>>

\* Fault seeded in MayAnswer504: the committed flag is not looked at.
MayAnswer504_Always == pumpErr = "timeout"

MayAnswer504 == pumpErr = "timeout" /\ ~sr.committed

\* After the pump: a timeout becomes a 504 unless something was written.
\* The deferred conn.Close runs as the handler returns.
Reply ==
    /\ pc = "reply"
    /\ IF MayAnswer504
       THEN writeProxyError(504)
       ELSE UNCHANGED resp
    /\ conn' = "closed"
    /\ pc' = "log"
    /\ UNCHANGED <<req, env, read, emitted, pumpErr, logged>>

\* withRequestLog writes its line after the handler returned; net/http then
\* completes a response nothing was written to as an empty 200.
LogRequest ==
    /\ pc = "log"
    /\ logged' = sr.status
    /\ wire' = OnWire(200, header)
    /\ pc' = "done"
    /\ UNCHANGED <<req, env, conn, read, emitted, pumpErr, sr, header, out>>

----------------------------------------------------------------------------
(* The environment.                                                        *)

system == <<req, pc, conn, read, emitted, pumpErr, sr, header, wire, out, logged>>

ClientStalls  == /\ client = "reading" /\ client' = "stalled"
                 /\ UNCHANGED <<peer, sent, more, system>>
ClientResumes == /\ client = "stalled" /\ client' = "reading"
                 /\ UNCHANGED <<peer, sent, more, system>>
ClientLeaves  == /\ client # "gone" /\ client' = "gone"
                 /\ UNCHANGED <<peer, sent, more, system>>

UpstreamSends ==
    /\ peer = "up" /\ conn = "open"
    /\ Len(sent) < MaxFrames
    /\ \E k \in Kinds : sent' = Append(sent, k)
    /\ UNCHANGED <<client, peer, more, system>>

\* Messages after the recorded ones, as many as the upstream likes: neither
\* pump counts them, and neither ends a stream for their number.
UpstreamSendsOn ==
    /\ peer = "up" /\ conn = "open"
    /\ Len(sent) = MaxFrames
    /\ ~more
    /\ more' = TRUE
    /\ UNCHANGED <<client, peer, sent, system>>

UpstreamEnds ==
    /\ peer = "up" /\ conn = "open"
    /\ peer' \in {"closed", "reset"}
    /\ UNCHANGED <<client, sent, more, system>>

Environment == \/ ClientStalls \/ ClientResumes \/ ClientLeaves
               \/ UpstreamSends \/ UpstreamSendsOn \/ UpstreamEnds

Pump    == \/ ReadMessage \/ ReadEnds \/ ReadTimesOut
           \/ RelayFrame \/ RelayLater \/ RelayFails \/ writeErrorFrame
Handler == \/ Route \/ ReadBody \/ ReadBodyFails
           \/ Dial \/ DialFails \/ SendRequest \/ SendRequestFails
           \/ Pump \/ Reply \/ LogRequest

Next == Handler \/ Environment

Spec == Init /\ [][Next]_vars

\* Every blocking call of the handler has a deadline except the write to the
\* client, so the goroutine keeps moving: the server's ReadTimeout bounds the
\* body, ConnectTimeout the dial and the first write, IDLE_TIMEOUT each read.
\* Each chunk is flushed to the socket, so the writes to a client who left do
\* not succeed for ever.  No fairness is asked of the client or the upstream.
FairSpec == Spec /\ WF_vars(Handler) /\ SF_vars(RelayFails)

----------------------------------------------------------------------------
TypeOK ==
    /\ req \in Requests
    /\ pc \in {"route", "readBody", "dial", "writeBody", "pump", "relay",
               "faultFrame", "reply", "log", "done"}
    /\ client \in {"reading", "stalled", "gone"}
    /\ peer \in {"none", "up", "closed", "reset"}
    /\ conn \in {"none", "open", "closed"}
    /\ sent \in Seq(Kinds)
    /\ more \in BOOLEAN
    /\ read \in Nat
    /\ emitted \in Nat
    /\ pumpErr \in {"nil", "timeout", "write"}
    /\ sr \in [status : Statuses, committed : BOOLEAN]
    /\ header \in {"none", "json", "text", "sse"}
    /\ wire \in [status : {0} \cup Statuses, type : {"none", "json", "text", "sse"}]
    /\ out \in Seq(Chunks)
    /\ logged \in {0} \cup Statuses

(* The response as the abstract contract sees it.                          *)

Answered  == out # <<>> /\ out[Len(out)][1] \in Bodies
Faulted   == pumpErr = "timeout" /\ emitted > 0
respPhase == IF pc = "done" \/ Answered \/ Faulted THEN "ended"
             ELSE IF out # <<>> THEN "streaming" ELSE "pending"
respStatus == IF out = <<>> /\ pc # "done" THEN 0 ELSE wire.status

Contract == INSTANCE ResponseContract
            WITH phase <- respPhase, status <- respStatus, body <- out

\* Every behaviour of the handler is one the response contract allows: no
\* JSON error after a streamed frame, no frame skipped, repeated or reordered,
\* one fault frame at most and never as the first or before another chunk.
ImplementsContract == Contract!Spec

\* The log line reports the status the client was sent, on every path: a
\* second WriteHeader would change the recorder and not the wire.
LoggedStatusIsSent == pc = "done" => logged = wire.status

\* A status line goes out with the Content-Type of the body that follows it:
\* streamed chunks only under text/event-stream, proxy errors only under JSON
\* (setSSEHeaders runs before it is known whether anything will be streamed).
TypeMatchesBody ==
    out # <<>> => (wire.type = "sse" <=> out[1][1] \notin Bodies)

\* An upstream that goes quiet is never reported as a normal end: the client
\* gets a 504 if nothing was sent, else a fault frame in the dialect of its
\* route, numbered by the messages relayed, that closes the stream.
TimeoutIsReported ==
    pc = "done" /\ pumpErr = "timeout" =>
        IF emitted = 0 THEN wire.status = 504 /\ out = << <<"proxyError", 504>> >>
        ELSE out[Len(out)] = FaultFrame(Dialect(req.path), emitted)

\* On the typed-JSON routes nothing follows a terminal event, neither another
\* message nor the proxy's fault frame.
TerminalIsLast ==
    FrameMode(req.path) = "typedJSON" =>
        \A i \in 1..Len(out) :
            out[i][1] = "message" /\ sent[out[i][2]] = "terminal" => i = Len(out)

\* The WebSocket is released on every way out of the handler, and the request
\* is logged only after that.
ConnReleased == pc \in {"log", "done"} => conn # "open"

\* The upstream sends finitely many messages; or its messages never stop, but
\* the client leaves a route whose pump looks at the result of its writes.
StreamIsFinite == <>[][~UpstreamSendsOn]_vars
ClientGivesUp  == FrameMode(req.path) = "sseBytes" /\ <>(client = "gone")

\* Every request ends, whether the upstream answers, goes quiet, closes or
\* resets, unless the client stays connected and stops reading for good.  An
\* endless stream of messages is the other exception: pumpSSEBytes then ends
\* when the client leaves, pumpTypedJSON, which ignores the result of its
\* writes, not even then.
RequestEnds ==
    <>[](client # "stalled") /\ (StreamIsFinite \/ ClientGivesUp) => <>(pc = "done")

=============================================================================
