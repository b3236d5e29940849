-------------------------- MODULE ResponseContract --------------------------
(***************************************************************************)
(* What a client of cc2ws is promised about one HTTP response, whatever    *)
(* the route, the upstream and the timing do:                              *)
(*                                                                         *)
(*   - either one self-contained body (a proxy error, the health document, *)
(*     a 404 or 405), sent under its own status and as the first and only  *)
(*     thing;                                                              *)
(*   - or a stream under status 200 whose chunks are the upstream messages *)
(*     1, 2, 3, ... in order and without a gap, followed by at most one    *)
(*     fault frame, which is the last chunk and never the first.           *)
(*                                                                         *)
(* The number of chunks is unbounded here; Proxy implements this module.   *)
(***************************************************************************)
EXTENDS Naturals, Sequences

CONSTANTS Bodies,      \* the self-contained bodies
          Statuses,    \* the statuses they may be sent under
          Faults(_)    \* Faults(n): the fault frames that may follow n messages

VARIABLES phase,       \* "pending", "streaming" or "ended"
          status,      \* 0 until the status line is sent
          body         \* the chunks handed to the client so far

vars == <<phase, status, body>>

\* A chunk is a tagged number: a body with its status, an upstream message
\* with its position, a fault frame with its sequence number.
Message(n) == <<"message", n>>

Init == phase = "pending" /\ status = 0 /\ body = <<>>

\* One self-contained body, only while nothing has been sent.
Answer(b, s) ==
    /\ phase = "pending"
    /\ phase' = "ended"
    /\ status' = s
    /\ body' = << <<b, s>> >>

\* The next upstream message, numbered by its position upstream.
Relay ==
    /\ phase \in {"pending", "streaming"}
    /\ phase' = "streaming"
    /\ status' = 200
    /\ body' = Append(body, Message(Len(body) + 1))

\* The proxy's own fault frame closes a stream that has begun.
Break ==
    /\ phase = "streaming"
    /\ phase' = "ended"
    /\ \E f \in Faults(Len(body)) : body' = Append(body, f)
    /\ UNCHANGED status

\* The stream ends with the upstream; an empty stream still has a status.
Finish ==
    /\ phase # "ended"
    /\ phase' = "ended"
    /\ status' = 200
    /\ UNCHANGED body

Next == \/ \E b \in Bodies, s \in Statuses : Answer(b, s)
        \/ Relay
        \/ Break
        \/ Finish

Spec == Init /\ [][Next]_vars
=============================================================================
