----------------------------- MODULE LogStream -----------------------------
(***************************************************************************)
(* What the logger of cc2ws promises its subscribers, without ring, mutex  *)
(* or channels: there is one log, and each subscriber walks it with a      *)
(* cursor.  A subscriber starts at most Cap entries before the end, then   *)
(* takes every entry in log order exactly once, or misses it; it misses an *)
(* entry only while Cap entries wait unread.  Logger implements this.      *)
(***************************************************************************)
EXTENDS Naturals, Sequences

CONSTANTS Cap,           \* the ring's capacity and the channels'
          Subscribers

VARIABLES log,           \* every entry ever emitted, in order
          member,        \* member[s]: "out", "in" or "left"
          cursor,        \* cursor[s]: the next position s is offered, while in
          stream,        \* stream[s]: the entries s was given, in order
          taken          \* taken[s]: how many of them s has read

vars == <<log, member, cursor, stream, taken>>

Init ==
    /\ log = <<>>
    /\ member = [s \in Subscribers |-> "out"]
    /\ cursor = [s \in Subscribers |-> 0]
    /\ stream = [s \in Subscribers |-> <<>>]
    /\ taken = [s \in Subscribers |-> 0]

\* Any one entry is added at the end.
Publish ==
    /\ Len(log') = Len(log) + 1
    /\ log' = Append(log, log'[Len(log) + 1])
    /\ UNCHANGED <<member, cursor, stream, taken>>

Join(s) ==
    /\ member[s] = "out"
    /\ member' = [member EXCEPT ![s] = "in"]
    /\ cursor' = [cursor EXCEPT ![s] =
                     IF Len(log) > Cap THEN Len(log) - Cap + 1 ELSE 1]
    /\ UNCHANGED <<log, stream, taken>>

Unread(s) == Len(stream[s]) - taken[s]

\* The entry under the cursor is given, or missed, and the cursor moves on.
Offer(s) ==
    /\ member[s] = "in"
    /\ cursor[s] <= Len(log)
    /\ \/ /\ Unread(s) < Cap
          /\ stream' = [stream EXCEPT ![s] = Append(@, log[cursor[s]])]
       \/ /\ Unread(s) = Cap
          /\ UNCHANGED stream
    /\ cursor' = [cursor EXCEPT ![s] = @ + 1]
    /\ UNCHANGED <<log, member, taken>>

Take(s) ==
    /\ Unread(s) > 0
    /\ taken' = [taken EXCEPT ![s] = @ + 1]
    /\ UNCHANGED <<log, member, cursor, stream>>

\* Leaving ends the walk for good; what was given may still be read.
Leave(s) ==
    /\ member[s] = "in"
    /\ cursor[s] > Len(log)
    /\ member' = [member EXCEPT ![s] = "left"]
    /\ cursor' = [cursor EXCEPT ![s] = 0]
    /\ UNCHANGED <<log, stream, taken>>

Next == \/ Publish
        \/ \E s \in Subscribers : Join(s) \/ Offer(s) \/ Take(s) \/ Leave(s)

Spec == Init /\ [][Next]_vars
=============================================================================
