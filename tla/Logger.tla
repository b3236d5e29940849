------------------------------- MODULE Logger -------------------------------
(***************************************************************************)
(* The process-wide logger (logger.go): a ring buffer of the last Cap      *)
(* entries and a set of subscriber channels, both under one mutex.         *)
(*                                                                         *)
(* Goroutines call logf at any time; an entry is stamped before the mutex  *)
(* is taken and pushed and fanned out while it is held.  Subscribers copy  *)
(* the ring into a new channel under the same mutex; they read the channel *)
(* without it, so reads interleave with every step of a fan-out.  An entry *)
(* is its time stamp.  logf calls below the level return at once and are   *)
(* left out.  Channels and the mutex are Go's.                             *)
(***************************************************************************)
EXTENDS Naturals, Sequences

CONSTANTS Emitters,       \* goroutines that log
          Subscribers,    \* calls of Subscribe, each with its own channel
          Nobody,         \* the holder of a free mutex
          Cap,            \* newLogger's ringCap (2000 in the program)
          MaxEntries      \* bound: entries ever stamped

ASSUME CapAssumption == Cap \in Nat \ {0}
ASSUME MaxEntriesAssumption == MaxEntries \in Nat
ASSUME ActorsAssumption == /\ Emitters \cap Subscribers = {}
                           /\ Nobody \notin Emitters \cup Subscribers

VARIABLES
    mu,        \* the holder of l.mu
    ring,      \* l.ring; an unused slot holds 0
    head,      \* l.head: the slot the next push writes
    count,     \* l.count
    subs,      \* l.subs
    dropped,   \* l.dropped: the channels whose flag is set
    chan,      \* chan[s]: the entries buffered in s's channel
    clock,     \* time.Now()
    pc,        \* pc[e]: "idle", "stamped" (waits for l.mu) or "fanout"
    entry,     \* entry[e]: the entry e is logging
    pending,   \* the subscribers the fan-out in progress has yet to reach
    phase,     \* phase[s]: "out", "filling" (inside Subscribe), "live", "left"
    fill,      \* fill[s]: what Subscribe has yet to send of its snapshot
    notices,   \* notices[s]: drop notices printed about s
    pushed,    \* history: every entry in the order of the pushes
    got        \* history: got[s] is what s has read from its channel

ringVars == <<ring, head, count>>
emitVars == <<clock, pc, entry, pending>>
vars == <<mu, ring, head, count, subs, dropped, chan, clock, pc, entry,
          pending, phase, fill, notices, pushed, got>>

Entries == 1..MaxEntries

Init ==
    /\ mu = Nobody
    /\ ring = [i \in 0..(Cap - 1) |-> 0]
    /\ head = 0
    /\ count = 0
    /\ subs = {}
    /\ dropped = {}
    /\ chan = [s \in Subscribers |-> <<>>]
    /\ clock = 0
    /\ pc = [e \in Emitters |-> "idle"]
    /\ entry = [e \in Emitters |-> 0]
    /\ pending = {}
    /\ phase = [s \in Subscribers |-> "out"]
    /\ fill = [s \in Subscribers |-> <<>>]
    /\ notices = [s \in Subscribers |-> 0]
    /\ pushed = <<>>
    /\ got = [s \in Subscribers |-> <<>>]

----------------------------------------------------------------------------
(* The ring.                                                               *)

\* Fault seeded in NextCount: the count runs past the capacity.
NextCount_Unbounded == count + 1

NextCount == IF count < Cap THEN count + 1 ELSE count

push(x) ==
    /\ ring' = [ring EXCEPT ![head] = x]
    /\ head' = (head + 1) % Cap
    /\ count' = NextCount

\* Fault seeded in Oldest: correct only until the ring wraps.
Oldest_NoWrap == 0

\* The slot of the oldest entry; Go's % needs the added capacity to stay
\* non-negative.
Oldest == (head + Cap - count) % Cap

snapshotLocked == [i \in 1..count |-> ring[(Oldest + i - 1) % Cap]]

----------------------------------------------------------------------------
(* logf and emit.                                                          *)

\* logf stamps the entry before emit asks for the mutex.
Stamp(e) ==
    /\ pc[e] = "idle"
    /\ clock < MaxEntries
    /\ clock' = clock + 1
    /\ entry' = [entry EXCEPT ![e] = clock + 1]
    /\ pc' = [pc EXCEPT ![e] = "stamped"]
    /\ UNCHANGED <<mu, ringVars, subs, dropped, chan, pending, phase, fill,
                   notices, pushed, got>>

EmitLock(e) ==
    /\ pc[e] = "stamped"
    /\ mu = Nobody
    /\ mu' = e
    /\ push(entry[e])
    /\ pushed' = Append(pushed, entry[e])
    /\ pending' = subs
    /\ pc' = [pc EXCEPT ![e] = "fanout"]
    /\ UNCHANGED <<subs, dropped, chan, clock, entry, phase, fill, notices, got>>

\* Capacity of the channel Subscribe makes; one slot short is a seeded fault.
ChanCap_OneShort == Cap - 1
ChanCap == Cap

Full(s) == Len(chan[s]) >= ChanCap

Send(s, x) == chan' = [chan EXCEPT ![s] = Append(@, x)]

\* Faults seeded in OfferTo: a plain blocking send; an entry that finds the
\* channel full replaces the one that waits longest; the flag is not set.
OfferTo_Blocking(s, x) == ~Full(s) /\ Send(s, x) /\ UNCHANGED <<dropped, notices>>
OfferTo_Evict(s, x) ==
    /\ IF Full(s) THEN chan' = [chan EXCEPT ![s] = Append(Tail(@), x)]
                  ELSE Send(s, x)
    /\ UNCHANGED <<dropped, notices>>
OfferTo_NoFlag(s, x) ==
    /\ IF Full(s) THEN notices' = [notices EXCEPT ![s] = @ + 1] /\ UNCHANGED chan
                  ELSE Send(s, x) /\ UNCHANGED notices
    /\ UNCHANGED dropped

\* The select with a default: a full channel loses the entry, and the first
\* loss is flagged and reported on stdout.
OfferTo(s, x) ==
    \/ /\ ~Full(s)
       /\ Send(s, x)
       /\ UNCHANGED <<dropped, notices>>
    \/ /\ Full(s)
       /\ dropped' = dropped \cup {s}
       /\ notices' = IF s \in dropped THEN notices
                     ELSE [notices EXCEPT ![s] = @ + 1]
       /\ UNCHANGED chan

\* Go ranges over the map in any order.
FanOut(e, s) ==
    /\ pc[e] = "fanout"
    /\ s \in pending
    /\ OfferTo(s, entry[e])
    /\ pending' = pending \ {s}
    /\ UNCHANGED <<mu, ringVars, subs, clock, pc, entry, phase, fill, pushed, got>>

EmitUnlock(e) ==
    /\ pc[e] = "fanout"
    /\ pending = {}
    /\ mu' = Nobody
    /\ pc' = [pc EXCEPT ![e] = "idle"]
    /\ UNCHANGED <<ringVars, subs, dropped, chan, clock, entry, pending, phase,
                   fill, notices, pushed, got>>

----------------------------------------------------------------------------
(* Subscribe, the channel's reader, and the unsubscribe closure.           *)

SubscribeLock(s) ==
    /\ phase[s] = "out"
    /\ mu = Nobody
    /\ mu' = s
    /\ fill' = [fill EXCEPT ![s] = snapshotLocked]
    /\ phase' = [phase EXCEPT ![s] = "filling"]
    /\ UNCHANGED <<ringVars, subs, dropped, chan, emitVars, notices, pushed, got>>

\* A blocking send, under the mutex, into a channel nobody reads yet.
Fill(s) ==
    /\ phase[s] = "filling"
    /\ fill[s] # <<>>
    /\ ~Full(s)
    /\ Send(s, Head(fill[s]))
    /\ fill' = [fill EXCEPT ![s] = Tail(@)]
    /\ UNCHANGED <<mu, ringVars, subs, dropped, emitVars, phase, notices, pushed, got>>

SubscribeUnlock(s) ==
    /\ phase[s] = "filling"
    /\ fill[s] = <<>>
    /\ subs' = subs \cup {s}
    /\ dropped' = dropped \ {s}
    /\ mu' = Nobody
    /\ phase' = [phase EXCEPT ![s] = "live"]
    /\ UNCHANGED <<ringVars, chan, emitVars, fill, notices, pushed, got>>

\* The reader may be arbitrarily slow; it needs no mutex.
Receive(s) ==
    /\ phase[s] \in {"live", "left"}
    /\ chan[s] # <<>>
    /\ got' = [got EXCEPT ![s] = Append(@, Head(chan[s]))]
    /\ chan' = [chan EXCEPT ![s] = Tail(@)]
    /\ UNCHANGED <<mu, ringVars, subs, dropped, emitVars, phase, fill, notices, pushed>>

Unsubscribe(s) ==
    /\ phase[s] = "live"
    /\ mu = Nobody
    /\ subs' = subs \ {s}
    /\ dropped' = dropped \ {s}
    /\ phase' = [phase EXCEPT ![s] = "left"]
    /\ UNCHANGED <<mu, ringVars, chan, emitVars, fill, notices, pushed, got>>

Next ==
    \/ \E e \in Emitters : \/ Stamp(e) \/ EmitLock(e) \/ EmitUnlock(e)
                           \/ \E s \in Subscribers : FanOut(e, s)
    \/ \E s \in Subscribers : \/ SubscribeLock(s) \/ Fill(s) \/ SubscribeUnlock(s)
                              \/ Receive(s) \/ Unsubscribe(s)

Spec == Init /\ [][Next]_vars

\* The runtime keeps running whoever holds the mutex and does not starve
\* whoever waits for it.  Nothing is assumed of the readers.
FairSpec ==
    /\ Spec
    /\ \A e \in Emitters : /\ SF_vars(EmitLock(e))
                           /\ WF_vars(EmitUnlock(e))
                           /\ \A s \in Subscribers : WF_vars(FanOut(e, s))
    /\ \A s \in Subscribers : WF_vars(Fill(s)) /\ WF_vars(SubscribeUnlock(s))

----------------------------------------------------------------------------
TypeOK ==
    /\ mu \in Emitters \cup Subscribers \cup {Nobody}
    /\ ring \in [0..(Cap - 1) -> Nat]
    /\ head \in 0..(Cap - 1)
    /\ count \in 0..Cap
    /\ subs \subseteq Subscribers
    /\ dropped \subseteq subs
    /\ chan \in [Subscribers -> Seq(Nat)]
    /\ clock \in Nat
    /\ pc \in [Emitters -> {"idle", "stamped", "fanout"}]
    /\ entry \in [Emitters -> Nat]
    /\ pending \subseteq subs
    /\ phase \in [Subscribers -> {"out", "filling", "live", "left"}]
    /\ fill \in [Subscribers -> Seq(Nat)]
    /\ notices \in [Subscribers -> Nat]
    /\ pushed \in Seq(Nat)
    /\ got \in [Subscribers -> Seq(Nat)]

\* The ring holds the last Cap entries pushed, oldest first, however often it
\* has wrapped.
SnapshotIsTail ==
    /\ count = IF Len(pushed) < Cap THEN Len(pushed) ELSE Cap
    /\ snapshotLocked =
           [i \in 1..count |-> pushed[Len(pushed) - count + i]]

\* What Subscribe still has to send fits into the channel, so its sends under
\* the mutex never wait for a reader that does not exist yet.
FillFits == \A s \in Subscribers :
    phase[s] = "filling" => Len(chan[s]) + Len(fill[s]) <= ChanCap

Delivered(s) == got[s] \o chan[s]
Position(x)  == CHOOSE i \in 1..Len(pushed) : pushed[i] = x

\* A live subscriber that lost entries is flagged, one notice tells of it, and
\* no other subscriber is flagged.
Lost(s) == Delivered(s) # <<>> /\
           Len(Delivered(s)) # Len(pushed) + 1 - Position(Delivered(s)[1])
GapIsFlagged == \A s \in subs \ pending :
    /\ Lost(s) <=> s \in dropped
    /\ notices[s] = IF s \in dropped THEN 1 ELSE 0

(* The logger as the abstract log sees it: a subscriber's cursor is where  *)
(* Subscribe or the fan-out has got to, and after it once both are done.   *)

absMember == [s \in Subscribers |-> IF phase[s] \in {"filling", "live"} THEN "in"
                                    ELSE phase[s]]
absCursor == [s \in Subscribers |->
                 CASE phase[s] = "filling" -> Len(pushed) - Len(fill[s]) + 1
                   [] phase[s] = "live"    -> IF s \in pending THEN Len(pushed)
                                              ELSE Len(pushed) + 1
                   [] OTHER                -> 0]
absStream == [s \in Subscribers |-> Delivered(s)]
absTaken  == [s \in Subscribers |-> Len(got[s])]

Stream == INSTANCE LogStream
          WITH log <- pushed, member <- absMember, cursor <- absCursor,
               stream <- absStream, taken <- absTaken

\* A subscriber sees the tail of the log at its subscription and then every
\* entry in push order, each at most once, and misses one only while Cap
\* entries wait in its channel.
ImplementsLogStream == Stream!Spec

\* Logging never waits for a subscriber: an entry that was stamped is pushed,
\* fanned out and its caller released, though no reader ever reads.
EmitCompletes == \A e \in Emitters : pc[e] # "idle" ~> pc[e] = "idle"

\* Subscribe returns although nobody reads the channel it fills.
SubscribeCompletes == \A s \in Subscribers : phase[s] = "filling" ~> phase[s] = "live"

=============================================================================
