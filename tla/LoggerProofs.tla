---------------------------- MODULE LoggerProofs ----------------------------
(***************************************************************************)
(* Proofs about Logger, for every capacity, any number of goroutines and   *)
(* any number of entries.                                                  *)
(*                                                                         *)
(* The inductive invariant says who may hold the mutex at which point      *)
(* (MutexInv), that the ring is the tail of the log (RingInv), and what a  *)
(* channel and an unsent snapshot hold (ChanInv).                          *)
(***************************************************************************)
EXTENDS Logger, Integers, TLAPS

\* The holder of the mutex is the one whose position says so.
MutexInv ==
    /\ \A e \in Emitters : pc[e] = "fanout" <=> mu = e
    /\ \A s \in Subscribers : phase[s] = "filling" <=> mu = s
    /\ pending # {} => mu \in Emitters
    /\ \A s \in Subscribers : s \in subs <=> phase[s] = "live"

\* Before the first wrap the ring is filled from slot 0; the entries in it are
\* the last of the log.
Slot(i) == (Oldest + i - 1) % Cap
RingInv ==
    /\ count < Cap => head = count /\ Len(pushed) = count
    /\ count = Cap => Len(pushed) >= Cap
    /\ \A i \in 1..count : ring[Slot(i)] = pushed[Len(pushed) - count + i]

\* A channel holds at most Cap entries, nothing before Subscribe and the part
\* of the snapshot already sent during it; the rest of the snapshot is the end
\* of the log, and so is the entry being fanned out.
ChanInv ==
    /\ \A s \in Subscribers :
         /\ Len(chan[s]) <= Cap
         /\ phase[s] = "out" => chan[s] = <<>> /\ got[s] = <<>>
         /\ phase[s] = "filling" =>
              /\ Len(chan[s]) + Len(fill[s]) = count
              /\ \A i \in 1..Len(fill[s]) :
                    fill[s][i] = pushed[Len(pushed) - Len(fill[s]) + i]
    /\ \A e \in Emitters : pc[e] = "fanout" =>
         pushed # <<>> /\ entry[e] = pushed[Len(pushed)]

IInv == TypeOK /\ MutexInv /\ RingInv /\ ChanInv

----------------------------------------------------------------------------
(* The ring.                                                               *)

LEMMA Small == ASSUME NEW n \in Nat, n < Cap PROVE n % Cap = n
  BY CapAssumption, SMT

LEMMA Wrapped == ASSUME NEW n \in Nat, Cap <= n, n < 2 * Cap PROVE n % Cap = n - Cap
  BY CapAssumption, SMT

\* The slot of the i-th oldest of n entries when the next goes to slot h.
SlotOf(h, n, i) == IF n < Cap THEN i - 1
                   ELSE IF h + i - 1 < Cap THEN h + i - 1 ELSE h + i - 1 - Cap

LEMMA SlotArithmetic ==
    ASSUME NEW h \in 0..(Cap - 1), NEW n \in 0..Cap, n < Cap => h = n, NEW i \in 1..n
    PROVE  (((h + Cap - n) % Cap) + i - 1) % Cap = SlotOf(h, n, i)
<1> USE CapAssumption
<1>1. (h + Cap - n) % Cap = IF n < Cap THEN 0 ELSE h
  <2>1. CASE n < Cap
    <3>1. h + Cap - n = Cap /\ Cap % Cap = 0
      BY <2>1, Wrapped
    <3> QED
      BY <2>1, <3>1
  <2>2. CASE n = Cap
    <3>1. h + Cap - n = h /\ h % Cap = h
      BY <2>2, Small
    <3> QED
      BY <2>2, <3>1
  <2> QED
    BY <2>1, <2>2
<1> DEFINE m == ((h + Cap - n) % Cap) + i - 1
<1>2. m \in Nat /\ m < 2 * Cap /\ m = IF n < Cap THEN i - 1 ELSE h + i - 1
  BY <1>1
<1>3. m % Cap = IF m < Cap THEN m ELSE m - Cap
  <2> HIDE DEF m
  <2> QED
    BY <1>2, Small, Wrapped
<1> QED
  <2>1. m % Cap = SlotOf(h, n, i)
    <3> HIDE DEF m
    <3> QED
      BY <1>2, <1>3 DEF SlotOf
  <2> QED
    BY <2>1

LEMMA SlotIs ==
    ASSUME TypeOK, RingInv, NEW i \in 1..count
    PROVE  Slot(i) = SlotOf(head, count, i) /\ Slot(i) \in 0..(Cap - 1)
<1>1. /\ Cap \in Nat /\ Cap > 0 /\ head \in 0..(Cap - 1) /\ count \in 0..Cap
      /\ count < Cap => head = count
  BY CapAssumption DEF TypeOK, RingInv
<1>2. Slot(i) = SlotOf(head, count, i)
  BY <1>1, SlotArithmetic DEF Slot, Oldest
<1> QED
  BY <1>1, <1>2 DEF SlotOf

LEMMA SnapshotType ==
    ASSUME TypeOK, RingInv
    PROVE  snapshotLocked \in Seq(Nat) /\ Len(snapshotLocked) = count
<1>1. ASSUME NEW i \in 1..count PROVE ring[(Oldest + i - 1) % Cap] \in Nat
  <2>1. Slot(i) \in 0..(Cap - 1)
    BY <1>1, SlotIs
  <2>2. ring \in [0..(Cap - 1) -> Nat]
    BY DEF TypeOK
  <2> QED
    BY <2>1, <2>2 DEF Slot
<1> QED
  BY <1>1 DEF snapshotLocked, TypeOK

\* A push keeps the ring the tail of the log.
LEMMA RingPush ==
    ASSUME TypeOK, RingInv, NEW x \in Nat, push(x), pushed' = Append(pushed, x)
    PROVE  /\ RingInv' /\ ring' \in [0..(Cap - 1) -> Nat]
           /\ head' \in 0..(Cap - 1) /\ count' \in 0..Cap
<1>1. /\ Cap \in Nat /\ Cap > 0 /\ head \in 0..(Cap - 1) /\ count \in 0..Cap
      /\ count < Cap => head = count /\ Len(pushed) = count
      /\ count = Cap => Len(pushed) >= Cap
      /\ ring \in [0..(Cap - 1) -> Nat] /\ pushed \in Seq(Nat)
  BY CapAssumption DEF TypeOK, RingInv
<1>2. \A i \in 1..count : /\ ring[SlotOf(head, count, i)] = pushed[Len(pushed) - count + i]
                          /\ SlotOf(head, count, i) \in 0..(Cap - 1)
  BY SlotIs DEF RingInv
<1>3. /\ ring' = [ring EXCEPT ![head] = x]
      /\ head' = IF head + 1 < Cap THEN head + 1 ELSE 0
      /\ count' = IF count < Cap THEN count + 1 ELSE count
  <2>1. (head + 1) % Cap = IF head + 1 < Cap THEN head + 1 ELSE 0
    BY <1>1, Small, Wrapped
  <2> QED
    BY <2>1 DEF push, NextCount
<1>4. /\ head' \in 0..(Cap - 1) /\ count' \in 0..Cap
      /\ count' < Cap => head' = count' /\ Len(pushed') = count'
      /\ count' = Cap => Len(pushed') >= Cap
      /\ Len(pushed') = Len(pushed) + 1
      /\ \A j \in 1..Len(pushed) : pushed'[j] = pushed[j]
      /\ pushed'[Len(pushed) + 1] = x
  BY <1>1, <1>3
<1>5. ASSUME NEW i \in 1..count'
      PROVE  ring'[SlotOf(head', count', i)] = pushed'[Len(pushed') - count' + i]
  <2>1. CASE i = count'
    <3>1. SlotOf(head', count', i) = head
      BY <1>1, <1>3, <2>1 DEF SlotOf
    <3> QED
      BY <1>1, <1>3, <1>4, <2>1, <3>1
  <2>2. CASE i < count' /\ count < Cap
    <3>1. SlotOf(head', count', i) = SlotOf(head, count, i) /\ i \in 1..count
          /\ SlotOf(head, count, i) # head
      BY <1>1, <1>3, <2>2 DEF SlotOf
    <3>2. ring'[SlotOf(head, count, i)] = pushed[Len(pushed) - count + i]
      BY <1>1, <1>2, <1>3, <3>1
    <3>3. /\ Len(pushed) - count + i \in 1..Len(pushed)
          /\ Len(pushed') - count' + i = Len(pushed) - count + i
      BY <1>1, <1>3, <1>4, <2>2, <3>1
    <3> QED
      BY <1>4, <3>1, <3>2, <3>3
  <2>3. CASE i < count' /\ count = Cap
    <3>1. SlotOf(head', count', i) = SlotOf(head, count, i + 1) /\ i + 1 \in 1..count
          /\ SlotOf(head, count, i + 1) # head
      BY <1>1, <1>3, <2>3 DEF SlotOf
    <3>2. ring'[SlotOf(head, count, i + 1)] = pushed[Len(pushed) - count + (i + 1)]
      BY <1>1, <1>2, <1>3, <3>1
    <3>3. /\ Len(pushed) - count + (i + 1) \in 1..Len(pushed)
          /\ Len(pushed') - count' + i = Len(pushed) - count + (i + 1)
      BY <1>1, <1>3, <1>4, <2>3, <3>1
    <3> QED
      BY <1>4, <3>1, <3>2, <3>3
  <2>4. i \in Nat /\ i <= count' /\ count' \in Nat /\ (count < Cap \/ count = Cap)
    BY <1>1, <1>4
  <2>5. i = count' \/ i < count'
    BY <2>4
  <2> QED
    BY <2>1, <2>2, <2>3, <2>4, <2>5
<1>6. \A i \in 1..count' : Slot(i)' = SlotOf(head', count', i)
  BY <1>4, SlotArithmetic DEF Slot, Oldest
<1> QED
  BY <1>1, <1>3, <1>4, <1>5, <1>6 DEF RingInv

----------------------------------------------------------------------------
(* Types and the mutex.                                                    *)

LEMMA TypeStep == TypeOK /\ MutexInv /\ RingInv /\ [Next]_vars => TypeOK'
<1> SUFFICES ASSUME TypeOK, MutexInv, RingInv, [Next]_vars PROVE TypeOK'
  OBVIOUS
<1> USE DEF TypeOK
<1>1. ASSUME NEW e \in Emitters, Stamp(e) PROVE TypeOK'
  BY <1>1 DEF Stamp, ringVars
<1>2. ASSUME NEW e \in Emitters, EmitLock(e) PROVE TypeOK'
  <2>1. /\ ring' \in [0..(Cap - 1) -> Nat]
        /\ head' \in 0..(Cap - 1) /\ count' \in 0..Cap
    BY <1>2, RingPush DEF EmitLock
  <2> QED
    BY <1>2, <2>1 DEF EmitLock
<1>3. ASSUME NEW e \in Emitters, EmitUnlock(e) PROVE TypeOK'
  BY <1>3 DEF EmitUnlock, ringVars
<1>4. ASSUME NEW e \in Emitters, NEW s \in Subscribers, FanOut(e, s) PROVE TypeOK'
  <2>0. entry[e] \in Nat /\ chan[s] \in Seq(Nat)
    OBVIOUS
  <2>1. chan' \in [Subscribers -> Seq(Nat)] /\ notices' \in [Subscribers -> Nat]
    <3>1. Append(chan[s], entry[e]) \in Seq(Nat)
      BY <2>0
    <3>2. CASE Send(s, entry[e]) /\ UNCHANGED notices
      BY <3>1, <3>2 DEF Send
    <3>3. CASE UNCHANGED <<chan, notices>>
      BY <3>3
    <3>4. CASE UNCHANGED chan /\ notices' = [notices EXCEPT ![s] = notices[s] + 1]
      <4>1. notices[s] + 1 \in Nat
        OBVIOUS
      <4> QED
        BY <3>4, <4>1
    <3>5. \/ Send(s, entry[e]) /\ UNCHANGED notices
          \/ UNCHANGED <<chan, notices>>
          \/ UNCHANGED chan /\ notices' = [notices EXCEPT ![s] = notices[s] + 1]
      <4> HIDE DEF TypeOK
      <4> QED
        BY <1>4 DEF FanOut, OfferTo
    <3> QED
      BY <3>2, <3>3, <3>4, <3>5
  <2>2. dropped' \subseteq subs /\ pending' \subseteq subs
    BY <1>4 DEF FanOut, OfferTo
  <2> QED
    BY <1>4, <2>1, <2>2 DEF FanOut, ringVars
<1>5. ASSUME NEW s \in Subscribers, SubscribeLock(s) PROVE TypeOK'
  <2>1. fill' \in [Subscribers -> Seq(Nat)]
    BY <1>5, SnapshotType DEF SubscribeLock
  <2> QED
    BY <1>5, <2>1 DEF SubscribeLock, ringVars, emitVars
<1>6. ASSUME NEW s \in Subscribers, Fill(s) PROVE TypeOK'
  <2>1. fill[s] \in Seq(Nat) /\ fill[s] # <<>>
    BY <1>6 DEF Fill
  <2>2. Head(fill[s]) \in Nat /\ Tail(fill[s]) \in Seq(Nat)
    BY <2>1
  <2>3. Append(chan[s], Head(fill[s])) \in Seq(Nat)
    BY <2>2
  <2>4. chan' \in [Subscribers -> Seq(Nat)]
    BY <1>6, <2>3 DEF Fill, Send
  <2>5. fill' \in [Subscribers -> Seq(Nat)]
    BY <1>6, <2>2 DEF Fill
  <2> QED
    BY <1>6, <2>4, <2>5 DEF Fill, ringVars, emitVars
<1>7. ASSUME NEW s \in Subscribers, SubscribeUnlock(s) PROVE TypeOK'
  BY <1>7 DEF SubscribeUnlock, ringVars, emitVars
<1>8. ASSUME NEW s \in Subscribers, Receive(s) PROVE TypeOK'
  <2>1. chan[s] \in Seq(Nat) /\ chan[s] # <<>>
    BY <1>8 DEF Receive
  <2>2. Head(chan[s]) \in Nat /\ Tail(chan[s]) \in Seq(Nat)
    BY <2>1
  <2> QED
    BY <1>8, <2>2 DEF Receive, ringVars, emitVars
<1>9. ASSUME NEW s \in Subscribers, Unsubscribe(s) PROVE TypeOK'
  <2>1. pending = {}
    BY <1>9, ActorsAssumption DEF Unsubscribe, MutexInv
  <2> QED
    BY <1>9, <2>1 DEF Unsubscribe, ringVars, emitVars
<1>10. CASE UNCHANGED vars
  BY <1>10 DEF vars
<1> QED
  BY <1>1, <1>2, <1>3, <1>4, <1>5, <1>6, <1>7, <1>8, <1>9, <1>10 DEF Next

LEMMA MutexStep == TypeOK /\ MutexInv /\ [Next]_vars => MutexInv'
<1> SUFFICES ASSUME TypeOK, MutexInv, [Next]_vars PROVE MutexInv'
  OBVIOUS
<1> USE ActorsAssumption DEF TypeOK, MutexInv
<1>1. ASSUME NEW e \in Emitters, Stamp(e) PROVE MutexInv'
  BY <1>1 DEF Stamp
<1>2. ASSUME NEW e \in Emitters, EmitLock(e) PROVE MutexInv'
  BY <1>2 DEF EmitLock
<1>3. ASSUME NEW e \in Emitters, EmitUnlock(e) PROVE MutexInv'
  BY <1>3 DEF EmitUnlock
<1>4. ASSUME NEW e \in Emitters, NEW s \in Subscribers, FanOut(e, s) PROVE MutexInv'
  BY <1>4 DEF FanOut
<1>5. ASSUME NEW s \in Subscribers, SubscribeLock(s) PROVE MutexInv'
  BY <1>5 DEF SubscribeLock, emitVars
<1>6. ASSUME NEW s \in Subscribers, Fill(s) \/ Receive(s) PROVE MutexInv'
  BY <1>6 DEF Fill, Receive, emitVars
<1>7. ASSUME NEW s \in Subscribers, SubscribeUnlock(s) PROVE MutexInv'
  BY <1>7 DEF SubscribeUnlock, emitVars
<1>8. ASSUME NEW s \in Subscribers, Unsubscribe(s) PROVE MutexInv'
  BY <1>8 DEF Unsubscribe, emitVars
<1>9. CASE UNCHANGED vars
  BY <1>9 DEF vars
<1> QED
  BY <1>1, <1>2, <1>3, <1>4, <1>5, <1>6, <1>7, <1>8, <1>9 DEF Next

LEMMA RingStep == TypeOK /\ RingInv /\ [Next]_vars => RingInv'
<1> SUFFICES ASSUME TypeOK, RingInv, [Next]_vars PROVE RingInv'
  OBVIOUS
<1>1. ASSUME NEW e \in Emitters, EmitLock(e) PROVE RingInv'
  BY <1>1, RingPush DEF EmitLock, TypeOK
<1>2. CASE UNCHANGED <<ring, head, count, pushed>>
  BY <1>2 DEF RingInv, Slot, Oldest
<1>3. ASSUME NEW e \in Emitters, NEW s \in Subscribers, FanOut(e, s) PROVE RingInv'
  BY <1>2, <1>3 DEF FanOut, ringVars
<1>4. ASSUME NEW e \in Emitters, Stamp(e) \/ EmitUnlock(e) PROVE RingInv'
  BY <1>2, <1>4 DEF Stamp, EmitUnlock, ringVars
<1>5. ASSUME NEW s \in Subscribers,
             \/ SubscribeLock(s) \/ Fill(s) \/ SubscribeUnlock(s)
             \/ Receive(s) \/ Unsubscribe(s)
      PROVE  RingInv'
  BY <1>2, <1>5 DEF SubscribeLock, Fill, SubscribeUnlock, Receive, Unsubscribe, ringVars
<1>6. CASE UNCHANGED vars
  BY <1>2, <1>6 DEF vars
<1> QED
  BY <1>1, <1>3, <1>4, <1>5, <1>6 DEF Next

----------------------------------------------------------------------------
(* The channels.                                                           *)

LEMMA ChanStep == TypeOK /\ MutexInv /\ RingInv /\ ChanInv /\ [Next]_vars => ChanInv'
<1> SUFFICES ASSUME TypeOK, MutexInv, RingInv, ChanInv, [Next]_vars PROVE ChanInv'
  OBVIOUS
<1> USE DEF TypeOK, ChanInv
<1>1. ASSUME NEW e \in Emitters, Stamp(e) PROVE ChanInv'
  BY <1>1 DEF Stamp, ringVars
<1>2. ASSUME NEW e \in Emitters, EmitLock(e) PROVE ChanInv'
  <2>1. \A s \in Subscribers : phase[s] # "filling"
    BY <1>2, ActorsAssumption DEF EmitLock, MutexInv
  <2>2. \A d \in Emitters : pc[d] # "fanout"
    BY <1>2, ActorsAssumption DEF EmitLock, MutexInv
  <2>3. pushed' # <<>> /\ entry'[e] = pushed'[Len(pushed')]
    <3>1. pushed \in Seq(Nat) /\ entry[e] \in Nat
      OBVIOUS
    <3>2. pushed' = Append(pushed, entry[e]) /\ entry' = entry
      BY <1>2 DEF EmitLock
    <3> HIDE DEF TypeOK, ChanInv
    <3> QED
      BY <3>1, <3>2
  <2> QED
    BY <1>2, <2>1, <2>2, <2>3 DEF EmitLock
<1>3. ASSUME NEW e \in Emitters, EmitUnlock(e) PROVE ChanInv'
  BY <1>3 DEF EmitUnlock, ringVars
<1>4. ASSUME NEW e \in Emitters, NEW s \in Subscribers, FanOut(e, s) PROVE ChanInv'
  <2>1. phase[s] = "live"
    BY <1>4 DEF FanOut, MutexInv
  <2>2. Len(chan'[s]) <= Cap /\ \A t \in Subscribers : t # s => chan'[t] = chan[t]
    <3>1. CASE UNCHANGED chan
      BY <3>1
    <3>2. CASE ~Full(s) /\ Send(s, entry[e])
      BY <3>2, CapAssumption DEF Full, ChanCap, Send
    <3> QED
      BY <1>4, <3>1, <3>2 DEF FanOut, OfferTo
  <2>3. UNCHANGED <<count, pc, entry, phase, fill, pushed, got>>
    BY <1>4 DEF FanOut, ringVars
  <2> QED
    BY <2>1, <2>2, <2>3
<1>5. ASSUME NEW s \in Subscribers, SubscribeLock(s) PROVE ChanInv'
  <2>1. /\ phase' = [phase EXCEPT ![s] = "filling"] /\ chan[s] = <<>>
        /\ fill' = [fill EXCEPT ![s] = snapshotLocked]
        /\ UNCHANGED <<count, pc, entry, pushed, chan, got>>
    BY <1>5 DEF SubscribeLock, ringVars, emitVars
  <2>2. Len(snapshotLocked) = count
    BY SnapshotType
  <2>3. \A i \in 1..count : snapshotLocked[i] = pushed[Len(pushed) - count + i]
    BY DEF RingInv, snapshotLocked, Slot
  <2> QED
    BY <2>1, <2>2, <2>3
<1>6. ASSUME NEW s \in Subscribers, Fill(s) PROVE ChanInv'
  <2> DEFINE f == fill[s]
  <2>1. /\ f \in Seq(Nat) /\ f # <<>> /\ phase[s] = "filling" /\ Len(chan[s]) < Cap
        /\ chan[s] \in Seq(Nat) /\ Len(chan[s]) + Len(f) = count
        /\ UNCHANGED <<count, pc, entry, phase, pushed, got>>
    BY <1>6, CapAssumption DEF Fill, Full, ChanCap, ringVars, emitVars
  <2>2. /\ chan' = [chan EXCEPT ![s] = Append(@, Head(f))]
        /\ fill' = [fill EXCEPT ![s] = Tail(f)]
    BY <1>6 DEF Fill, Send
  <2>3. Len(chan'[s]) = Len(chan[s]) + 1 /\ Len(fill'[s]) = Len(f) - 1
        /\ \A i \in 1..(Len(f) - 1) : fill'[s][i] = f[i + 1]
    BY <2>1, <2>2
  <2>4. \A i \in 1..(Len(f) - 1) :
            fill'[s][i] = pushed[Len(pushed) - (Len(f) - 1) + i]
    <3> TAKE i \in 1..(Len(f) - 1)
    <3>1. i + 1 \in 1..Len(f) /\ Len(pushed) - Len(f) + (i + 1) = Len(pushed) - (Len(f) - 1) + i
      BY <2>1
    <3>2. f[i + 1] = pushed[Len(pushed) - Len(f) + (i + 1)]
      BY <2>1, <3>1
    <3> QED
      BY <2>3, <3>1, <3>2
  <2>5. Len(chan'[s]) <= Cap /\ Len(chan'[s]) + Len(fill'[s]) = count
    <3> HIDE DEF TypeOK, ChanInv
    <3>1. Len(chan[s]) \in Nat /\ Len(f) \in Nat /\ Cap \in Nat
      BY <2>1, CapAssumption
    <3> HIDE DEF f
    <3> QED
      BY <2>1, <2>3, <3>1
  <2>6. \A i \in 1..Len(fill'[s]) : fill'[s][i] = pushed[Len(pushed) - Len(fill'[s]) + i]
    <3> HIDE DEF TypeOK, ChanInv
    <3> QED
      BY <2>3, <2>4
  <2>7. \A t \in Subscribers : t # s => chan'[t] = chan[t] /\ fill'[t] = fill[t]
    BY <2>2
  <2>8. ASSUME NEW t \in Subscribers
        PROVE  /\ Len(chan'[t]) <= Cap
               /\ phase[t] = "out" => chan'[t] = <<>> /\ got[t] = <<>>
               /\ phase[t] = "filling" =>
                    /\ Len(chan'[t]) + Len(fill'[t]) = count
                    /\ \A i \in 1..Len(fill'[t]) :
                          fill'[t][i] = pushed[Len(pushed) - Len(fill'[t]) + i]
    <3>1. CASE t = s
      <4> HIDE DEF TypeOK, ChanInv, f
      <4> QED
        BY <2>1, <2>5, <2>6, <3>1
    <3>2. CASE t # s
      <4>1. chan'[t] = chan[t] /\ fill'[t] = fill[t]
        BY <2>7, <3>2
      <4>2. /\ Len(chan[t]) <= Cap
            /\ phase[t] = "out" => chan[t] = <<>> /\ got[t] = <<>>
            /\ phase[t] = "filling" =>
                 /\ Len(chan[t]) + Len(fill[t]) = count
                 /\ \A i \in 1..Len(fill[t]) :
                       fill[t][i] = pushed[Len(pushed) - Len(fill[t]) + i]
        OBVIOUS
      <4> HIDE DEF TypeOK, MutexInv, RingInv, ChanInv, f
      <4> QED
        BY <4>1, <4>2, ZenonT(30)
    <3> QED
      BY <3>1, <3>2
  <2> QED
    BY <2>1, <2>8
<1>7. ASSUME NEW s \in Subscribers, SubscribeUnlock(s) PROVE ChanInv'
  BY <1>7 DEF SubscribeUnlock, ringVars, emitVars
<1>8. ASSUME NEW s \in Subscribers, Receive(s) PROVE ChanInv'
  <2>1. /\ phase[s] \in {"live", "left"} /\ chan[s] \in Seq(Nat) /\ chan[s] # <<>>
        /\ chan' = [chan EXCEPT ![s] = Tail(chan[s])]
        /\ \A t \in Subscribers : t # s => got'[t] = got[t]
        /\ UNCHANGED <<count, pc, entry, phase, fill, pushed>>
    BY <1>8 DEF Receive, ringVars, emitVars
  <2>2. Len(Tail(chan[s])) <= Cap
    BY <2>1, CapAssumption
  <2> QED
    BY <2>1, <2>2
<1>9. ASSUME NEW s \in Subscribers, Unsubscribe(s) PROVE ChanInv'
  BY <1>9 DEF Unsubscribe, ringVars, emitVars
<1>10. CASE UNCHANGED vars
  BY <1>10 DEF vars
<1> QED
  BY <1>1, <1>2, <1>3, <1>4, <1>5, <1>6, <1>7, <1>8, <1>9, <1>10 DEF Next

----------------------------------------------------------------------------
LEMMA InitInv == Init => IInv
<1> SUFFICES ASSUME Init PROVE IInv
  OBVIOUS
<1> USE CapAssumption, ActorsAssumption DEF Init
<1>1. TypeOK
  BY DEF TypeOK
<1>2. MutexInv
  BY DEF MutexInv
<1>3. RingInv
  BY DEF RingInv
<1>4. ChanInv
  BY DEF ChanInv
<1> QED
  BY <1>1, <1>2, <1>3, <1>4 DEF IInv

THEOREM Invariance == Spec => []IInv
<1>1. IInv /\ [Next]_vars => IInv'
  BY TypeStep, MutexStep, RingStep, ChanStep DEF IInv
<1> QED
  BY <1>1, InitInv, PTL DEF Spec

\* Every variable stays in its type; in particular the fan-out in progress is
\* only ever to members of l.subs, and only members are flagged.
THEOREM TypeCorrect == Spec => []TypeOK
<1>1. IInv => TypeOK
  BY DEF IInv
<1> QED
  BY <1>1, Invariance, PTL

\* The snapshot is the tail of the log, for every capacity and however often
\* the ring has wrapped.
THEOREM RingIsTail == Spec => []SnapshotIsTail
<1>1. IInv => SnapshotIsTail
  <2> SUFFICES ASSUME IInv PROVE SnapshotIsTail
    OBVIOUS
  <2>1. count = IF Len(pushed) < Cap THEN Len(pushed) ELSE Cap
    BY CapAssumption DEF IInv, TypeOK, RingInv
  <2>2. \A i \in 1..count : ring[(Oldest + i - 1) % Cap] = pushed[Len(pushed) - count + i]
    BY DEF IInv, RingInv, Slot
  <2>3. snapshotLocked = [i \in 1..count |-> pushed[Len(pushed) - count + i]]
    BY <2>2 DEF snapshotLocked
  <2> QED
    BY <2>1, <2>3 DEF SnapshotIsTail
<1> QED
  BY <1>1, Invariance, PTL

\* Subscribe never blocks under the mutex: what is left of the snapshot fits.
THEOREM FillNeverBlocks == Spec => []FillFits
<1>1. IInv => FillFits
  BY CapAssumption DEF IInv, TypeOK, ChanInv, FillFits, ChanCap
<1> QED
  BY <1>1, Invariance, PTL

----------------------------------------------------------------------------
(* Logger implements LogStream.                                            *)

\* Moving the head of one sequence to the end of the other keeps their join.
LEMMA MoveHead ==
    ASSUME NEW a \in Seq(Nat), NEW b \in Seq(Nat), b # <<>>
    PROVE  Append(a, Head(b)) \o Tail(b) = a \o b
<1> DEFINE l == Append(a, Head(b)) \o Tail(b)
<1>1. l \in Seq(Nat) /\ a \o b \in Seq(Nat) /\ Len(l) = Len(a \o b)
  OBVIOUS
<1>2. \A i \in 1..Len(l) : l[i] = (a \o b)[i]
  OBVIOUS
<1> QED
  BY <1>1, <1>2

LEMMA AppendRight ==
    ASSUME NEW a \in Seq(Nat), NEW b \in Seq(Nat), NEW x \in Nat
    PROVE  a \o Append(b, x) = Append(a \o b, x)
<1> DEFINE l == a \o Append(b, x)
           r == Append(a \o b, x)
<1>1. l \in Seq(Nat) /\ r \in Seq(Nat) /\ Len(l) = Len(r)
  OBVIOUS
<1>2. \A i \in 1..Len(l) : l[i] = r[i]
  OBVIOUS
<1> QED
  BY <1>1, <1>2

\* Steps that neither push nor move an entry are none of the abstract log.
LEMMA StutterRefines ==
    ASSUME TypeOK, UNCHANGED <<pushed, got, chan, phase, fill>>,
           \A s \in Subscribers : phase[s] = "live" => (s \in pending <=> s \in pending')
    PROVE  UNCHANGED Stream!vars
  BY DEF Stream!vars, absMember, absCursor, absStream, absTaken, Delivered

\* A push publishes: nobody is being filled, and every member's cursor, which
\* was after the end, is at the new entry.
LEMMA PublishRefines ==
    ASSUME IInv, NEW e \in Emitters, EmitLock(e) PROVE Stream!Publish
<1> USE DEF IInv, TypeOK
<1>1. /\ pushed' = Append(pushed, entry[e]) /\ pending' = subs
      /\ UNCHANGED <<chan, phase, fill, got>>
  BY DEF EmitLock
<1>2. /\ \A s \in Subscribers : phase[s] # "filling"
      /\ \A s \in Subscribers : phase[s] = "live" => s \notin pending /\ s \in pending'
  BY <1>1, ActorsAssumption DEF EmitLock, MutexInv
<1>3. Len(pushed') = Len(pushed) + 1 /\ pushed' = Append(pushed, pushed'[Len(pushed) + 1])
  BY <1>1
<1>4. absCursor' = absCursor
  <2> HIDE DEF IInv, TypeOK
  <2> QED
    BY <1>1, <1>2, <1>3 DEF absCursor
<1>5. UNCHANGED <<absMember, absStream, absTaken>>
  BY <1>1 DEF absMember, absStream, absTaken, Delivered
<1> QED
  BY <1>3, <1>4, <1>5 DEF Stream!Publish

LEMMA JoinRefines ==
    ASSUME IInv, NEW s \in Subscribers, SubscribeLock(s) PROVE Stream!Join(s)
<1> USE DEF IInv, TypeOK
<1>1. /\ phase[s] = "out" /\ phase' = [phase EXCEPT ![s] = "filling"]
      /\ fill' = [fill EXCEPT ![s] = snapshotLocked]
      /\ UNCHANGED <<pushed, pending, chan, got>>
  BY DEF SubscribeLock, ringVars, emitVars
<1>2. Len(pushed) - Len(snapshotLocked) + 1 =
          IF Len(pushed) > Cap THEN Len(pushed) - Cap + 1 ELSE 1
  <2>1. Len(snapshotLocked) = count /\ count \in 0..Cap /\ Len(pushed) \in Nat
    BY SnapshotType
  <2>2. /\ count < Cap => Len(pushed) = count
        /\ count = Cap => Len(pushed) >= Cap
    BY DEF RingInv
  <2> HIDE DEF IInv, TypeOK
  <2> QED
    BY <2>1, <2>2, CapAssumption
<1>3. absCursor' = [absCursor EXCEPT ![s] =
                       IF Len(pushed) > Cap THEN Len(pushed) - Cap + 1 ELSE 1]
  BY <1>1, <1>2 DEF absCursor
<1>4. absMember[s] = "out" /\ absMember' = [absMember EXCEPT ![s] = "in"]
  BY <1>1 DEF absMember
<1>5. UNCHANGED <<absStream, absTaken>>
  BY <1>1 DEF absStream, absTaken, Delivered
<1> QED
  BY <1>1, <1>3, <1>4, <1>5 DEF Stream!Join

\* Sending a snapshot's next entry offers it, and there is room for it.
LEMMA FillRefines ==
    ASSUME IInv, NEW s \in Subscribers, Fill(s) PROVE Stream!Offer(s)
<1> USE DEF IInv, TypeOK
<1> DEFINE f == fill[s]
           n == Len(pushed) - Len(f) + 1
<1>1. /\ phase[s] = "filling" /\ f \in Seq(Nat) /\ f # <<>> /\ chan[s] \in Seq(Nat)
      /\ got[s] \in Seq(Nat) /\ Len(chan[s]) < Cap
      /\ chan' = [chan EXCEPT ![s] = Append(chan[s], Head(f))]
      /\ fill' = [fill EXCEPT ![s] = Tail(f)]
      /\ UNCHANGED <<pushed, pending, phase, got>>
  BY CapAssumption DEF Fill, Full, ChanCap, Send, ringVars, emitVars
<1>2. Head(f) = pushed[n] /\ n <= Len(pushed)
  <2>1. f[1] = pushed[Len(pushed) - Len(f) + 1]
    BY <1>1 DEF ChanInv
  <2> QED
    BY <1>1, <2>1
<1>3. absMember[s] = "in" /\ absCursor[s] = n
  BY <1>1 DEF absMember, absCursor
<1>4. absCursor' = [absCursor EXCEPT ![s] = absCursor[s] + 1]
  <2>1. Len(pushed) - Len(Tail(f)) + 1 = n + 1
    BY <1>1
  <2> QED
    BY <1>1, <1>3, <2>1 DEF absCursor
<1>5. absStream' = [absStream EXCEPT ![s] = Append(absStream[s], pushed[n])]
  <2>1. got[s] \o Append(chan[s], Head(f)) = Append(got[s] \o chan[s], pushed[n])
    <3>1. Head(f) \in Nat
      BY <1>1
    <3>2. chan[s] \in Seq(Nat) /\ got[s] \in Seq(Nat)
      BY <1>1
    <3> HIDE DEF IInv, TypeOK, f, n
    <3>3. got[s] \o Append(chan[s], Head(f)) = Append(got[s] \o chan[s], Head(f))
      BY <3>1, <3>2, AppendRight
    <3> QED
      BY <1>2, <3>3
  <2> QED
    BY <1>1, <2>1 DEF absStream, Delivered
<1>6. Len(absStream[s]) - absTaken[s] < Cap
  BY <1>1 DEF absStream, absTaken, Delivered
<1>7. UNCHANGED <<pushed, absMember, absTaken>>
  BY <1>1 DEF absMember, absTaken
<1> HIDE DEF n
<1> QED
  BY <1>2, <1>3, <1>4, <1>5, <1>6, <1>7 DEF Stream!Offer, Stream!Unread

\* The fan-out offers the last entry to a live subscriber, who takes it or has
\* Cap entries waiting.
LEMMA FanOutRefines ==
    ASSUME IInv, NEW e \in Emitters, NEW s \in Subscribers, FanOut(e, s)
    PROVE  Stream!Offer(s)
<1> USE DEF IInv, TypeOK
<1>1. /\ s \in pending /\ pending' = pending \ {s} /\ phase[s] = "live"
      /\ UNCHANGED <<pushed, phase, fill, got>>
      /\ chan[s] \in Seq(Nat) /\ got[s] \in Seq(Nat) /\ entry[e] \in Nat
  BY DEF FanOut, MutexInv
<1>2. entry[e] = pushed[Len(pushed)] /\ Len(chan[s]) <= Cap
  BY DEF FanOut, ChanInv
<1>3. absMember[s] = "in" /\ absCursor[s] = Len(pushed)
  BY <1>1 DEF absMember, absCursor
<1>4. absCursor' = [absCursor EXCEPT ![s] = absCursor[s] + 1]
  <2> HIDE DEF IInv, TypeOK
  <2> QED
    BY <1>1, <1>3 DEF absCursor
<1>5. UNCHANGED <<absMember, absTaken>>
  BY <1>1 DEF absMember, absTaken
<1>6. Len(absStream[s]) - absTaken[s] = Len(chan[s])
  BY <1>1 DEF absStream, absTaken, Delivered
<1>7. CASE ~Full(s) /\ Send(s, entry[e])
  <2>1. got[s] \o Append(chan[s], entry[e]) = Append(got[s] \o chan[s], entry[e])
    BY <1>1, AppendRight
  <2>2. chan' = [chan EXCEPT ![s] = Append(chan[s], entry[e])]
    BY <1>7 DEF Send
  <2>3. absStream' = [absStream EXCEPT ![s] = Append(absStream[s], pushed[Len(pushed)])]
    BY <1>1, <1>2, <2>1, <2>2 DEF absStream, Delivered
  <2>4. Len(chan[s]) < Cap
    BY <1>1, <1>7, CapAssumption DEF Full, ChanCap
  <2>5. absCursor[s] <= Len(pushed)
    BY <1>3
  <2> QED
    BY <1>1, <1>3, <1>4, <1>5, <1>6, <2>3, <2>4, <2>5 DEF Stream!Offer, Stream!Unread
<1>8. CASE Full(s) /\ UNCHANGED chan
  <2>1. absStream' = absStream
    BY <1>1, <1>8 DEF absStream, Delivered
  <2>2. Len(chan[s]) = Cap
    BY <1>1, <1>2, <1>8, CapAssumption DEF Full, ChanCap
  <2>3. absCursor[s] <= Len(pushed)
    BY <1>3
  <2> QED
    BY <1>1, <1>3, <1>4, <1>5, <1>6, <2>1, <2>2, <2>3 DEF Stream!Offer, Stream!Unread
<1> QED
  BY <1>7, <1>8 DEF FanOut, OfferTo

LEMMA TakeRefines ==
    ASSUME IInv, NEW s \in Subscribers, Receive(s) PROVE Stream!Take(s)
<1> USE DEF IInv, TypeOK
<1>1. /\ chan[s] \in Seq(Nat) /\ chan[s] # <<>> /\ got[s] \in Seq(Nat)
      /\ got' = [got EXCEPT ![s] = Append(got[s], Head(chan[s]))]
      /\ chan' = [chan EXCEPT ![s] = Tail(chan[s])]
      /\ UNCHANGED <<pushed, pending, phase, fill>>
  BY DEF Receive, ringVars, emitVars
<1>2. absStream' = absStream
  <2>1. Append(got[s], Head(chan[s])) \o Tail(chan[s]) = got[s] \o chan[s]
    BY <1>1, MoveHead
  <2> QED
    BY <1>1, <2>1 DEF absStream, Delivered
<1>3. absTaken' = [absTaken EXCEPT ![s] = absTaken[s] + 1]
  <2>1. Len(got'[s]) = Len(got[s]) + 1
    <3>1. got'[s] = Append(got[s], Head(chan[s])) /\ Head(chan[s]) \in Nat
      BY <1>1
    <3> QED
      BY <1>1, <3>1
  <2>2. \A t \in Subscribers : t # s => got'[t] = got[t]
    BY <1>1
  <2> HIDE DEF IInv, TypeOK
  <2> QED
    BY <2>1, <2>2 DEF absTaken
<1>4. Len(absStream[s]) - absTaken[s] > 0
  BY <1>1 DEF absStream, absTaken, Delivered
<1>5. UNCHANGED <<absMember, absCursor>>
  BY <1>1 DEF absMember, absCursor
<1> QED
  BY <1>1, <1>2, <1>3, <1>4, <1>5 DEF Stream!Take, Stream!Unread

LEMMA LeaveRefines ==
    ASSUME IInv, NEW s \in Subscribers, Unsubscribe(s) PROVE Stream!Leave(s)
<1> USE DEF IInv, TypeOK
<1>1. /\ phase[s] = "live" /\ phase' = [phase EXCEPT ![s] = "left"]
      /\ UNCHANGED <<pushed, pending, fill, chan, got>> /\ pending = {}
  BY ActorsAssumption DEF Unsubscribe, MutexInv, ringVars, emitVars
<1>2. absMember[s] = "in" /\ absMember' = [absMember EXCEPT ![s] = "left"]
  BY <1>1 DEF absMember
<1>3. absCursor[s] > Len(pushed) /\ absCursor' = [absCursor EXCEPT ![s] = 0]
  <2>1. absCursor[s] = Len(pushed) + 1 /\ Len(pushed) \in Nat
    BY <1>1 DEF absCursor
  <2>2. phase'[s] = "left" /\ \A t \in Subscribers : t # s => phase'[t] = phase[t]
    BY <1>1
  <2> HIDE DEF IInv, TypeOK
  <2>3. absCursor' = [absCursor EXCEPT ![s] = 0]
    BY <1>1, <2>2 DEF absCursor
  <2> QED
    BY <2>1, <2>3
<1>4. UNCHANGED <<absStream, absTaken>>
  BY <1>1 DEF absStream, absTaken, Delivered
<1> QED
  BY <1>1, <1>2, <1>3, <1>4 DEF Stream!Leave

\* The end of Subscribe moves nothing: nobody is fanning out.
LEMMA SubscribedRefines ==
    ASSUME IInv, NEW s \in Subscribers, SubscribeUnlock(s) PROVE UNCHANGED Stream!vars
<1> USE DEF IInv, TypeOK
<1>1. /\ phase[s] = "filling" /\ fill[s] = <<>> /\ phase' = [phase EXCEPT ![s] = "live"]
      /\ UNCHANGED <<pushed, pending, fill, chan, got>>
  BY DEF SubscribeUnlock, ringVars, emitVars
<1>2. pending = {}
  BY <1>1, ActorsAssumption DEF MutexInv
<1>3. absCursor' = absCursor
  BY <1>1, <1>2 DEF absCursor
<1>4. UNCHANGED <<absMember, absStream, absTaken>>
  BY <1>1 DEF absMember, absStream, absTaken, Delivered
<1> QED
  BY <1>1, <1>3, <1>4 DEF Stream!vars

LEMMA StepRefines == IInv /\ [Next]_vars => [Stream!Next]_Stream!vars
<1> SUFFICES ASSUME IInv, [Next]_vars PROVE Stream!Next \/ UNCHANGED Stream!vars
  OBVIOUS
<1>1. ASSUME NEW e \in Emitters, Stamp(e) \/ EmitUnlock(e) PROVE UNCHANGED Stream!vars
  BY <1>1, StutterRefines DEF IInv, Stamp, EmitUnlock
<1>2. ASSUME NEW e \in Emitters, EmitLock(e) PROVE Stream!Next
  BY <1>2, PublishRefines DEF Stream!Next
<1>3. ASSUME NEW e \in Emitters, NEW s \in Subscribers, FanOut(e, s) PROVE Stream!Next
  BY <1>3, FanOutRefines DEF Stream!Next
<1>4. ASSUME NEW s \in Subscribers,
             SubscribeLock(s) \/ Fill(s) \/ Receive(s) \/ Unsubscribe(s)
      PROVE  Stream!Next
  BY <1>4, JoinRefines, FillRefines, TakeRefines, LeaveRefines DEF Stream!Next
<1>5. ASSUME NEW s \in Subscribers, SubscribeUnlock(s) PROVE UNCHANGED Stream!vars
  BY <1>5, SubscribedRefines
<1>6. CASE UNCHANGED vars
  BY <1>6, StutterRefines DEF IInv, vars
<1> QED
  BY <1>1, <1>2, <1>3, <1>4, <1>5, <1>6 DEF Next

\* A subscriber sees the tail of the log and then every entry in order, once,
\* or misses it only while Cap entries wait: for every capacity and any number
\* of goroutines.
THEOREM Refinement == Spec => ImplementsLogStream
<1>1. Init => Stream!Init
  BY DEF Init, Stream!Init, absMember, absCursor, absStream, absTaken, Delivered
<1> QED
  BY <1>1, StepRefines, Invariance, PTL DEF Spec, ImplementsLogStream, Stream!Spec

----------------------------------------------------------------------------
(* Losses.                                                                 *)

\* Every entry is stamped once and pushed once.
UniqueInv ==
    /\ \A i \in 1..Len(pushed) : pushed[i] \in 1..clock
    /\ \A i, j \in 1..Len(pushed) : pushed[i] = pushed[j] => i = j
    /\ \A e \in Emitters : pc[e] = "stamped" =>
         /\ entry[e] \in 1..clock
         /\ \A i \in 1..Len(pushed) : pushed[i] # entry[e]
         /\ \A d \in Emitters : pc[d] = "stamped" /\ entry[d] = entry[e] => d = e

\* What a subscriber was given starts at some entry of the log; from there to
\* its cursor it has everything, and has less exactly if it is flagged.
FromTo(s, p) ==
    /\ Delivered(s)[1] = pushed[p]
    /\ IF s \in dropped THEN Len(Delivered(s)) < absCursor[s] - p
                        ELSE Len(Delivered(s)) = absCursor[s] - p
Flagging(s) ==
    /\ phase[s] = "out" => notices[s] = 0
    /\ phase[s] \in {"filling", "live"} =>
         /\ notices[s] = IF s \in dropped THEN 1 ELSE 0
         /\ s \in dropped => Delivered(s) # <<>>
         /\ Delivered(s) # <<>> => \E p \in 1..Len(pushed) : FromTo(s, p)
GapInv == \A s \in Subscribers : Flagging(s)

LEMMA UniqueStep == TypeOK /\ UniqueInv /\ [Next]_vars => UniqueInv'
<1> SUFFICES ASSUME TypeOK, UniqueInv, [Next]_vars PROVE UniqueInv'
  OBVIOUS
<1>0. clock \in Nat /\ pushed \in Seq(Nat) /\ Len(pushed) \in Nat
  BY DEF TypeOK
<1>1. ASSUME UNCHANGED <<pushed, clock, entry>>,
             \A e \in Emitters : pc'[e] = "stamped" => pc[e] = "stamped"
      PROVE  UniqueInv'
  BY <1>1 DEF UniqueInv
<1>2. ASSUME NEW e \in Emitters, Stamp(e) PROVE UniqueInv'
  <2>1. /\ clock' = clock + 1 /\ pushed' = pushed /\ entry'[e] = clock + 1
        /\ \A d \in Emitters : d # e => entry'[d] = entry[d] /\ pc'[d] = pc[d]
    BY <1>2 DEF Stamp, TypeOK
  <2> QED
    BY <1>0, <2>1 DEF UniqueInv
<1>3. ASSUME NEW e \in Emitters, EmitLock(e) PROVE UniqueInv'
  <2>1. /\ pushed' = Append(pushed, entry[e]) /\ clock' = clock /\ entry' = entry
        /\ pc[e] = "stamped" /\ pc'[e] = "fanout"
        /\ \A d \in Emitters : d # e => pc'[d] = pc[d]
    BY <1>3 DEF EmitLock, TypeOK
  <2>2. entry[e] \in 1..clock /\ entry[e] \in Nat
    BY <2>1 DEF UniqueInv, TypeOK
  <2>3. /\ Len(pushed') = Len(pushed) + 1 /\ pushed'[Len(pushed) + 1] = entry[e]
        /\ \A i \in 1..Len(pushed) : pushed'[i] = pushed[i]
    BY <1>0, <2>1, <2>2
  <2>4. \A i \in 1..Len(pushed) : pushed[i] # entry[e]
    BY <2>1 DEF UniqueInv
  <2>5. /\ \A i \in 1..Len(pushed') : pushed'[i] \in 1..clock
        /\ \A i, j \in 1..Len(pushed') : pushed'[i] = pushed'[j] => i = j
    <3>1. \A i \in 1..Len(pushed') : i \in 1..Len(pushed) \/ i = Len(pushed) + 1
      BY <1>0, <2>3
    <3>2. /\ \A i \in 1..Len(pushed) : pushed[i] \in 1..clock
          /\ \A i, j \in 1..Len(pushed) : pushed[i] = pushed[j] => i = j
      BY DEF UniqueInv
    <3>3. \A i \in 1..Len(pushed') : pushed'[i] \in 1..clock
      BY <2>2, <2>3, <3>1, <3>2
    <3>4. ASSUME NEW i \in 1..Len(pushed'), NEW j \in 1..Len(pushed'), pushed'[i] = pushed'[j]
          PROVE  i = j
      BY <2>3, <2>4, <3>1, <3>2, <3>4
    <3> QED
      BY <3>3, <3>4
  <2>6. ASSUME NEW d \in Emitters, pc'[d] = "stamped"
        PROVE  /\ entry[d] \in 1..clock
               /\ \A i \in 1..Len(pushed') : pushed'[i] # entry[d]
               /\ \A c \in Emitters : pc'[c] = "stamped" /\ entry[c] = entry[d] => c = d
    BY <1>0, <2>1, <2>3, <2>6 DEF UniqueInv
  <2> QED
    BY <2>1, <2>5, <2>6 DEF UniqueInv
<1>4. ASSUME NEW e \in Emitters, EmitUnlock(e) PROVE UniqueInv'
  BY <1>1, <1>4 DEF EmitUnlock, TypeOK
<1>5. ASSUME NEW e \in Emitters, NEW s \in Subscribers, FanOut(e, s) PROVE UniqueInv'
  BY <1>1, <1>5 DEF FanOut
<1>6. ASSUME NEW s \in Subscribers,
             \/ SubscribeLock(s) \/ Fill(s) \/ SubscribeUnlock(s)
             \/ Receive(s) \/ Unsubscribe(s)
      PROVE  UniqueInv'
  BY <1>1, <1>6 DEF SubscribeLock, Fill, SubscribeUnlock, Receive, Unsubscribe, emitVars
<1>7. CASE UNCHANGED vars
  BY <1>1, <1>7 DEF vars
<1> QED
  BY <1>2, <1>3, <1>4, <1>5, <1>6, <1>7 DEF Next

LEMMA StreamType ==
    ASSUME TypeOK, NEW s \in Subscribers
    PROVE  /\ Delivered(s) \in Seq(Nat) /\ absStream[s] = Delivered(s)
           /\ phase[s] \in {"filling", "live"} => absCursor[s] \in Int
           /\ pushed \in Seq(Nat)
  BY DEF TypeOK, Delivered, absStream, absCursor

\* A subscriber to whom nothing happens is still flagged as it should be, however
\* much is pushed.
LEMMA FlaggingKept ==
    ASSUME TypeOK, NEW s \in Subscribers, Flagging(s),
           Delivered(s)' = Delivered(s), absCursor'[s] = absCursor[s],
           s \in dropped' <=> s \in dropped, notices'[s] = notices[s],
           phase'[s] = "out" => phase[s] = "out",
           phase'[s] \in {"filling", "live"} => phase[s] \in {"filling", "live"},
           Len(pushed') \in Nat, Len(pushed) <= Len(pushed'),
           \A i \in 1..Len(pushed) : pushed'[i] = pushed[i]
    PROVE  Flagging(s)'
<1>1. Len(pushed) \in Nat
  BY DEF TypeOK
<1>2. ASSUME NEW p \in 1..Len(pushed), FromTo(s, p)
      PROVE  p \in 1..Len(pushed') /\ FromTo(s, p)'
  BY <1>1, <1>2 DEF FromTo
<1> QED
  BY <1>2 DEF Flagging

LEMMA AppendFirst ==
    ASSUME NEW a \in Seq(Nat), NEW x \in Nat
    PROVE  /\ Append(a, x) # <<>> /\ Len(Append(a, x)) = Len(a) + 1
           /\ a # <<>> => Append(a, x)[1] = a[1]
           /\ a = <<>> => Append(a, x)[1] = x /\ Len(Append(a, x)) = 1
  OBVIOUS

\* Given the entry under its cursor, it has everything since its first, as before,
\* or still less.
LEMMA FlaggingGiven ==
    ASSUME TypeOK, NEW s \in Subscribers, Flagging(s), phase[s] \in {"filling", "live"},
           absCursor[s] \in 1..Len(pushed), absCursor'[s] = absCursor[s] + 1,
           Delivered(s)' = Append(Delivered(s), pushed[absCursor[s]]),
           UNCHANGED <<dropped, notices, phase, pushed>>
    PROVE  Flagging(s)'
<1> DEFINE D == Delivered(s)
<1>0. PICK k \in 1..Len(pushed) : k = absCursor[s]
  OBVIOUS
<1>1. D \in Seq(Nat) /\ pushed \in Seq(Nat) /\ k \in Int /\ pushed[k] \in Nat
  BY <1>0, StreamType
<1>2. /\ Delivered(s)' # <<>> /\ Len(Delivered(s)') = Len(D) + 1
      /\ D # <<>> => Delivered(s)'[1] = D[1]
      /\ D = <<>> => Delivered(s)'[1] = pushed[k] /\ Len(Delivered(s)') = 1
  <2> HIDE DEF D
  <2>1. Delivered(s)' = Append(D, pushed[k])
    BY <1>0 DEF D
  <2> QED
    BY <1>1, <2>1, AppendFirst
<1>3. CASE D = <<>>
  <2>1. s \notin dropped
    BY <1>3 DEF Flagging
  <2>2. FromTo(s, k)'
    BY <1>0, <1>1, <1>2, <1>3, <2>1 DEF FromTo
  <2> QED
    BY <1>2, <2>1, <2>2 DEF Flagging
<1>4. CASE D # <<>>
  <2>1. PICK p \in 1..Len(pushed) : FromTo(s, p)
    BY <1>4 DEF Flagging
  <2>2. Len(D) \in Nat /\ p \in Int
    BY <1>1
  <2>3. FromTo(s, p)'
    <3>1. /\ D[1] = pushed[p] /\ Len(D) \in Nat
          /\ IF s \in dropped THEN Len(D) < absCursor[s] - p ELSE Len(D) = absCursor[s] - p
      BY <2>1, <2>2 DEF FromTo
    <3>2. absCursor'[s] = k + 1 /\ absCursor[s] = k /\ Delivered(s)'[1] = D[1]
      BY <1>0, <1>2, <1>4
    <3> HIDE DEF D
    <3> QED
      BY <1>1, <1>2, <2>2, <3>1, <3>2 DEF FromTo
  <2> QED
    BY <1>2, <2>1, <2>3 DEF Flagging
<1> QED
  BY <1>3, <1>4

\* Missing it, the subscriber is flagged and has less.
LEMMA FlaggingMissed ==
    ASSUME TypeOK, NEW s \in Subscribers, Flagging(s), phase[s] = "live",
           Delivered(s) # <<>>, absCursor'[s] = absCursor[s] + 1,
           Delivered(s)' = Delivered(s), dropped' = dropped \cup {s},
           notices' = IF s \in dropped THEN notices ELSE [notices EXCEPT ![s] = @ + 1],
           UNCHANGED <<phase, pushed>>
    PROVE  Flagging(s)'
<1>1. PICK p \in 1..Len(pushed) : FromTo(s, p)
  BY DEF Flagging
<1>2. Len(Delivered(s)) \in Nat /\ absCursor[s] \in Int /\ p \in Int
  BY StreamType
<1>3. FromTo(s, p)'
  BY <1>1, <1>2 DEF FromTo
<1>4. notices'[s] = 1
  BY DEF Flagging, TypeOK
<1> QED
  BY <1>1, <1>3, <1>4 DEF Flagging

\* The logger's steps do to a subscriber's stream and cursor what they do in
\* LogStream, and set the flag exactly when an entry is missed.
LEMMA GapStep == IInv /\ GapInv /\ [Next]_vars => GapInv'
<1> SUFFICES ASSUME IInv, GapInv, [Next]_vars, NEW t \in Subscribers PROVE Flagging(t)'
  BY DEF GapInv
<1>0. TypeOK /\ Flagging(t) /\ pushed \in Seq(Nat) /\ Len(pushed) \in Nat
  BY DEF IInv, GapInv, TypeOK
<1>1. ASSUME UNCHANGED Stream!vars, UNCHANGED <<dropped, notices>>,
             phase'[t] = "out" => phase[t] = "out",
             phase'[t] \in {"filling", "live"} => phase[t] \in {"filling", "live"}
      PROVE  Flagging(t)'
  <2>1. Delivered(t)' = Delivered(t) /\ absCursor'[t] = absCursor[t] /\ pushed' = pushed
    BY <1>1 DEF Stream!vars, absStream
  <2> QED
    BY <1>0, <1>1, <2>1, FlaggingKept
<1>2. ASSUME NEW e \in Emitters, Stamp(e) \/ EmitUnlock(e) PROVE Flagging(t)'
  <2>1. UNCHANGED Stream!vars
    BY <1>2, StutterRefines DEF IInv, Stamp, EmitUnlock
  <2> QED
    BY <1>1, <1>2, <2>1 DEF Stamp, EmitUnlock
<1>3. ASSUME NEW e \in Emitters, EmitLock(e) PROVE Flagging(t)'
  <2>1. /\ Len(pushed') = Len(pushed) + 1
        /\ \A i \in 1..Len(pushed) : pushed'[i] = pushed[i]
    <3>1. pushed' = Append(pushed, entry[e]) /\ entry[e] \in Nat
      BY <1>0, <1>3 DEF EmitLock, TypeOK
    <3> QED
      BY <1>0, <3>1
  <2>2. absCursor' = absCursor /\ absStream' = absStream
    BY <1>3, PublishRefines DEF Stream!Publish
  <2>3. Delivered(t)' = Delivered(t)
    BY <2>2 DEF absStream
  <2> QED
    BY <1>0, <1>3, <2>1, <2>2, <2>3, FlaggingKept DEF EmitLock
<1>4. ASSUME NEW s \in Subscribers, Stream!Offer(s), s # t,
             phase' = phase, t \in dropped' <=> t \in dropped, notices'[t] = notices[t]
      PROVE  Flagging(t)'
  <2>1. absCursor'[t] = absCursor[t] /\ absStream'[t] = absStream[t] /\ pushed' = pushed
    BY <1>4 DEF Stream!Offer, absCursor, absStream
  <2>2. Delivered(t)' = Delivered(t)
    BY <2>1 DEF absStream
  <2> QED
    BY <1>0, <1>4, <2>1, <2>2, FlaggingKept
<1>5. ASSUME NEW e \in Emitters, NEW s \in Subscribers, FanOut(e, s) PROVE Flagging(t)'
  <2>1. /\ Stream!Offer(s) /\ phase' = phase /\ phase[s] = "live" /\ s \in pending
        /\ UNCHANGED <<pushed, got>>
    BY <1>5, FanOutRefines DEF FanOut, IInv, TypeOK, MutexInv
  <2>2. CASE s # t
    <3>1. (t \in dropped' <=> t \in dropped) /\ notices'[t] = notices[t]
      BY <1>0, <1>5, <2>2 DEF FanOut, OfferTo, TypeOK
    <3> QED
      BY <1>4, <2>1, <2>2, <3>1
  <2>3. CASE s = t
    <3>1. /\ absCursor[t] = Len(pushed) /\ absCursor'[t] = absCursor[t] + 1
          /\ entry[e] = pushed[Len(pushed)] /\ Len(pushed) \in 1..Len(pushed)
      <4>1. absCursor[t] = Len(pushed)
        BY <2>1, <2>3 DEF absCursor
      <4>2. absCursor'[t] = absCursor[t] + 1
        BY <2>1, <2>3 DEF Stream!Offer, absCursor
      <4>3. pushed # <<>> /\ entry[e] = pushed[Len(pushed)]
        BY <1>5 DEF IInv, ChanInv, FanOut
      <4> QED
        BY <1>0, <4>1, <4>2, <4>3
    <3>2. chan[t] \in Seq(Nat) /\ got[t] \in Seq(Nat) /\ entry[e] \in Nat
      BY <1>0 DEF TypeOK
    <3>3. CASE Send(s, entry[e]) /\ UNCHANGED <<dropped, notices>>
      <4>1. Delivered(t)' = Append(Delivered(t), pushed[absCursor[t]])
        <5>1. chan'[t] = Append(chan[t], entry[e])
          BY <1>0, <2>3, <3>3 DEF Send, TypeOK
        <5>2. got[t] \o Append(chan[t], entry[e]) = Append(got[t] \o chan[t], entry[e])
          BY <3>2, AppendRight
        <5> QED
          BY <2>1, <3>1, <5>1, <5>2 DEF Delivered
      <4> QED
        BY <1>0, <2>1, <2>3, <3>1, <3>3, <4>1, FlaggingGiven
    <3>4. CASE /\ Full(s) /\ UNCHANGED chan /\ dropped' = dropped \cup {s}
               /\ notices' = IF s \in dropped THEN notices
                             ELSE [notices EXCEPT ![s] = @ + 1]
      <4>1. Delivered(t)' = Delivered(t)
        BY <2>1, <3>4 DEF Delivered
      <4>2. Delivered(t) # <<>>
        <5>1. Len(chan[t]) > 0
          BY <2>3, <3>2, <3>4, CapAssumption DEF Full, ChanCap
        <5> QED
          BY <3>2, <5>1 DEF Delivered
      <4> QED
        BY <1>0, <2>1, <2>3, <3>1, <3>4, <4>1, <4>2, FlaggingMissed
    <3> QED
      BY <1>5, <3>3, <3>4 DEF FanOut, OfferTo
  <2> QED
    BY <2>2, <2>3
<1>6. ASSUME NEW s \in Subscribers, SubscribeLock(s) PROVE Flagging(t)'
  <2>1. /\ phase[s] = "out" /\ phase' = [phase EXCEPT ![s] = "filling"]
        /\ UNCHANGED <<dropped, notices, chan, got, pushed>> /\ dropped \subseteq subs
        /\ Delivered(t)' = Delivered(t)
    BY <1>0, <1>6 DEF SubscribeLock, TypeOK, Delivered
  <2>2. CASE s = t
    <3>1. Delivered(t) = <<>> /\ t \notin dropped
      BY <1>0, <2>1, <2>2 DEF IInv, TypeOK, MutexInv, ChanInv, Delivered
    <3> QED
      BY <1>0, <2>1, <2>2, <3>1 DEF Flagging, TypeOK
  <2>3. CASE s # t
    <3>1. absCursor'[t] = absCursor[t]
      BY <1>6, <2>3, JoinRefines DEF Stream!Join, absCursor
    <3> QED
      BY <1>0, <2>1, <2>3, <3>1, FlaggingKept DEF TypeOK
  <2> QED
    BY <2>2, <2>3
<1>7. ASSUME NEW s \in Subscribers, Fill(s) PROVE Flagging(t)'
  <2>1. /\ Stream!Offer(s) /\ UNCHANGED <<dropped, notices, phase, pushed, got>>
        /\ phase[s] = "filling"
    BY <1>7, FillRefines DEF Fill
  <2>2. CASE s = t
    <3>1. /\ fill[t] \in Seq(Nat) /\ fill[t] # <<>> /\ chan[t] \in Seq(Nat)
          /\ got[t] \in Seq(Nat) /\ Len(fill[t]) <= Len(pushed)
          /\ fill[t][1] = pushed[Len(pushed) - Len(fill[t]) + 1]
      <4>1. fill[t] \in Seq(Nat) /\ fill[t] # <<>> /\ chan[t] \in Seq(Nat) /\ got[t] \in Seq(Nat)
        BY <1>0, <1>7, <2>2 DEF Fill, TypeOK
      <4>2. Len(fill[t]) <= count /\ fill[t][1] = pushed[Len(pushed) - Len(fill[t]) + 1]
        BY <2>1, <2>2, <4>1 DEF IInv, TypeOK, ChanInv
      <4>3. count <= Len(pushed)
        BY <1>0, CapAssumption DEF IInv, TypeOK, RingInv
      <4> QED
        BY <1>0, <4>1, <4>2, <4>3 DEF TypeOK
    <3>2. absCursor[t] = Len(pushed) - Len(fill[t]) + 1 /\ absCursor[t] \in 1..Len(pushed)
      <4>1. absCursor[t] = Len(pushed) - Len(fill[t]) + 1
        BY <2>1, <2>2 DEF absCursor
      <4>2. Len(fill[t]) \in Nat /\ Len(fill[t]) # 0
        BY <3>1
      <4> QED
        BY <1>0, <3>1, <4>1, <4>2
    <3>3. absCursor'[t] = absCursor[t] + 1
      BY <2>1, <2>2 DEF Stream!Offer, absCursor
    <3>4. Delivered(t)' = Append(Delivered(t), pushed[absCursor[t]])
      <4>1. chan'[t] = Append(chan[t], Head(fill[t])) /\ Head(fill[t]) = fill[t][1]
            /\ Head(fill[t]) \in Nat
        BY <1>0, <1>7, <2>2, <3>1 DEF Fill, Send, TypeOK
      <4>2. got[t] \o Append(chan[t], Head(fill[t])) = Append(got[t] \o chan[t], Head(fill[t]))
        BY <3>1, <4>1, AppendRight
      <4> QED
        BY <2>1, <3>1, <3>2, <4>1, <4>2 DEF Delivered
    <3> QED
      BY <1>0, <2>1, <2>2, <3>2, <3>3, <3>4, FlaggingGiven
  <2>3. CASE s # t
    BY <1>4, <2>1, <2>3
  <2> QED
    BY <2>2, <2>3
<1>8. ASSUME NEW s \in Subscribers, SubscribeUnlock(s) PROVE Flagging(t)'
  <2>1. UNCHANGED Stream!vars
    BY <1>8, SubscribedRefines
  <2>2. /\ dropped' = dropped /\ notices' = notices /\ phase[s] = "filling"
        /\ phase' = [phase EXCEPT ![s] = "live"]
    BY <1>0, <1>8 DEF SubscribeUnlock, IInv, TypeOK, MutexInv
  <2> QED
    BY <1>0, <1>1, <2>1, <2>2 DEF TypeOK
<1>9. ASSUME NEW s \in Subscribers, Receive(s) PROVE Flagging(t)'
  <2>1. absCursor' = absCursor /\ absStream' = absStream
    BY <1>9, TakeRefines DEF Stream!Take
  <2>2. Delivered(t)' = Delivered(t)
    BY <2>1 DEF absStream
  <2> QED
    BY <1>0, <1>9, <2>1, <2>2, FlaggingKept DEF Receive
<1>10. ASSUME NEW s \in Subscribers, Unsubscribe(s) PROVE Flagging(t)'
  <2>1. /\ phase' = [phase EXCEPT ![s] = "left"] /\ dropped' = dropped \ {s}
        /\ UNCHANGED <<notices, pushed, chan, got>> /\ Delivered(t)' = Delivered(t)
    BY <1>10 DEF Unsubscribe, Delivered
  <2>2. CASE s = t
    BY <1>0, <2>1, <2>2 DEF Flagging, TypeOK
  <2>3. CASE s # t
    <3>1. absCursor'[t] = absCursor[t]
      BY <1>10, <2>3, LeaveRefines DEF Stream!Leave, absCursor
    <3>2. phase'[t] = phase[t] /\ (t \in dropped' <=> t \in dropped)
      BY <1>0, <2>1, <2>3 DEF TypeOK
    <3> QED
      BY <1>0, <2>1, <3>1, <3>2, FlaggingKept
  <2> QED
    BY <2>2, <2>3
<1>11. CASE UNCHANGED vars
  <2>1. UNCHANGED Stream!vars
    BY <1>11, StutterRefines DEF IInv, vars
  <2> QED
    BY <1>1, <1>11, <2>1 DEF vars
<1> QED
  BY <1>2, <1>3, <1>5, <1>6, <1>7, <1>8, <1>9, <1>10, <1>11 DEF Next

\* A subscriber that misses an entry is flagged and told of once, and one that
\* misses none is not, for every capacity and whatever the readers' pace.
THEOREM GapsAreFlagged == Spec => []GapIsFlagged
<1>1. Init => UniqueInv /\ GapInv
  BY DEF Init, UniqueInv, GapInv, Flagging
<1>2. IInv => TypeOK
  BY DEF IInv
<1>3. ASSUME IInv, UniqueInv, GapInv, NEW s \in subs \ pending
      PROVE  /\ Lost(s) <=> s \in dropped
             /\ notices[s] = IF s \in dropped THEN 1 ELSE 0
  <2>1. s \in Subscribers /\ phase[s] = "live" /\ Flagging(s)
    BY <1>3 DEF IInv, TypeOK, MutexInv, GapInv
  <2>2. CASE Delivered(s) = <<>>
    BY <2>1, <2>2 DEF Flagging, Lost
  <2>3. CASE Delivered(s) # <<>>
    <3>1. PICK p \in 1..Len(pushed) : FromTo(s, p)
      BY <2>1, <2>3 DEF Flagging
    <3>2. Position(Delivered(s)[1]) = p
      BY <1>3, <3>1 DEF Position, FromTo, UniqueInv
    <3>3. absCursor[s] = Len(pushed) + 1
      BY <1>3, <2>1 DEF absCursor
    <3>4. Len(Delivered(s)) \in Nat /\ Len(pushed) \in Nat /\ p \in Nat
      BY <1>3, <2>1, StreamType DEF IInv
    <3> QED
      BY <2>1, <2>3, <3>1, <3>2, <3>3, <3>4 DEF Lost, FromTo, Flagging
  <2> QED
    BY <2>2, <2>3
<1>4. IInv /\ UniqueInv /\ GapInv => GapIsFlagged
  BY <1>3 DEF GapIsFlagged
<1> QED
  BY <1>1, <1>2, <1>4, UniqueStep, GapStep, Invariance, PTL DEF Spec
=============================================================================
