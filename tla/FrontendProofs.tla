--------------------------- MODULE FrontendProofs ---------------------------
(***************************************************************************)
(* Proofs about Frontend, for any logger and view capacity, any number of  *)
(* servers, requests and configurations.                                   *)
(*                                                                         *)
(* The frontend uses the Handle as module Handle says a caller does, so    *)
(* what HandleProofs proves carries over (UsesHandle).  What remains is    *)
(* where the Handle's call stands for each position of the loop (LoopInv)  *)
(* and which frontend has a pump (PumpInv).                                *)
(***************************************************************************)
EXTENDS Frontend, TLAPS

HP == INSTANCE HandleProofs WITH Callers <- {Loop}

----------------------------------------------------------------------------
(* The invariant.                                                          *)

\* Where the call stands that the loop is in, and what it will have done.
LoopInv ==
    /\ at \in {"boot", "loop"} \/ Over => pc[Loop] = "idle"
    /\ at \in {"starting", "start"} =>
         /\ arg[Loop] = None /\ pc[Loop] \in {"start", "idle"}
         /\ pc[Loop] = "idle" => (failed <=> ~H!Running)
    /\ at \in {"stop", "leaving"} =>
         /\ arg[Loop] = None /\ pc[Loop] \in {"stop", "shutdown", "drain", "await", "idle"}
         /\ pc[Loop] # "stop" => ~H!Running
    /\ Over => ~H!Running

\* Only a window has a status line.
StatusInv == StatusTrue /\ (ui # "window" => status = "blank")

\* headless has no pump, and only the terminal's hands entries to the loop.
PumpInv == /\ pump # "off" => ui \in {"terminal", "window"}
           /\ pump = "sending" => ui = "terminal"

IInv == TypeOK /\ LoopInv /\ StatusInv /\ PumpInv

----------------------------------------------------------------------------
(* What carries over from the Handle.                                      *)

\* The two instances are of one specification.
LEMMA HandleAssumptions ==
    /\ Initial \subseteq {c \in HP!Configs : c.ws = c.base} /\ Inputs \subseteq HP!Configs
    /\ None \notin Servers /\ None \notin HP!Configs
    /\ {Absent, Empty, Torn} \cap HP!Configs = {}
    /\ Absent # Empty /\ Absent # Torn /\ Empty # Torn
    /\ Found \subseteq HP!Configs \cup {Absent, Empty, Torn}
    /\ NoUpstream \notin Upstreams
  BY InitialAssumption, InputsAssumption, NoneAssumption, FileAssumption, FoundAssumption,
     UpstreamAssumption DEF H!Configs, HP!Configs

LEMMA SameSpec == H!Spec => HP!Spec
<1>1. H!Init => HP!Init
  BY DEF H!Init, HP!Init
<1>2. [H!Next]_H!vars => [HP!Next]_HP!vars
  <2>1. ASSUME NEW c PROVE /\ H!CallStart(c) => HP!CallStart(c)
                           /\ H!CallStop(c) => HP!CallStop(c)
                           /\ H!CallSetConfig(c) => HP!CallSetConfig(c)
    BY DEF H!CallStart, HP!CallStart, H!CallStop, HP!CallStop, H!CallSetConfig,
           HP!CallSetConfig, H!Goto, HP!Goto, H!Returns, HP!Returns, H!httpd, HP!httpd,
           H!Setting, HP!Setting, H!Valid, HP!Valid, H!Normalize, HP!Normalize
  <2>2. ASSUME NEW c PROVE H!Start(c) => HP!Start(c)
    BY DEF H!Start, HP!Start, H!AlreadyStarted, HP!AlreadyStarted, H!Returns, HP!Returns,
           H!InUse, HP!InUse, H!Listening, HP!Listening, H!Launch, HP!Launch, H!httpd, HP!httpd
  <2>3. ASSUME NEW c PROVE /\ H!StopTake(c) => HP!StopTake(c)
                           /\ H!Shutdown(c) => HP!Shutdown(c)
                           /\ H!Drain(c) => HP!Drain(c)
                           /\ H!AwaitDone(c) => HP!AwaitDone(c)
    BY DEF H!StopTake, HP!StopTake, H!StopReturns, HP!StopReturns, H!Shutdown, HP!Shutdown,
           H!Drain, HP!Drain, H!ShutdownReturns, HP!ShutdownReturns, H!Drained, HP!Drained,
           H!AwaitDone, HP!AwaitDone, H!Goto, HP!Goto, H!Returns, HP!Returns, H!httpd, HP!httpd
  <2>4. ASSUME NEW c PROVE /\ H!SaveOpen(c) => HP!SaveOpen(c)
                           /\ H!SaveWrite(c) => HP!SaveWrite(c)
                           /\ H!SaveFails(c) => HP!SaveFails(c)
                           /\ H!Install(c) => HP!Install(c)
    BY DEF H!SaveOpen, HP!SaveOpen, H!SaveWrite, HP!SaveWrite, H!SaveFails, HP!SaveFails,
           H!Install, HP!Install, H!NeedsRestart, HP!NeedsRestart, H!Goto, HP!Goto,
           H!Returns, HP!Returns, H!httpd, HP!httpd
  <2>5. ASSUME NEW s PROVE /\ H!Serve(s) => HP!Serve(s)
                           /\ H!ServeFails(s) => HP!ServeFails(s)
                           /\ \A r \in Requests : H!Accept(r, s) => HP!Accept(r, s)
    BY DEF H!Serve, HP!Serve, H!ServeBegins, HP!ServeBegins, H!ServeEnds, HP!ServeEnds,
           H!ServeFails, HP!ServeFails, H!Accept, HP!Accept, H!handle, HP!handle, H!local,
           HP!local
  <2>6. ASSUME NEW r PROVE H!Finish(r) => HP!Finish(r)
    BY DEF H!Finish, HP!Finish, H!handle, HP!handle, H!local, HP!local
  <2>7. ASSUME H!Next PROVE HP!Next
    BY <2>1, <2>2, <2>3, <2>4, <2>5, <2>6, <2>7
       DEF H!Next, HP!Next, H!Call, HP!Call, H!Step, HP!Step
  <2>8. UNCHANGED H!vars => UNCHANGED HP!vars
    BY DEF H!vars, HP!vars
  <2> QED
    BY <2>7, <2>8
<1> QED
  BY <1>1, <1>2, PTL DEF H!Spec, HP!Spec

LEMMA SameInvariants == /\ HP!TypeOK => H!TypeOK
                        /\ HP!NoLeakedServer => H!NoLeakedServer
  BY DEF HP!TypeOK, H!TypeOK, HP!NoLeakedServer, H!NoLeakedServer, HP!Configs, H!Configs,
         HP!Phases, H!Phases, HP!Owners, H!Owners

LEMMA HandleStep == [Next]_vars => [H!Next]_H!vars
<1> USE DEF H!vars, server
<1>1. ASSUME H!CallStart(Loop) \/ H!CallStop(Loop) \/ H!CallSetConfig(Loop) PROVE H!Next
  BY <1>1 DEF H!Next, H!Call
<1>2. ASSUME CallStep PROVE H!Next
  BY <1>2 DEF CallStep, H!Next, H!Step
<1>3. ASSUME NEW op \in {"start", "stop", "save"}, ClickOrKey(op) PROVE H!Next
  BY <1>1, <1>3 DEF ClickOrKey, Calls
<1>4. ASSUME Leave \/ Boot PROVE H!Next
  BY <1>1, <1>4 DEF Leave, Boot, Calls
<1>5. ASSUME \/ Booted \/ CallReturns \/ Left \/ MainReturns
             \/ PumpTakes \/ PumpDelivers \/ PumpEnds \/ Signal
      PROVE  UNCHANGED H!vars
  BY <1>5 DEF Booted, CallReturns, Left, MainReturns, PumpTakes, PumpDelivers, PumpEnds, Signal
<1>6. ASSUME SignalSeen \/ Key \/ Repaint \/ Click PROVE [H!Next]_H!vars
  BY <1>3, <1>4, <1>6 DEF SignalSeen, Key, Repaint, Click, WindowEvent
<1>7. ASSUME NEW s \in Servers,
             Serve(s) \/ ServeFails(s) \/ \E r \in Requests : Accept(r, s)
      PROVE  H!Next
  BY <1>7 DEF Serve, ServeFails, Accept, Outside, H!Next
<1>8. ASSUME NEW r \in Requests, Finish(r) PROVE H!Next
  BY <1>8 DEF Finish, Outside, H!Next
<1>9. UNCHANGED vars => UNCHANGED H!vars
  BY DEF vars
<1> QED
  BY <1>2, <1>4, <1>5, <1>6, <1>7, <1>8, <1>9 DEF Next, LoopSteps

\* The frontend calls the Handle's methods one at a time and from one goroutine,
\* and touches none of its fields: it is a caller as module Handle has it.
THEOREM UsesHandle == Spec => H!Spec
<1>1. Init => H!Init
  BY DEF Init
<1> QED
  BY <1>1, HandleStep, PTL DEF Spec, H!Spec

\* So what is proved of a Handle in any hands is true in the frontend's.
LEMMA HandleTypes == Spec => []H!TypeOK
<1>1. HP!Spec => []HP!TypeOK
  BY HandleAssumptions, HP!TypeCorrect
<1> QED
  BY <1>1, UsesHandle, SameSpec, SameInvariants, PTL

LEMMA HandleLeaksNothing == Spec => []H!NoLeakedServer
<1>1. HP!Spec => []HP!NoLeakedServer
  BY HandleAssumptions, HP!NothingLeaks
<1> QED
  BY <1>1, UsesHandle, SameSpec, SameInvariants, PTL
----------------------------------------------------------------------------
(* What the steps of the Handle do to the loop's call.                     *)

LEMMA CallBegins == ASSUME H!TypeOK
  PROVE  /\ H!CallStart(Loop) => pc[Loop] = "idle" /\ pc'[Loop] = "start" /\ arg'[Loop] = None
                                 /\ srv' = srv
         /\ H!CallStop(Loop) => pc[Loop] = "idle" /\ pc'[Loop] = "stop" /\ arg'[Loop] = None
                                /\ srv' = srv
         /\ H!CallSetConfig(Loop) => pc[Loop] = "idle" /\ srv' = srv
  BY DEF H!TypeOK, H!CallStart, H!CallStop, H!CallSetConfig, H!Goto

LEMMA CallAdvances == ASSUME H!TypeOK
  PROVE  /\ H!Start(Loop) => pc[Loop] = "start" /\ pc'[Loop] = "idle" /\ arg'[Loop] = None
         /\ H!StopTake(Loop) => /\ pc[Loop] = "stop" /\ srv' = None
                                /\ arg[Loop] = None => /\ pc'[Loop] \in {"shutdown", "idle"}
                                                       /\ arg'[Loop] = None
         /\ H!Shutdown(Loop) => /\ pc[Loop] = "shutdown" /\ pc'[Loop] = "drain"
                                /\ UNCHANGED <<srv, arg>>
         /\ H!Drain(Loop) => /\ pc[Loop] = "drain" /\ pc'[Loop] = "await"
                             /\ UNCHANGED <<srv, arg>>
         /\ H!AwaitDone(Loop) => /\ pc[Loop] = "await" /\ srv' = srv
                                 /\ arg[Loop] = None => /\ pc'[Loop] = "idle"
                                                        /\ arg'[Loop] = None
         /\ H!SaveFails(Loop) => pc[Loop] \in {"save", "write"}
         /\ H!SaveOpen(Loop) => pc[Loop] = "save"
         /\ H!SaveWrite(Loop) => pc[Loop] = "write"
         /\ H!Install(Loop) => pc[Loop] = "install"
  BY DEF H!TypeOK, H!Start, H!StopTake, H!StopReturns, H!Shutdown, H!Drain, H!AwaitDone,
         H!SaveFails, H!SaveOpen, H!SaveWrite, H!Install, H!Goto, H!Returns

\* What the world does to servers and requests is not seen by the loop.
LEMMA OutsideUnseen == ASSUME NEW s, NEW r,
                              Serve(s) \/ ServeFails(s) \/ Accept(r, s) \/ Finish(r)
  PROVE  /\ at # "exited"
         /\ UNCHANGED <<srv, pc, arg, ui, at, failed, status, pump>>
  BY DEF Serve, ServeFails, Accept, Finish, Outside, Emit, logs, H!Serve, H!ServeBegins,
         H!ServeEnds, H!ServeFails, H!Accept, H!Finish, H!handle, H!local

----------------------------------------------------------------------------
(* Types.                                                                  *)

\* The log view takes one more line and keeps to its bound.
LEMMA ViewBound == ASSUME TypeOK, ui # "headless", appendLog
                   PROVE  view' \in 0..(IF ui = "terminal" THEN ViewCap + 1 ELSE ViewCap)
  BY CapsAssumption DEF TypeOK, appendLog

LEMMA EmitTypes == ASSUME TypeOK, Emit
                   PROVE  /\ ring' \in 0..LogCap /\ queued' \in 0..LogCap
                          /\ UNCHANGED <<subscribed, pump, wake, view>>
  BY CapsAssumption DEF TypeOK, Emit

LEMMA StatusTypes == ASSUME TypeOK
                     PROVE  StatusAfter \in {"running", "stopped", "error"}
  BY DEF TypeOK, StatusAfter

LEMMA TypeStep == TypeOK /\ PumpInv /\ H!TypeOK' /\ [Next]_vars => TypeOK'
<1> SUFFICES ASSUME TypeOK, PumpInv, H!TypeOK', [Next]_vars PROVE TypeOK'
  OBVIOUS
<1> USE DEF TypeOK, logs
<1>1. CASE Boot
  BY <1>1, CapsAssumption DEF Boot, Calls, Subscribe
<1>2. CASE Booted
  BY <1>2, StatusTypes, CapsAssumption DEF Booted, Subscribe
<1>3. CASE CallStep
  <2>1. UNCHANGED <<ui, at, status, signalled>>
    BY <1>3 DEF CallStep
  <2>2. failed' \in BOOLEAN
    BY <1>3 DEF CallStep
  <2>3. Emit \/ UNCHANGED logs
    BY <1>3 DEF CallStep
  <2> QED
    BY <2>1, <2>2, <2>3, EmitTypes
<1>4. CASE CallReturns
  BY <1>4, StatusTypes DEF CallReturns
<1>5. CASE Left \/ MainReturns \/ PumpEnds \/ Signal
  BY <1>5 DEF Left, MainReturns, PumpEnds, Signal
<1>6. CASE PumpTakes
  <2>1. ui # "headless"
    BY <1>6 DEF PumpTakes, PumpInv
  <2>2. queued' \in 0..LogCap
    BY <1>6, CapsAssumption DEF PumpTakes
  <2>3. pump' \in {"select", "sending"} /\ wake' \in BOOLEAN
    BY <1>6 DEF PumpTakes
  <2>4. view' \in 0..(IF ui = "terminal" THEN ViewCap + 1 ELSE ViewCap)
    <3>1. CASE appendLog
      BY <2>1, <3>1, ViewBound
    <3>2. CASE UNCHANGED view
      BY <3>2
    <3> QED
      BY <1>6, <3>1, <3>2 DEF PumpTakes
  <2> QED
    BY <1>6, <2>2, <2>3, <2>4 DEF PumpTakes
<1>7. CASE PumpDelivers
  BY <1>7, ViewBound DEF PumpDelivers, PumpInv
<1>8. ASSUME Leave, UNCHANGED <<ui, status, signalled>> PROVE TypeOK'
  BY <1>8 DEF Leave, Calls
<1>9. ASSUME NEW op \in {"start", "stop", "save"}, ClickOrKey(op),
             UNCHANGED <<ui, status, signalled, ring, subscribed, queued, pump, view>>,
             wake' \in BOOLEAN
      PROVE  TypeOK'
  BY <1>9 DEF ClickOrKey, Calls
<1>10. ASSUME UNCHANGED <<at, failed, ui, signalled, ring, subscribed, queued, pump>>,
              wake' \in BOOLEAN, view' \in {view, 0}, status' \in {status, "error"}
       PROVE  TypeOK'
  BY <1>10, CapsAssumption
<1>11. CASE SignalSeen
  BY <1>11, <1>8 DEF SignalSeen
<1>12. CASE Key
  BY <1>12, <1>8, <1>9, <1>10 DEF Key
<1>13. CASE Repaint
  BY <1>13, <1>8, <1>10 DEF Repaint, WindowEvent
<1>14. CASE Click
  BY <1>14, <1>8, <1>9, <1>10 DEF Click, WindowEvent
<1>15. ASSUME NEW s \in Servers,
              Serve(s) \/ ServeFails(s) \/ \E r \in Requests : Accept(r, s)
       PROVE  TypeOK'
  BY <1>15, EmitTypes DEF Serve, ServeFails, Accept, Outside
<1>16. ASSUME NEW r \in Requests, Finish(r) PROVE TypeOK'
  BY <1>16, EmitTypes DEF Finish, Outside
<1>17. CASE UNCHANGED vars
  BY <1>17 DEF vars
<1> QED
  BY <1>1, <1>2, <1>3, <1>4, <1>5, <1>6, <1>7, <1>11, <1>12, <1>13, <1>14, <1>15, <1>16, <1>17
     DEF Next, LoopSteps
----------------------------------------------------------------------------
(* The loop, the pump and the status line.                                 *)

LEMMA PumpStep == PumpInv /\ [Next]_vars => PumpInv'
<1> SUFFICES ASSUME PumpInv, [Next]_vars PROVE PumpInv'
  OBVIOUS
<1> USE DEF PumpInv, logs
<1>1. CASE Boot
  BY <1>1 DEF Boot, Subscribe
<1>2. CASE Booted
  BY <1>2 DEF Booted, Subscribe
<1>3. CASE PumpTakes
  BY <1>3 DEF PumpTakes
<1>4. CASE PumpDelivers \/ PumpEnds
  BY <1>4 DEF PumpDelivers, PumpEnds
<1>5. ASSUME UNCHANGED <<ui, pump>> PROVE PumpInv'
  BY <1>5
<1>6. CASE CallStep \/ CallReturns \/ Left \/ MainReturns \/ Signal
  BY <1>5, <1>6 DEF CallStep, CallReturns, Left, MainReturns, Signal, Emit
<1>7. CASE SignalSeen \/ Key \/ Repaint \/ Click
  BY <1>5, <1>7 DEF SignalSeen, Key, Repaint, Click, WindowEvent, Leave
<1>8. ASSUME NEW s \in Servers,
             Serve(s) \/ ServeFails(s) \/ \E r \in Requests : Accept(r, s)
      PROVE  PumpInv'
  BY <1>5, <1>8, OutsideUnseen
<1>9. ASSUME NEW r \in Requests, Finish(r) PROVE PumpInv'
  BY <1>5, <1>9, OutsideUnseen
<1>10. CASE UNCHANGED vars
  BY <1>5, <1>10 DEF vars
<1> QED
  BY <1>1, <1>2, <1>3, <1>4, <1>6, <1>7, <1>8, <1>9, <1>10 DEF Next, LoopSteps

\* Each step that begins, advances or ends a call leaves the loop where
\* LoopInv says, and no other step moves the loop or the call.
LEMMA LoopStep == H!TypeOK /\ LoopInv /\ [Next]_vars => LoopInv'
<1> SUFFICES ASSUME H!TypeOK, LoopInv, [Next]_vars PROVE LoopInv'
  OBVIOUS
<1> USE DEF LoopInv, Over, H!Running
<1>1. CASE Boot
  BY <1>1, CallBegins DEF Boot, Calls
<1>2. CASE Booted
  BY <1>2 DEF Booted, server
<1>3. CASE CallStep
  <2>1. at' = at
    BY <1>3 DEF CallStep
  <2>2. CASE H!Start(Loop)
    BY <1>3, <2>1, <2>2, CallAdvances DEF CallStep
  <2>3. CASE H!StopTake(Loop)
    BY <2>1, <2>3, CallAdvances
  <2>4. CASE H!Shutdown(Loop) \/ H!Drain(Loop)
    BY <2>1, <2>4, CallAdvances
  <2>5. CASE H!AwaitDone(Loop)
    BY <2>1, <2>5, CallAdvances
  <2>6. CASE H!SaveFails(Loop) \/ H!SaveOpen(Loop) \/ H!SaveWrite(Loop) \/ H!Install(Loop)
    BY <2>1, <2>6, CallAdvances
  <2> QED
    BY <1>3, <2>2, <2>3, <2>4, <2>5, <2>6 DEF CallStep
<1>4. CASE CallReturns
  BY <1>4 DEF CallReturns, server
<1>5. CASE Left \/ MainReturns
  BY <1>5 DEF Left, MainReturns, server
<1>6. ASSUME Leave PROVE LoopInv'
  BY <1>6, CallBegins DEF Leave, Calls
<1>7. ASSUME NEW op \in {"start", "stop", "save"}, ClickOrKey(op) PROVE LoopInv'
  BY <1>7, CallBegins DEF ClickOrKey, Calls
<1>8. ASSUME UNCHANGED <<srv, pc, arg, at, failed>> PROVE LoopInv'
  BY <1>8
<1>9. CASE PumpTakes \/ PumpDelivers \/ PumpEnds \/ Signal
  BY <1>8, <1>9 DEF PumpTakes, PumpDelivers, PumpEnds, Signal, server
<1>10. CASE SignalSeen \/ Key
  BY <1>6, <1>7, <1>8, <1>10 DEF SignalSeen, Key, server
<1>11. CASE Repaint \/ Click
  BY <1>6, <1>7, <1>8, <1>11 DEF Repaint, Click, WindowEvent, server
<1>12. ASSUME NEW s \in Servers,
              Serve(s) \/ ServeFails(s) \/ \E r \in Requests : Accept(r, s)
       PROVE  LoopInv'
  BY <1>8, <1>12, OutsideUnseen
<1>13. ASSUME NEW r \in Requests, Finish(r) PROVE LoopInv'
  BY <1>8, <1>13, OutsideUnseen
<1>14. CASE UNCHANGED vars
  BY <1>8, <1>14 DEF vars, server
<1> QED
  BY <1>1, <1>2, <1>3, <1>4, <1>5, <1>9, <1>10, <1>11, <1>12, <1>13, <1>14 DEF Next, LoopSteps

\* When the loop is back, the status line says what LoopInv knows of the call.
LEMMA StatusStep == H!TypeOK /\ LoopInv /\ StatusInv /\ [Next]_vars => StatusInv'
<1> SUFFICES ASSUME H!TypeOK, LoopInv, StatusInv, [Next]_vars PROVE StatusInv'
  OBVIOUS
<1> USE DEF StatusInv, StatusTrue, H!Running
<1>1. CASE Boot
  BY <1>1 DEF Boot, Calls
<1>2. CASE Booted
  BY <1>2 DEF Booted, StatusAfter, LoopInv, server
<1>3. CASE CallStep
  BY <1>3, CallAdvances DEF CallStep, LoopInv
<1>4. CASE CallReturns
  BY <1>4 DEF CallReturns, StatusAfter, LoopInv, server
<1>5. CASE Left \/ MainReturns
  BY <1>5 DEF Left, MainReturns
<1>6. ASSUME Leave, UNCHANGED <<ui, status>> PROVE StatusInv'
  BY <1>6 DEF Leave, Calls
<1>7. ASSUME NEW op \in {"start", "stop", "save"}, ClickOrKey(op), UNCHANGED <<ui, status>>
      PROVE  StatusInv'
  BY <1>7 DEF ClickOrKey, Calls
<1>8. ASSUME UNCHANGED <<srv, at, ui, status>> PROVE StatusInv'
  BY <1>8
<1>9. CASE PumpTakes \/ PumpDelivers \/ PumpEnds \/ Signal
  BY <1>8, <1>9 DEF PumpTakes, PumpDelivers, PumpEnds, Signal, server
<1>10. CASE SignalSeen \/ Key
  BY <1>6, <1>7, <1>8, <1>10 DEF SignalSeen, Key, server
<1>15. ASSUME ui = "window", ui' = ui, status' = "error" PROVE StatusInv'
  BY <1>15
<1>11. CASE Repaint \/ Click
  BY <1>6, <1>7, <1>8, <1>11, <1>15 DEF Repaint, Click, WindowEvent, server
<1>12. ASSUME NEW s \in Servers,
              Serve(s) \/ ServeFails(s) \/ \E r \in Requests : Accept(r, s)
       PROVE  StatusInv'
  BY <1>8, <1>12, OutsideUnseen
<1>13. ASSUME NEW r \in Requests, Finish(r) PROVE StatusInv'
  BY <1>8, <1>13, OutsideUnseen
<1>14. CASE UNCHANGED vars
  BY <1>8, <1>14 DEF vars, server
<1> QED
  BY <1>1, <1>2, <1>3, <1>4, <1>5, <1>9, <1>10, <1>11, <1>12, <1>13, <1>14 DEF Next, LoopSteps
----------------------------------------------------------------------------
(* Theorems.                                                               *)

LEMMA InitInv == Init /\ H!TypeOK => IInv
<1> SUFFICES ASSUME Init, H!TypeOK PROVE IInv
  OBVIOUS
<1>1. TypeOK
  <2>1. ring \in 0..LogCap /\ queued \in 0..LogCap
    BY CapsAssumption DEF Init
  <2>2. view \in 0..(IF ui = "terminal" THEN ViewCap + 1 ELSE ViewCap)
    BY CapsAssumption DEF Init
  <2> QED
    BY <2>1, <2>2 DEF Init, TypeOK
<1>2. LoopInv
  <2>1. at = "boot" /\ pc[Loop] = "idle"
    BY DEF Init, H!Init
  <2> QED
    BY <2>1 DEF LoopInv, Over
<1>3. StatusInv /\ PumpInv
  BY DEF Init, StatusInv, StatusTrue, PumpInv
<1> QED
  BY <1>1, <1>2, <1>3 DEF IInv

\* The inductive invariant holds in every reachable state.
THEOREM Invariance == Spec => []IInv
<1>1. IInv /\ H!TypeOK' /\ [Next]_vars => IInv'
  <2>1. IInv => H!TypeOK
    BY DEF IInv, TypeOK
  <2> QED
    BY <2>1, TypeStep, LoopStep, StatusStep, PumpStep DEF IInv
<1> QED
  BY InitInv, <1>1, HandleTypes, PTL DEF Spec

\* The loop, its pump and its log view stay within their types: no line beyond
\* the view's bound is kept, however entries and frames interleave.
THEOREM TypeCorrect == Spec => []TypeOK
<1>1. IInv => TypeOK
  BY DEF IInv
<1> QED
  BY <1>1, Invariance, PTL

\* The window's status line is true whenever the loop waits for an event.
THEOREM StatusIsTrue == Spec => []StatusTrue
<1>1. IInv => StatusTrue
  BY DEF IInv, StatusInv
<1> QED
  BY <1>1, Invariance, PTL

\* Whichever way the frontend's loop ends - a signal, a key, the window's cross, a
\* failed start - it has stopped the server, and the port is free.
THEOREM NothingOutlivesTheLoop == Spec => []StoppedAtExit
<1>1. IInv /\ H!NoLeakedServer => StoppedAtExit
  <2> SUFFICES ASSUME IInv, H!NoLeakedServer, Over
               PROVE  srv = None /\ \A s \in Servers : phase[s] = "dead"
    BY DEF StoppedAtExit
  <2>1. srv = None /\ pc[Loop] = "idle"
    BY DEF IInv, LoopInv, H!Running
  <2>2. mine[Loop] = None
    BY <2>1 DEF IInv, TypeOK, H!TypeOK
  <2>3. ASSUME NEW s \in Servers PROVE s # srv /\ H!Owners(s) = {}
    BY <2>1, <2>2, NoneAssumption DEF H!Owners
  <2> QED
    BY <2>1, <2>3 DEF H!NoLeakedServer
<1> QED
  BY <1>1, Invariance, HandleLeaksNothing, PTL

\* Through every key, click, signal and failure the program manages one server
\* as ManagedServer has it: off, or on with the configuration it was turned on
\* with, and a new configuration comes into force only through off.
THEOREM Manages == Spec => H!ImplementsManagedServer
<1>1. HP!Spec => HP!ImplementsManagedServer
  BY HandleAssumptions, HP!Refinement
<1>2. HP!Managed!Init => H!Managed!Init
  BY DEF HP!Managed!Init, H!Managed!Init
<1>3. [HP!Managed!Next]_(HP!Managed!vars) => [H!Managed!Next]_(H!Managed!vars)
  BY DEF HP!Managed!Next, H!Managed!Next, HP!Managed!vars, H!Managed!vars,
         HP!Managed!Configure, H!Managed!Configure, HP!Managed!TurnOn, H!Managed!TurnOn,
         HP!Managed!TurnOff, H!Managed!TurnOff, HP!Configs, H!Configs, HP!Valid, H!Valid
<1> QED
  BY <1>1, <1>2, <1>3, UsesHandle, SameSpec, PTL
     DEF HP!ImplementsManagedServer, H!ImplementsManagedServer, HP!Managed!Spec, H!Managed!Spec
=============================================================================
