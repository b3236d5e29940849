------------------------------ MODULE Frontend ------------------------------
(***************************************************************************)
(* The program around the server: main picks one of three frontends, whose *)
(* goroutine owns the Handle and calls it from its event loop, while a     *)
(* pump carries log entries to the screen.  The terminal's pump hands them *)
(* to the loop itself (bubbletea); the window's stores them and asks for a *)
(* frame (Gio); headless has neither.                                      *)
(*                                                                         *)
(* The Handle is module Handle with the loop as its only caller, so a key  *)
(* or a click lasts as many steps as its call.  Of the Logger, which       *)
(* module Logger models in full, there remains how many entries wait: an   *)
(* entry is pushed and offered to the one subscriber in one step.          *)
(***************************************************************************)
EXTENDS Naturals

CONSTANTS Loop,           \* the goroutine that runs the frontend
          LogCap,         \* the logger's ring and channel capacity (2000)
          ViewCap,        \* lines a log view keeps (2000 or 500)
          Servers, Requests, Upstreams, Addrs, NoUpstream,
          Initial, Inputs, Found, None, Absent, Empty, Torn     \* as in Handle

ASSUME CapsAssumption == LogCap \in Nat \ {0} /\ ViewCap \in Nat \ {0}

VARIABLES
    cfg, srv, pc, arg, mine, err, phase, served, inflight,
    file, alone, untouched,
    ui,          \* which frontend this process runs
    at,          \* where the loop stands: "loop" while it waits for an event,
                 \* "closed" when a window's has ended and Run has not returned
    failed,      \* the call the loop is in has returned an error
    status,      \* the window's status line, blank until it first speaks
    signalled,   \* SIGINT or SIGTERM has come: ctx is done
    ring,        \* entries in the logger's ring
    subscribed,  \* the frontend's channel is among the logger's subscribers
    queued,      \* entries in that channel
    pump,        \* the pump: "off", in its "select", or "sending" to the loop
    wake,        \* the window has been asked for a frame
    view         \* lines in the log view

server == <<cfg, srv, pc, arg, mine, err, phase, served, inflight,
            file, alone, untouched>>
logs   == <<ring, subscribed, queued, pump, wake, view>>
vars   == <<server, ui, at, failed, status, signalled, logs>>

H == INSTANCE Handle WITH Callers <- {Loop}

\* What Handle assumes of the constants.
ASSUME InitialAssumption == Initial \subseteq {c \in H!Configs : c.ws = c.base}
ASSUME InputsAssumption == Inputs \subseteq H!Configs
ASSUME NoneAssumption == None \notin Servers /\ None \notin H!Configs
ASSUME FileAssumption == /\ {Absent, Empty, Torn} \cap H!Configs = {}
                         /\ Absent # Empty /\ Absent # Torn /\ Empty # Torn
ASSUME FoundAssumption == Found \subseteq H!Configs \cup {Absent, Empty, Torn}
ASSUME UpstreamAssumption == NoUpstream \notin Upstreams

Init ==
    /\ H!Init
    /\ ui \in {"headless", "terminal", "window"}
    /\ at = "boot"
    /\ failed = FALSE
    /\ status = "blank"
    /\ signalled = FALSE
    /\ ring = 0
    /\ subscribed = FALSE
    /\ queued = 0
    /\ pump = "off"
    /\ wake = FALSE
    /\ view = 0

----------------------------------------------------------------------------
(* The log, its pump and the log view.                                     *)

\* Fault seeded in Emit: whoever logs waits for room in the channel.
Emit_Blocking ==
    /\ subscribed => queued < LogCap
    /\ ring' = IF ring < LogCap THEN ring + 1 ELSE ring
    /\ queued' = IF subscribed THEN queued + 1 ELSE queued
    /\ UNCHANGED <<subscribed, pump, wake, view>>

Emit ==
    /\ ring' = IF ring < LogCap THEN ring + 1 ELSE ring
    /\ queued' = IF subscribed /\ queued < LogCap THEN queued + 1 ELSE queued
    /\ UNCHANGED <<subscribed, pump, wake, view>>

\* SubscribeLogs fills the channel with the ring; the pump is started.
Subscribe ==
    /\ subscribed' = TRUE
    /\ queued' = ring
    /\ pump' = "select"
    /\ UNCHANGED <<ring, wake, view>>

\* Fault seeded in appendLog: the view grows for ever.
appendLog_NoTrim == view' = view + 1

\* The terminal makes room only once it is over its bound.
appendLog == view' = CASE ui = "window"   -> IF view < ViewCap THEN view + 1 ELSE ViewCap
                       [] ui = "terminal" -> IF view > ViewCap THEN view ELSE view + 1

\* The pump's goroutine reads the channel, and in a window stores the entry.
PumpTakes ==
    /\ at # "exited"
    /\ pump = "select"
    /\ queued > 0
    /\ queued' = queued - 1
    /\ IF ui = "terminal" THEN pump' = "sending" /\ UNCHANGED <<wake, view>>
       ELSE wake' = TRUE /\ appendLog /\ UNCHANGED pump
    /\ UNCHANGED <<server, ui, at, failed, status, signalled, ring, subscribed>>

\* p.Send meets the loop, or finds the program over.
PumpDelivers ==
    /\ pump = "sending"
    /\ \/ at = "loop" /\ appendLog
       \/ at = "leaving" /\ UNCHANGED view
    /\ pump' = "select"
    /\ UNCHANGED <<server, ui, at, failed, status, signalled, ring, subscribed,
                   queued, wake>>

PumpEnds ==
    /\ at # "exited"
    /\ pump = "select"
    /\ signalled
    /\ pump' = "off"
    /\ UNCHANGED <<server, ui, at, failed, status, signalled, ring, subscribed,
                   queued, wake, view>>

----------------------------------------------------------------------------
(* The loop begins a call of the Handle, carries it out and comes back.    *)

Calls(op, call) ==
    /\ call
    /\ at' = op
    /\ failed' = (op = "save" /\ pc'[Loop] = "idle")     \* refused at once

ClickOrKey(op) == Calls(op, CASE op = "start" -> H!CallStart(Loop)
                              [] op = "stop"  -> H!CallStop(Loop)
                              [] op = "save"  -> H!CallSetConfig(Loop))

\* Stop logs before Shutdown; Start logs when it has bound the address.
CallStep ==
    /\ \/ H!Start(Loop) /\ failed' = (srv' = None)
                        /\ IF srv' = srv THEN UNCHANGED logs ELSE Emit
       \/ H!Shutdown(Loop) /\ Emit /\ UNCHANGED failed
       \/ H!SaveFails(Loop) /\ failed' = TRUE /\ UNCHANGED logs
       \/ /\ H!StopTake(Loop) \/ H!Drain(Loop) \/ H!AwaitDone(Loop)
             \/ H!SaveOpen(Loop) \/ H!SaveWrite(Loop) \/ H!Install(Loop)
          /\ UNCHANGED <<failed, logs>>
    /\ UNCHANGED <<ui, at, status, signalled>>

\* Fault seeded in StatusAfter: a save that succeeded is taken to have started
\* the server.
StatusAfter_Assume ==
    IF failed THEN "error" ELSE IF at = "stop" THEN "stopped" ELSE "running"

StatusAfter == CASE at = "stop" -> "stopped"
                 [] at # "stop" /\ failed -> "error"
                 [] at = "save" /\ ~failed /\ ~H!Running -> "stopped"
                 [] OTHER -> "running"

CallReturns ==
    /\ at \in {"start", "stop", "save"}
    /\ pc[Loop] = "idle"
    /\ at' = "loop"
    /\ status' = IF ui = "window" THEN StatusAfter ELSE status
    /\ UNCHANGED <<server, ui, failed, signalled, logs>>

----------------------------------------------------------------------------
(* From the start of the process to its event loop, and out of it.         *)

\* headless is started by main, the others start themselves; the window has
\* subscribed before.
Boot ==
    /\ at = "boot"
    /\ Calls("starting", H!CallStart(Loop))
    /\ IF ui = "window" THEN Subscribe ELSE UNCHANGED logs
    /\ UNCHANGED <<ui, status, signalled>>

\* Only the window lives on when the address cannot be bound; it is drawn once.
Booted ==
    /\ at = "starting"
    /\ pc[Loop] = "idle"
    /\ at' = IF failed /\ ui # "window" THEN "exited" ELSE "loop"
    /\ status' = IF ui = "window" THEN StatusAfter ELSE status
    /\ IF ui = "terminal" /\ ~failed THEN Subscribe
       ELSE wake' = (ui = "window") /\ UNCHANGED <<ring, subscribed, queued, pump, view>>
    /\ UNCHANGED <<server, ui, failed, signalled>>

\* Fault seeded in Leave: the frontend returns without stopping the server.
Leave_Abandon ==
    /\ at' = "leaving"
    /\ subscribed' = FALSE
    /\ UNCHANGED <<server, failed, ring, queued, pump, wake, view>>

\* Unsubscribe, then Stop.
Leave ==
    /\ Calls("leaving", H!CallStop(Loop))
    /\ subscribed' = FALSE
    /\ UNCHANGED <<ring, queued, pump, wake, view>>

\* headless and the terminal return from the goroutine that called them.  A
\* window's loop only reports to errCh: Run is still in Gio's app.Main.
Left ==
    /\ at = "leaving"
    /\ pc[Loop] = "idle"
    /\ at' = IF ui = "window" THEN "closed" ELSE "exited"
    /\ UNCHANGED <<server, ui, failed, status, signalled, logs>>

\* app.Main returns and Run with it.  Gio is not part of the source, which says
\* nothing of when Main returns, if ever, and has no other way out (os.Exit).
MainReturns ==
    /\ at = "closed"
    /\ at' = "exited"
    /\ UNCHANGED <<server, ui, failed, status, signalled, logs>>

----------------------------------------------------------------------------
(* Events.                                                                 *)

Signal ==
    /\ at # "exited"
    /\ ~signalled
    /\ signalled' = TRUE
    /\ UNCHANGED <<server, ui, at, failed, status, logs>>

\* Fault seeded in SignalSeen: the program is made without tea.WithContext.
SignalSeen_Headless ==
    at = "loop" /\ signalled /\ ui = "headless" /\ Leave /\ UNCHANGED <<ui, status, signalled>>

\* headless waits for nothing else; bubbletea watches the context.
SignalSeen ==
    /\ at = "loop"
    /\ signalled
    /\ ui \in {"headless", "terminal"}
    /\ Leave
    /\ UNCHANGED <<ui, status, signalled>>

\* The keys that change more than the layout, and a bubbletea that gives up.
Key ==
    /\ at = "loop"
    /\ ui = "terminal"
    /\ \/ \E op \in {"start", "stop"} : ClickOrKey(op) /\ UNCHANGED logs
       \/ view' = 0 /\ UNCHANGED <<server, at, failed, ring, subscribed, queued, pump, wake>>
       \/ Leave
    /\ UNCHANGED <<ui, status, signalled>>

\* w.Event returns: the context is looked at before the event.
WindowEvent(handle) ==
    /\ at = "loop"
    /\ ui = "window"
    /\ IF signalled THEN Leave /\ UNCHANGED status ELSE handle
    /\ UNCHANGED <<ui, signalled>>

\* A frame asked for by the pump changes nothing but the screen.
Repaint ==
    /\ wake
    /\ WindowEvent(wake' = FALSE /\ UNCHANGED <<server, at, failed, status, ring,
                                                subscribed, queued, pump, view>>)

\* A frame with a click - on a button of the server, on "clear", on the autostart
\* box, which the system refuses (module Settings) - or the window is closed.
Click ==
    WindowEvent(
      \/ /\ \E op \in {"start", "stop", "save"} : ClickOrKey(op)
         /\ wake' = FALSE
         /\ UNCHANGED <<status, ring, subscribed, queued, pump, view>>
      \/ /\ view' = 0 /\ wake' = FALSE
         /\ UNCHANGED <<server, at, failed, status, ring, subscribed, queued, pump>>
      \/ /\ status' = "error" /\ wake' = FALSE
         /\ UNCHANGED <<server, at, failed, ring, subscribed, queued, pump, view>>
      \/ Leave /\ UNCHANGED status)

Outside(step) ==
    /\ at # "exited"
    /\ step
    /\ UNCHANGED <<ui, at, failed, status, signalled>>

\* Requests log when they end, a server when it fails.
Serve(s)     == Outside(H!Serve(s) /\ UNCHANGED logs)
ServeFails(s) == Outside(H!ServeFails(s) /\ Emit)
Accept(r, s) == Outside(H!Accept(r, s) /\ UNCHANGED logs)
Finish(r)    == Outside(H!Finish(r) /\ Emit)

----------------------------------------------------------------------------
LoopSteps == Boot \/ Booted \/ CallStep \/ CallReturns \/ Left

Next == \/ LoopSteps \/ MainReturns
        \/ PumpTakes \/ PumpDelivers \/ PumpEnds
        \/ Signal \/ SignalSeen \/ Key \/ Repaint \/ Click
        \/ \E s \in Servers : \/ Serve(s) \/ ServeFails(s)
                              \/ \E r \in Requests : Accept(r, s)
        \/ \E r \in Requests : Finish(r)

Spec == Init /\ [][Next]_vars

\* Goroutines keep running and Gio paints what is invalidated; bubbletea's
\* select is not unfair to the context for ever.  Users, signals, requests and
\* failures may or may not happen, and app.Main may or may not return.
FairSpec ==
    /\ Spec
    /\ WF_vars(LoopSteps)
    /\ \A s \in Servers : WF_vars(Serve(s))
    /\ WF_vars(PumpTakes) /\ WF_vars(PumpDelivers)
    /\ WF_vars(Repaint)
    /\ SF_vars(SignalSeen)

----------------------------------------------------------------------------
\* The log views keep their bounds: the terminal's holds one line more.
TypeOK ==
    /\ H!TypeOK
    /\ ui \in {"headless", "terminal", "window"}
    /\ at \in {"boot", "starting", "loop", "start", "stop", "save", "leaving",
               "closed", "exited"}
    /\ failed \in BOOLEAN
    /\ status \in {"blank", "running", "stopped", "error"}
    /\ signalled \in BOOLEAN
    /\ ring \in 0..LogCap
    /\ subscribed \in BOOLEAN
    /\ queued \in 0..LogCap
    /\ pump \in {"off", "select", "sending"}
    /\ wake \in BOOLEAN
    /\ view \in 0..(IF ui = "terminal" THEN ViewCap + 1 ELSE ViewCap)

\* The window never calls a stopped server running or a running one stopped,
\* through failed starts, refused, failed and successful saves, and stops.
StatusTrue == at = "loop" => /\ status = "running" => H!Running
                             /\ status = "stopped" => ~H!Running

\* The loop is over: the frontend has returned, or a window's is in app.Main.
Over == at \in {"closed", "exited"}

\* A loop that is over leaves no server behind, and no port held, whether or not
\* the process is seen to end.
StoppedAtExit == Over => srv = None /\ \A s \in Servers : phase[s] = "dead"

\* The loop never waits for itself: whatever it handles, it comes back from,
\* although the call logs and the pump may be waiting for the loop.
LoopResponds ==
    at \in {"starting", "start", "stop", "save", "leaving"} ~> at = "loop" \/ Over

\* A signal ends headless and the terminal: they return, so the process ends.  It
\* ends the loop of a window that has a frame due, and the server with it; how
\* long that process then stays in app.Main is up to Gio.
SignalEnds == /\ signalled /\ ui # "window" ~> at = "exited"
              /\ signalled /\ wake ~> Over

----------------------------------------------------------------------------
(* What the documents say and the code does not do.                        *)

\* Gio redesign, line 169: on window closed or ctx done, stop and quit.
SignalHeard == signalled ~> Over
=============================================================================
