------------------------------- MODULE Handle -------------------------------
(***************************************************************************)
(* The server lifecycle (handle.go): one Handle shared by goroutines that  *)
(* call Start, Stop and SetConfig at any time, the HTTP servers it creates *)
(* one after the other, and the config file SetConfig writes.              *)
(*                                                                         *)
(* Every stretch under h.mu is one step, so the mutex needs no variable:   *)
(* all of Start is such a stretch, while Stop and SetConfig release h.mu   *)
(* and go on with what they read.  http.Server and the ports belong to Go  *)
(* and the system: a server serves in a goroutine of its own, Shutdown     *)
(* closes its listener and waits for requests for 10 seconds at most, and  *)
(* the accept loop may fail at any time.  The fields srv, cancel and done  *)
(* are set and cleared together; srv stands for the three.                 *)
(***************************************************************************)
EXTENDS Naturals

CONSTANTS Callers,        \* goroutines that call the Handle's methods
          Servers,        \* identities for *http.Server values, reused once dead
          Requests,       \* identities for requests in flight (bound)
          Upstreams, Addrs,
          NoUpstream,     \* an upstream origin that does not parse
          Initial,        \* the configurations NewHandle is given
          Inputs,         \* the configurations callers pass to SetConfig
          Found,          \* what config.json may be when the process starts
          None,           \* nil: no server, no configuration
          Absent, Empty, Torn   \* what config.json may be instead of readable

Configs == [base : Upstreams \cup {NoUpstream}, ws : Upstreams \cup {NoUpstream},
            listen : Addrs]

\* LoadConfig normalizes; the GUI falls back on DefaultConfig, whose upstream
\* is empty in both forms.
ASSUME InitialAssumption == Initial \subseteq {c \in Configs : c.ws = c.base}
ASSUME InputsAssumption == Inputs \subseteq Configs
ASSUME NoneAssumption == None \notin Servers /\ None \notin Configs
ASSUME FileAssumption == /\ {Absent, Empty, Torn} \cap Configs = {}
                         /\ Absent # Empty /\ Absent # Torn /\ Empty # Torn
ASSUME FoundAssumption == Found \subseteq Configs \cup {Absent, Empty, Torn}
ASSUME UpstreamAssumption == NoUpstream \notin Upstreams

VARIABLES
    cfg,         \* h.cfg
    srv,         \* h.srv
    pc,          \* pc[c]: the step of the call c is in, "idle" between calls
    arg,         \* arg[c]: the configuration c is setting, else None
    mine,        \* mine[c]: the server c's Stop has taken out of h.srv
    err,         \* err[c]: what Shutdown returned to the Stop c is in
    phase,       \* phase[s]: where the goroutine that serves s stands
    served,      \* served[s]: the configuration s was built from, None if unused
    inflight,    \* inflight[r]: the server that handles request r, or None
    file,        \* config.json: a configuration, Absent, Empty or Torn
    alone,       \* history: no two SetConfig calls have overlapped yet
    untouched    \* history: no SetConfig has opened config.json yet

local   == <<pc, arg, mine, err>>
httpd   == <<phase, served, inflight>>
vars    == <<cfg, srv, pc, arg, mine, err, phase, served, inflight,
             file, alone, untouched>>

\* A server is "dead" before it exists and once done is closed, "spawned" from
\* net.Listen until Serve registers its listener ("doomed" when Shutdown comes
\* first), then "serving", and "closing" once its listener is closed.
Phases == {"dead", "spawned", "doomed", "serving", "closing"}

\* normalizeUpstream and Validate.
Valid(c)     == c.base # NoUpstream

\* Fault seeded in Normalize: the caller's UpstreamWS is kept.
Normalize_KeepWS(c) == c
Normalize(c) == [c EXCEPT !.ws = c.base]

\* NewHandle, and the file as an earlier process or a user left it: the flags,
\* the environment and the defaults may have made another configuration of it.
Init ==
    /\ cfg \in Initial
    /\ srv = None
    /\ pc = [c \in Callers |-> "idle"]
    /\ arg = [c \in Callers |-> None]
    /\ mine = [c \in Callers |-> None]
    /\ err = [c \in Callers |-> "nil"]
    /\ phase = [s \in Servers |-> "dead"]
    /\ served = [s \in Servers |-> None]
    /\ inflight = [r \in Requests |-> None]
    /\ file \in Found
    /\ alone = TRUE
    /\ untouched = TRUE

Running == srv # None

Goto(c, label) == pc' = [pc EXCEPT ![c] = label]

\* A call returns; the error it returns is the caller's business.
Returns(c) == /\ pc' = [pc EXCEPT ![c] = "idle"]
              /\ arg' = [arg EXCEPT ![c] = None]

----------------------------------------------------------------------------
(* Start.                                                                  *)

CallStart(c) ==
    /\ pc[c] = "idle"
    /\ Goto(c, "start")
    /\ UNCHANGED <<cfg, srv, arg, mine, err, httpd, file, alone, untouched>>

\* The port is held from net.Listen until the listener is closed.
Listening(s) == phase[s] \in {"spawned", "doomed", "serving"}
InUse(a)     == \E s \in Servers : Listening(s) /\ served[s].listen = a

\* net.Listen, newServer and the go statement.
Launch(s) ==
    /\ phase' = [phase EXCEPT ![s] = "spawned"]
    /\ served' = [served EXCEPT ![s] = cfg]
    /\ srv' = s
    /\ UNCHANGED inflight

\* Fault seeded in AlreadyStarted: Start forgets that it is idempotent.
AlreadyStarted_Never == FALSE
AlreadyStarted == srv # None

Start(c) ==
    /\ pc[c] = "start"
    /\ \/ /\ AlreadyStarted
          /\ Returns(c)
          /\ UNCHANGED <<srv, httpd>>
       \/ /\ ~AlreadyStarted            \* the bind fails: here, or because the
          /\ Returns(c)                 \* address is bad or another process has it
          /\ UNCHANGED <<srv, httpd>>
       \/ /\ ~AlreadyStarted
          /\ ~InUse(cfg.listen)
          /\ \E s \in Servers : served[s] = None /\ Launch(s)
          /\ Returns(c)
    /\ UNCHANGED <<cfg, mine, err, file, alone, untouched>>

----------------------------------------------------------------------------
(* Stop.  It is also the middle of SetConfig, which ignores its error and  *)
(* goes on to Start.                                                       *)

CallStop(c) ==
    /\ pc[c] = "idle"
    /\ Goto(c, "stop")
    /\ UNCHANGED <<cfg, srv, arg, mine, err, httpd, file, alone, untouched>>

StopReturns(c) == IF arg[c] = None THEN Returns(c)
                  ELSE Goto(c, "start") /\ UNCHANGED arg

\* Faults seeded in StopTake: h.srv is read and not cleared; a Stop without a
\* server goes on.
StopTake_Keep(c) ==
    /\ pc[c] = "stop"
    /\ mine' = [mine EXCEPT ![c] = srv]
    /\ IF srv = None THEN StopReturns(c)
       ELSE Goto(c, "shutdown") /\ UNCHANGED arg
    /\ UNCHANGED <<cfg, srv, err, httpd, file, alone, untouched>>
StopTake_NoCheck(c) ==
    /\ pc[c] = "stop"
    /\ mine' = [mine EXCEPT ![c] = srv]
    /\ srv' = None
    /\ Goto(c, "shutdown")
    /\ UNCHANGED <<cfg, arg, err, httpd, file, alone, untouched>>

\* The critical section: the server leaves the Handle and becomes the caller's.
StopTake(c) ==
    /\ pc[c] = "stop"
    /\ mine' = [mine EXCEPT ![c] = srv]
    /\ srv' = None
    /\ IF srv = None THEN StopReturns(c)
       ELSE Goto(c, "shutdown") /\ UNCHANGED arg
    /\ UNCHANGED <<cfg, err, httpd, file, alone, untouched>>

\* Shutdown marks the server and closes the listener if Serve has registered it.
Shutdown(c) ==
    /\ pc[c] = "shutdown"
    /\ phase' = [phase EXCEPT ![mine[c]] = CASE @ = "spawned" -> "doomed"
                                            [] @ = "serving" -> "closing"
                                            [] OTHER -> @]
    /\ Goto(c, "drain")
    /\ UNCHANGED <<cfg, srv, arg, mine, err, served, inflight, file, alone, untouched>>

Drained(c) == \A r \in Requests : inflight[r] # mine[c]

\* Faults seeded in ShutdownReturns: Shutdown is given no deadline; it is
\* abandoned at once, as Close does, and reported as a success.
ShutdownReturns_NoDeadline(c) == Drained(c) /\ UNCHANGED err
ShutdownReturns_AtOnce(c)     == UNCHANGED err

\* It waits until no request is in flight, for 10 seconds at most.
ShutdownReturns(c) ==
    err' = [err EXCEPT ![c] = IF Drained(c) THEN "nil" ELSE "timeout"]

\* First, though, for the accept loop, whatever the deadline.
Drain(c) ==
    /\ pc[c] = "drain"
    /\ phase[mine[c]] # "closing"
    /\ ShutdownReturns(c)
    /\ Goto(c, "await")
    /\ UNCHANGED <<cfg, srv, arg, mine, httpd, file, alone, untouched>>

\* <-done.  The server is garbage now; requests that outlive it, which a timed
\* out Shutdown leaves running, are not followed any further.
AwaitDone(c) ==
    /\ pc[c] = "await"
    /\ phase[mine[c]] = "dead"
    /\ StopReturns(c)
    /\ mine' = [mine EXCEPT ![c] = None]
    /\ err' = [err EXCEPT ![c] = "nil"]
    /\ served' = [served EXCEPT ![mine[c]] = None]
    /\ inflight' = [r \in Requests |-> IF inflight[r] = mine[c] THEN None
                                       ELSE inflight[r]]
    /\ UNCHANGED <<cfg, srv, phase, file, alone, untouched>>

----------------------------------------------------------------------------
(* SetConfig.                                                              *)

Setting(c) == arg[c] # None

CallSetConfig(c) ==
    /\ pc[c] = "idle"
    /\ \E i \in Inputs :
          IF Valid(i)
          THEN /\ arg' = [arg EXCEPT ![c] = Normalize(i)]
               /\ Goto(c, "save")
               /\ alone' = (alone /\ \A d \in Callers : ~Setting(d))
          ELSE Returns(c) /\ UNCHANGED alone
    /\ UNCHANGED <<cfg, srv, mine, err, httpd, file, untouched>>

\* os.WriteFile truncates the file and then writes it in place.
SaveOpen(c) ==
    /\ pc[c] = "save"
    /\ file' = Empty
    /\ untouched' = FALSE
    /\ Goto(c, "write")
    /\ UNCHANGED <<cfg, srv, arg, mine, err, httpd, alone>>

\* Over what another call has written since the truncation, the shorter text
\* leaves the tail of the longer one behind.
SaveWrite(c) ==
    /\ pc[c] = "write"
    /\ file' \in IF file \in {Empty, arg[c]} THEN {arg[c]} ELSE {arg[c], Torn}
    /\ Goto(c, "install")
    /\ UNCHANGED <<cfg, srv, arg, mine, err, httpd, alone, untouched>>

\* Fault seeded in SaveFails: SetConfig carries on without the file.
SaveFails_Ignored(c) ==
    /\ pc[c] \in {"save", "write"}
    /\ Goto(c, "install")
    /\ UNCHANGED <<cfg, srv, arg, mine, err, httpd, file, alone, untouched>>

\* No directory, no permission, no space: SetConfig returns the error; a write
\* that fails half way leaves what it wrote.
SaveFails(c) ==
    /\ pc[c] \in {"save", "write"}
    /\ file' = IF pc[c] = "save" THEN file ELSE Torn
    /\ Returns(c)
    /\ UNCHANGED <<cfg, srv, mine, err, httpd, alone, untouched>>

\* Fault seeded in NeedsRestart: only a new address is worth a restart.
NeedsRestart_Address(c) == srv # None /\ arg[c].listen # cfg.listen
NeedsRestart(c) == srv # None

Install(c) ==
    /\ pc[c] = "install"
    /\ cfg' = arg[c]
    /\ IF NeedsRestart(c) THEN Goto(c, "stop") /\ UNCHANGED arg
                          ELSE Returns(c)
    /\ UNCHANGED <<srv, mine, err, httpd, file, alone, untouched>>

----------------------------------------------------------------------------
(* Go's http.Server and the rest of the world.                             *)

handle == <<cfg, srv, local, file, alone, untouched>>

\* Serve registers the listener, or finds that Shutdown came first, closes the
\* listener and returns ErrServerClosed.
ServeBegins(s) ==
    /\ phase[s] \in {"spawned", "doomed"}
    /\ phase' = [phase EXCEPT ![s] = IF @ = "doomed" THEN "dead" ELSE "serving"]
    /\ UNCHANGED <<handle, served, inflight>>

\* Serve returns because the listener was closed; done is closed.
ServeEnds(s) ==
    /\ phase[s] = "closing"
    /\ phase' = [phase EXCEPT ![s] = "dead"]
    /\ UNCHANGED <<handle, served, inflight>>

\* Serve returns because accepting failed: the goroutine logs it and closes
\* done, and nothing else changes.
ServeFails(s) ==
    /\ phase[s] = "serving"
    /\ phase' = [phase EXCEPT ![s] = "dead"]
    /\ UNCHANGED <<handle, served, inflight>>

Accept(r, s) ==
    /\ inflight[r] = None
    /\ phase[s] = "serving"
    /\ inflight' = [inflight EXCEPT ![r] = s]
    /\ UNCHANGED <<handle, phase, served>>

Finish(r) ==
    /\ inflight[r] # None
    /\ inflight' = [inflight EXCEPT ![r] = None]
    /\ UNCHANGED <<handle, phase, served>>

----------------------------------------------------------------------------
Call(c)  == CallStart(c) \/ CallStop(c) \/ CallSetConfig(c)
Step(c)  == \/ Start(c)
            \/ StopTake(c) \/ Shutdown(c) \/ Drain(c) \/ AwaitDone(c)
            \/ SaveOpen(c) \/ SaveWrite(c) \/ SaveFails(c) \/ Install(c)
Serve(s) == ServeBegins(s) \/ ServeEnds(s)

Next ==
    \/ \E c \in Callers : Call(c) \/ Step(c)
    \/ \E s \in Servers : \/ Serve(s) \/ ServeFails(s)
                          \/ \E r \in Requests : Accept(r, s)
    \/ \E r \in Requests : Finish(r)

Spec == Init /\ [][Next]_vars

\* Goroutines keep running; neither a request's end, nor a failure, nor a
\* call, nor another process is assumed to happen.
FairSpec == /\ Spec
            /\ \A c \in Callers : WF_vars(Step(c))
            /\ \A s \in Servers : WF_vars(Serve(s))

----------------------------------------------------------------------------
\* A caller holds a server exactly from Stop's critical section to its end.
TypeOK ==
    /\ cfg \in Configs
    /\ srv \in Servers \cup {None}
    /\ pc \in [Callers -> {"idle", "start", "stop", "shutdown", "drain", "await",
                           "save", "write", "install"}]
    /\ arg \in [Callers -> Configs \cup {None}]
    /\ mine \in [Callers -> Servers \cup {None}]
    /\ err \in [Callers -> {"nil", "timeout"}]
    /\ phase \in [Servers -> Phases]
    /\ served \in [Servers -> Configs \cup {None}]
    /\ inflight \in [Requests -> Servers \cup {None}]
    /\ file \in Configs \cup {Absent, Empty, Torn}
    /\ alone \in BOOLEAN
    /\ untouched \in BOOLEAN
    /\ \A c \in Callers : /\ mine[c] # None <=> pc[c] \in {"shutdown", "drain", "await"}
                          /\ pc[c] = "idle" => arg[c] = None
                          /\ pc[c] \in {"save", "write", "install"} => arg[c] # None

\* No server is leaked and none is shared: one that runs or holds a port is
\* the Handle's or that of exactly one Stop in progress, which will end it.
Owners(s) == {c \in Callers : mine[c] = s}
NoLeakedServer == \A s \in Servers :
    phase[s] # "dead" \/ served[s] # None => s = srv \/ Owners(s) # {}
OneOwner == \A s \in Servers :
    /\ \A c, d \in Owners(s) : c = d
    /\ s = srv => Owners(s) = {}

\* The running server was built from the current configuration, but for the
\* moment between a SetConfig's critical section and its Stop's.
RestartPending == \E c \in Callers : pc[c] = "stop" /\ Setting(c)
ServesCurrentConfig == srv # None => served[srv] = cfg \/ RestartPending

\* Every server dials the WebSocket form of its own upstream origin.
ServesNormalized == \A s \in Servers : phase[s] # "dead" => served[s].ws = served[s].base

\* A Stop about to return nil leaves no request of its server in flight, and
\* nothing can have been accepted since Shutdown looked.
CleanStopDrained == \A c \in Callers :
    pc[c] = "await" /\ err[c] = "nil" => Drained(c)

\* With SetConfig calls one at a time, and from the first on that gets to open
\* the config file, a readable file holds the current configuration whenever no
\* call is in progress: the file is never ahead of the Handle after a failed
\* save, nor behind it after a good one.  Before that the process may run on
\* another configuration than the file it found (main.go:43-59).
FileAgrees ==
    alone /\ ~untouched /\ (\A c \in Callers : ~Setting(c)) /\ file \in Configs =>
        file = cfg

\* However the calls interleave, callers share one server that is off, or on with
\* the configuration it was turned on with, and that takes a new one only through
\* off; only valid, normalized configurations come into force.
Managed == INSTANCE ManagedServer
           WITH Acceptable <- {c \in Configs : Valid(c) /\ c.ws = c.base}, Off <- None,
                config <- cfg, on <- IF srv = None THEN None ELSE served[srv]
ImplementsManagedServer == Managed!Spec

\* Every call returns: no Stop waits for a request without end, for a server
\* that has died or for a Serve that came too late, and none waits for another.
CallsReturn == \A c \in Callers : pc[c] # "idle" ~> pc[c] = "idle"

----------------------------------------------------------------------------
(* What the documents say and the code does not do.                        *)

\* handle.go:14: all methods are safe for concurrent use, so overlapping
\* SetConfig calls leave the file and the Handle with one configuration.
FileAgreesConcurrently ==
    ~untouched /\ (\A c \in Callers : ~Setting(c)) /\ file \in Configs => file = cfg

\* Managed desktop app design, line 113: the status shown, which is Running,
\* reflects the real state of the server.
RunningIsServing == Running => phase[srv] # "dead"
=============================================================================
