---------------------------- MODULE HandleProofs ----------------------------
(***************************************************************************)
(* Proofs about Handle, for any number of callers, servers, requests and   *)
(* configurations.                                                         *)
(*                                                                         *)
(* The inductive invariant has four parts beyond the types: who owns each  *)
(* server (OwnInv), what it was built from (ConfigInv), what a Stop may    *)
(* rely on while it drains one (DrainInv) and what config.json holds       *)
(* (FileInv).  Each is kept by every step; the safety properties of Handle *)
(* follow from them state by state.                                        *)
(***************************************************************************)
EXTENDS Handle, TLAPS

\* Every server in use has one owner: the Handle or the Stop that took it.
OwnInv ==
    /\ \A c, d \in Callers : mine[c] # None /\ mine[c] = mine[d] => c = d
    /\ \A c \in Callers : mine[c] # None => mine[c] # srv /\ served[mine[c]] # None
    /\ srv # None => served[srv] # None
    /\ \A s \in Servers : phase[s] # "dead" \/ served[s] # None =>
                              s = srv \/ \E c \in Callers : mine[c] = s

\* Only normalized configurations get into the Handle and into its servers.
Normalized(c) == c.ws = c.base
ConfigInv ==
    /\ Normalized(cfg)
    /\ \A c \in Callers : arg[c] # None => Normalized(arg[c])
    /\ \A s \in Servers : served[s] # None => Normalized(served[s])
    /\ ServesCurrentConfig

\* Once Shutdown has seen a server it accepts nothing more.
DrainInv ==
    /\ \A c \in Callers : pc[c] \in {"drain", "await"} =>
                              phase[mine[c]] \in {"doomed", "closing", "dead"}
    /\ CleanStopDrained

\* While SetConfig calls do not overlap, the file follows the one in progress,
\* from the first on that opens it; until then it is whatever it was.
FileInv == alone =>
    /\ \A c, d \in Callers : Setting(c) /\ Setting(d) => c = d
    /\ ~untouched /\ file \in Configs => file = cfg \/ \E c \in Callers : pc[c] = "install"
    /\ \A c \in Callers : /\ pc[c] = "write" => file = Empty
                          /\ pc[c] = "install" => file = arg[c]

IInv == TypeOK /\ OwnInv /\ ConfigInv /\ DrainInv /\ FileInv

----------------------------------------------------------------------------
(* Types.                                                                  *)

LEMMA NormalizeType == ASSUME NEW i \in Configs, Valid(i)
                       PROVE  Normalize(i) \in Configs /\ Normalized(Normalize(i))
  BY DEF Normalize, Normalized, Configs, Valid

LEMMA NoneApart == /\ None \notin Servers /\ None \notin Configs
                   /\ Empty \notin Configs /\ Torn \notin Configs /\ Absent \notin Configs
  BY NoneAssumption, FileAssumption

LEMMA TypeStep == TypeOK /\ [Next]_vars => TypeOK'
<1> SUFFICES ASSUME TypeOK, [Next]_vars PROVE TypeOK'
  OBVIOUS
<1> USE NoneApart DEF TypeOK, Goto, Returns
<1>1. ASSUME NEW c \in Callers, CallStart(c) \/ CallStop(c) PROVE TypeOK'
  BY <1>1 DEF CallStart, CallStop, httpd
<1>2. ASSUME NEW c \in Callers, CallSetConfig(c) PROVE TypeOK'
  <2>1. PICK i \in Inputs :
            IF Valid(i)
            THEN /\ arg' = [arg EXCEPT ![c] = Normalize(i)]
                 /\ Goto(c, "save")
                 /\ alone' = (alone /\ \A d \in Callers : ~Setting(d))
            ELSE Returns(c) /\ UNCHANGED alone
    BY <1>2 DEF CallSetConfig
  <2>2. Valid(i) => Normalize(i) \in Configs
    BY InputsAssumption, NormalizeType
  <2>3. alone' \in BOOLEAN
    BY <2>1
  <2> QED
    BY <1>2, <2>1, <2>2, <2>3 DEF CallSetConfig, httpd
<1>3. ASSUME NEW c \in Callers, Start(c) PROVE TypeOK'
  BY <1>3 DEF Start, Launch, Phases, httpd
<1>4. ASSUME NEW c \in Callers, StopTake(c) PROVE TypeOK'
  BY <1>4 DEF StopTake, StopReturns, httpd
<1>5. ASSUME NEW c \in Callers, Shutdown(c) PROVE TypeOK'
  BY <1>5 DEF Shutdown, Phases
<1>6. ASSUME NEW c \in Callers, Drain(c) PROVE TypeOK'
  BY <1>6 DEF Drain, ShutdownReturns, httpd
<1>7. ASSUME NEW c \in Callers, AwaitDone(c) PROVE TypeOK'
  BY <1>7 DEF AwaitDone, StopReturns
<1>8. ASSUME NEW c \in Callers, SaveOpen(c) \/ SaveWrite(c) PROVE TypeOK'
  <2>1. CASE SaveOpen(c)
    BY <2>1 DEF SaveOpen, httpd
  <2>2. CASE SaveWrite(c)
    BY <2>2 DEF SaveWrite, httpd
  <2> QED
    BY <1>8, <2>1, <2>2
<1>9. ASSUME NEW c \in Callers, SaveFails(c) PROVE TypeOK'
  BY <1>9 DEF SaveFails, httpd
<1>10. ASSUME NEW c \in Callers, Install(c) PROVE TypeOK'
  BY <1>10 DEF Install, httpd
<1>11. ASSUME NEW s \in Servers, Serve(s) \/ ServeFails(s) PROVE TypeOK'
  BY <1>11 DEF Serve, ServeBegins, ServeEnds, ServeFails, handle, local, Phases
<1>12. ASSUME NEW r \in Requests, NEW s \in Servers, Accept(r, s) PROVE TypeOK'
  BY <1>12 DEF Accept, handle, local
<1>13. ASSUME NEW r \in Requests, Finish(r) PROVE TypeOK'
  BY <1>13 DEF Finish, handle, local
<1>14. CASE UNCHANGED vars
  BY <1>14 DEF vars
<1> QED
  BY <1>1, <1>2, <1>3, <1>4, <1>5, <1>6, <1>7, <1>8, <1>9, <1>10, <1>11, <1>12, <1>13,
     <1>14 DEF Next, Call, Step


----------------------------------------------------------------------------
(* Ownership of the servers.                                               *)

\* The steps of Stop and Start move a server between its owners, the steps of
\* http.Server only between phases that are not "dead", and to "dead".
LEMMA OwnStep == TypeOK /\ OwnInv /\ [Next]_vars => OwnInv'
<1> SUFFICES ASSUME TypeOK, OwnInv, [Next]_vars PROVE OwnInv'
  OBVIOUS
<1> USE NoneApart DEF TypeOK, OwnInv
<1>1. CASE UNCHANGED <<srv, mine, phase, served>>
  BY <1>1
<1>2. ASSUME NEW c \in Callers, Start(c) PROVE OwnInv'
  <2>1. ASSUME NEW s \in Servers, served[s] = None, Launch(s), srv = None, mine' = mine
        PROVE  OwnInv'
    BY <2>1 DEF Launch
  <2> QED
    BY <1>1, <1>2, <2>1 DEF Start, AlreadyStarted, httpd
<1>3. ASSUME NEW c \in Callers, StopTake(c) PROVE OwnInv'
  <2>1. mine[c] = None /\ mine' = [mine EXCEPT ![c] = srv] /\ srv' = None
        /\ UNCHANGED <<phase, served>>
    BY <1>3 DEF StopTake, httpd
  <2> QED
    BY <2>1
<1>4. ASSUME NEW c \in Callers, Shutdown(c) PROVE OwnInv'
  BY <1>4 DEF Shutdown
<1>5. ASSUME NEW c \in Callers, AwaitDone(c) PROVE OwnInv'
  <2>1. mine[c] \in Servers /\ phase[mine[c]] = "dead"
    BY <1>5 DEF AwaitDone
  <2>2. /\ mine' = [mine EXCEPT ![c] = None] /\ UNCHANGED <<srv, phase>>
        /\ served' = [served EXCEPT ![mine[c]] = None]
    BY <1>5 DEF AwaitDone
  <2> QED
    BY <2>1, <2>2
<1>6. ASSUME NEW s \in Servers, Serve(s) \/ ServeFails(s) PROVE OwnInv'
  BY <1>6 DEF Serve, ServeBegins, ServeEnds, ServeFails, handle, local
<1>7. ASSUME NEW c \in Callers,
             \/ Call(c) \/ Drain(c)
             \/ SaveOpen(c) \/ SaveWrite(c) \/ SaveFails(c) \/ Install(c)
      PROVE  OwnInv'
  <2>1. UNCHANGED <<srv, mine, phase, served>>
    BY <1>7 DEF Call, CallStart, CallStop, CallSetConfig, Drain, SaveOpen, SaveWrite,
                SaveFails, Install, httpd
  <2> QED
    BY <1>1, <2>1
<1>8. ASSUME NEW r \in Requests, NEW s \in Servers, Accept(r, s) PROVE OwnInv'
  BY <1>1, <1>8 DEF Accept, handle, local
<1>9. ASSUME NEW r \in Requests, Finish(r) PROVE OwnInv'
  BY <1>1, <1>9 DEF Finish, handle, local
<1>10. CASE UNCHANGED vars
  BY <1>1, <1>10 DEF vars
<1> QED
  BY <1>2, <1>3, <1>4, <1>5, <1>6, <1>7, <1>8, <1>9, <1>10 DEF Next, Step

----------------------------------------------------------------------------
(* What the servers were built from.                                       *)

LEMMA ConfigStep == TypeOK /\ OwnInv /\ ConfigInv /\ [Next]_vars => ConfigInv'
<1> SUFFICES ASSUME TypeOK, OwnInv, ConfigInv, [Next]_vars PROVE ConfigInv'
  OBVIOUS
<1> USE NoneApart DEF TypeOK, ConfigInv, ServesCurrentConfig, RestartPending, Setting
<1>1. CASE UNCHANGED <<cfg, srv, pc, arg, served>>
  BY <1>1 DEF Normalized
<1>2. ASSUME NEW c \in Callers, Start(c) PROVE ConfigInv'
  <2>1. pc[c] = "start" /\ cfg' = cfg /\ Returns(c)
    BY <1>2 DEF Start
  <2>2. CASE UNCHANGED <<srv, served>>
    BY <2>1, <2>2 DEF Returns, Normalized
  <2>3. ASSUME NEW s \in Servers, served[s] = None, Launch(s) PROVE ConfigInv'
    BY <2>1, <2>3 DEF Launch, Returns, Normalized
  <2> QED
    BY <1>2, <2>2, <2>3 DEF Start, httpd
<1>3. ASSUME NEW c \in Callers, StopTake(c) PROVE ConfigInv'
  <2>1. srv' = None /\ UNCHANGED <<cfg, served>>
    BY <1>3 DEF StopTake, httpd
  <2>2. arg' = arg \/ arg' = [arg EXCEPT ![c] = None]
    BY <1>3 DEF StopTake, StopReturns, Returns
  <2> QED
    BY <2>1, <2>2 DEF Normalized
<1>4. ASSUME NEW c \in Callers, AwaitDone(c) PROVE ConfigInv'
  <2>1. /\ pc[c] = "await" /\ UNCHANGED <<cfg, srv>> /\ mine[c] \in Servers
        /\ served' = [served EXCEPT ![mine[c]] = None]
    BY <1>4 DEF AwaitDone
  <2>2. /\ arg' = arg \/ arg' = [arg EXCEPT ![c] = None]
        /\ \A d \in Callers : d # c => pc'[d] = pc[d] /\ arg'[d] = arg[d]
    BY <1>4 DEF AwaitDone, StopReturns, Returns, Goto
  <2>3. mine[c] # srv
    BY <2>1 DEF OwnInv
  <2> QED
    BY <2>1, <2>2, <2>3 DEF Normalized
<1>5. ASSUME NEW c \in Callers, CallSetConfig(c) PROVE ConfigInv'
  <2>1. /\ pc[c] = "idle" /\ UNCHANGED <<cfg, srv, served>>
        /\ \A d \in Callers : d # c => pc'[d] = pc[d] /\ arg'[d] = arg[d]
    BY <1>5 DEF CallSetConfig, Goto, Returns, httpd
  <2>2. arg'[c] # None => Normalized(arg'[c])
    BY <1>5, InputsAssumption, NormalizeType DEF CallSetConfig, Returns
  <2> QED
    BY <2>1, <2>2 DEF Normalized
<1>6. ASSUME NEW c \in Callers, Install(c) PROVE ConfigInv'
  <2>1. pc[c] = "install" /\ arg[c] # None /\ cfg' = arg[c] /\ UNCHANGED <<srv, served>>
    BY <1>6 DEF Install, httpd
  <2>2. CASE srv # None
    BY <1>6, <2>1, <2>2 DEF Install, NeedsRestart, Goto, Normalized
  <2>3. CASE srv = None
    BY <1>6, <2>1, <2>3 DEF Install, NeedsRestart, Returns, Normalized
  <2> QED
    BY <2>2, <2>3
<1>7. ASSUME NEW c \in Callers, SaveFails(c) PROVE ConfigInv'
  BY <1>7 DEF SaveFails, Returns, Normalized, httpd
<1>8. ASSUME NEW c \in Callers,
             \/ CallStart(c) \/ CallStop(c) \/ Shutdown(c) \/ Drain(c)
             \/ SaveOpen(c) \/ SaveWrite(c)
      PROVE  ConfigInv'
  <2>1. UNCHANGED <<cfg, srv, arg, served>> /\ pc[c] # "stop"
        /\ \A d \in Callers : d # c => pc'[d] = pc[d]
    BY <1>8 DEF CallStart, CallStop, Shutdown, Drain, SaveOpen, SaveWrite, Goto, httpd
  <2> QED
    BY <2>1 DEF Normalized
<1>9. ASSUME NEW s \in Servers, Serve(s) \/ ServeFails(s) PROVE ConfigInv'
  BY <1>1, <1>9 DEF Serve, ServeBegins, ServeEnds, ServeFails, handle, local
<1>10. ASSUME NEW r \in Requests, NEW s \in Servers, Accept(r, s) PROVE ConfigInv'
  BY <1>1, <1>10 DEF Accept, handle, local
<1>11. ASSUME NEW r \in Requests, Finish(r) PROVE ConfigInv'
  BY <1>1, <1>11 DEF Finish, handle, local
<1>12. CASE UNCHANGED vars
  BY <1>1, <1>12 DEF vars
<1> QED
  BY <1>2, <1>3, <1>4, <1>5, <1>6, <1>7, <1>8, <1>9, <1>10, <1>11, <1>12
     DEF Next, Call, Step


----------------------------------------------------------------------------
(* What a Stop may rely on while it drains its server.                     *)

LEMMA DrainStep == TypeOK /\ OwnInv /\ DrainInv /\ [Next]_vars => DrainInv'
<1> SUFFICES ASSUME TypeOK, OwnInv, DrainInv, [Next]_vars PROVE DrainInv'
  OBVIOUS
<1> USE NoneApart DEF TypeOK, DrainInv, CleanStopDrained, Drained
<1>1. CASE UNCHANGED <<pc, mine, err, phase, inflight>>
  BY <1>1
<1>2. ASSUME NEW c \in Callers, Start(c) PROVE DrainInv'
  <2>1. /\ pc' = [pc EXCEPT ![c] = "idle"] /\ UNCHANGED <<mine, err, inflight>>
        /\ \/ phase' = phase
           \/ \E s \in Servers : served[s] = None /\ phase' = [phase EXCEPT ![s] = "spawned"]
    BY <1>2 DEF Start, Returns, Launch, httpd
  <2>2. \A d \in Callers : pc'[d] \in {"drain", "await"} =>
            pc'[d] = pc[d] /\ phase'[mine[d]] = phase[mine[d]]
    BY <2>1 DEF OwnInv
  <2> QED
    BY <2>1, <2>2
<1>3. ASSUME NEW c \in Callers, Shutdown(c) PROVE DrainInv'
  <2>1. /\ pc[c] = "shutdown" /\ pc' = [pc EXCEPT ![c] = "drain"] /\ mine[c] \in Servers
        /\ UNCHANGED <<mine, err, inflight>>
        /\ phase'[mine[c]] \in {"doomed", "closing", "dead"}
        /\ \A s \in Servers : s # mine[c] => phase'[s] = phase[s]
    BY <1>3 DEF Shutdown, Goto, Phases
  <2> QED
    BY <2>1 DEF OwnInv
<1>4. ASSUME NEW c \in Callers, Drain(c) PROVE DrainInv'
  BY <1>4 DEF Drain, ShutdownReturns, Goto, httpd
<1>5. ASSUME NEW c \in Callers, AwaitDone(c) PROVE DrainInv'
  <2>1. /\ mine' = [mine EXCEPT ![c] = None] /\ err' = [err EXCEPT ![c] = "nil"]
        /\ phase' = phase /\ pc'[c] \in {"idle", "start"}
        /\ \A d \in Callers : d # c => pc'[d] = pc[d]
        /\ \A r \in Requests : inflight'[r] \in {None, inflight[r]}
    BY <1>5 DEF AwaitDone, StopReturns, Returns, Goto
  <2> QED
    BY <2>1
<1>6. ASSUME NEW s \in Servers, Serve(s) \/ ServeFails(s) PROVE DrainInv'
  BY <1>6 DEF Serve, ServeBegins, ServeEnds, ServeFails, handle, local
<1>7. ASSUME NEW r \in Requests, NEW s \in Servers, Accept(r, s) PROVE DrainInv'
  <2>1. /\ phase[s] = "serving" /\ inflight' = [inflight EXCEPT ![r] = s]
        /\ UNCHANGED <<pc, mine, err, phase>>
    BY <1>7 DEF Accept, handle, local
  <2> QED
    BY <2>1
<1>8. ASSUME NEW r \in Requests, Finish(r) PROVE DrainInv'
  BY <1>8 DEF Finish, handle, local
<1>9. ASSUME NEW c \in Callers,
             \/ Call(c) \/ StopTake(c)
             \/ SaveOpen(c) \/ SaveWrite(c) \/ SaveFails(c) \/ Install(c)
      PROVE  DrainInv'
  <2>1. /\ pc'[c] \notin {"drain", "await"} /\ UNCHANGED <<err, phase, inflight>>
        /\ \A d \in Callers : d # c => pc'[d] = pc[d] /\ mine'[d] = mine[d]
    BY <1>9 DEF Call, CallStart, CallStop, CallSetConfig, StopTake, StopReturns, SaveOpen,
                SaveWrite, SaveFails, Install, Goto, Returns, httpd
  <2> QED
    BY <2>1
<1>10. CASE UNCHANGED vars
  BY <1>1, <1>10 DEF vars
<1> QED
  BY <1>2, <1>3, <1>4, <1>5, <1>6, <1>7, <1>8, <1>9, <1>10 DEF Next, Step

----------------------------------------------------------------------------
(* The config file.                                                        *)

LEMMA FileStep == TypeOK /\ FileInv /\ [Next]_vars => FileInv'
<1> SUFFICES ASSUME TypeOK, FileInv, [Next]_vars, alone' PROVE FileInv'
  BY DEF FileInv
<1> USE NoneApart DEF TypeOK, Setting
<1>1. alone
  BY DEF Next, Call, CallStart, CallStop, CallSetConfig, Step, Start, StopTake, Shutdown,
     Drain, AwaitDone, SaveOpen, SaveWrite, SaveFails, Install, Serve, ServeBegins,
     ServeEnds, ServeFails, Accept, Finish, handle, vars
<1>2. \A c, d \in Callers : arg[c] # None /\ arg[d] # None => c = d
  BY <1>1 DEF FileInv
<1>3. CASE UNCHANGED <<cfg, file, pc, arg, untouched>>
  BY <1>1, <1>3 DEF FileInv
<1>4. ASSUME NEW c \in Callers, CallSetConfig(c) PROVE FileInv'
  <2>1. /\ pc[c] = "idle" /\ UNCHANGED <<cfg, file, untouched>>
        /\ pc'[c] \in {"idle", "save"}
        /\ \A d \in Callers : d # c => pc'[d] = pc[d] /\ arg'[d] = arg[d]
    BY <1>4 DEF CallSetConfig, Goto, Returns
  <2>2. arg'[c] # None => \A d \in Callers : arg[d] = None
    BY <1>4 DEF CallSetConfig, Returns
  <2> QED
    BY <1>1, <1>2, <2>1, <2>2 DEF FileInv
<1>5. ASSUME NEW c \in Callers, SaveOpen(c) PROVE FileInv'
  BY <1>1, <1>2, <1>5 DEF SaveOpen, Goto, FileInv
<1>6. ASSUME NEW c \in Callers, SaveWrite(c) PROVE FileInv'
  <2>1. file = Empty
    BY <1>1, <1>6 DEF SaveWrite, FileInv
  <2>2. file' = arg[c] /\ pc' = [pc EXCEPT ![c] = "install"] /\ UNCHANGED <<cfg, arg>>
    BY <1>6, <2>1 DEF SaveWrite, Goto
  <2>3. \A d \in Callers : d # c => pc[d] \notin {"write", "install"}
    BY <1>2, <1>6 DEF SaveWrite
  <2> QED
    BY <1>1, <1>2, <2>2, <2>3 DEF FileInv
<1>7. ASSUME NEW c \in Callers, SaveFails(c) PROVE FileInv'
  <2>1. /\ pc[c] \in {"save", "write"} /\ cfg' = cfg /\ untouched' = untouched
        /\ pc' = [pc EXCEPT ![c] = "idle"] /\ arg' = [arg EXCEPT ![c] = None]
        /\ file' = file \/ file' = Torn
    BY <1>7 DEF SaveFails, Returns
  <2>2. \A d \in Callers : d # c => pc[d] \notin {"write", "install"}
    BY <1>2, <2>1
  <2> QED
    BY <1>1, <1>2, <2>1, <2>2 DEF FileInv
<1>8. ASSUME NEW c \in Callers, Install(c) PROVE FileInv'
  <2>1. /\ pc[c] = "install" /\ file = arg[c] /\ cfg' = arg[c] /\ file' = file
        /\ pc'[c] \in {"idle", "stop"} /\ arg'[c] \in {None, arg[c]}
        /\ \A d \in Callers : d # c => pc'[d] = pc[d] /\ arg'[d] = arg[d]
    BY <1>1, <1>8 DEF Install, Goto, Returns, FileInv
  <2>2. \A d \in Callers : d # c => pc[d] \notin {"write", "install"}
    BY <1>2, <2>1
  <2> QED
    BY <1>1, <1>2, <2>1, <2>2 DEF FileInv
<1>9. ASSUME NEW c \in Callers,
             \/ CallStart(c) \/ CallStop(c) \/ Start(c) \/ StopTake(c)
             \/ Shutdown(c) \/ Drain(c) \/ AwaitDone(c)
      PROVE  FileInv'
  <2>1. /\ pc[c] \notin {"save", "write", "install"} /\ UNCHANGED <<cfg, file, untouched>>
        /\ pc'[c] \notin {"save", "write", "install"} /\ arg'[c] \in {None, arg[c]}
        /\ \A d \in Callers : d # c => pc'[d] = pc[d] /\ arg'[d] = arg[d]
    <3>1. CASE CallStart(c) \/ CallStop(c) \/ Shutdown(c) \/ Drain(c)
      BY <3>1 DEF CallStart, CallStop, Shutdown, Drain, Goto
    <3>2. CASE Start(c)
      BY <3>2 DEF Start, Returns
    <3>3. CASE StopTake(c)
      BY <3>3 DEF StopTake, StopReturns, Goto, Returns
    <3>4. CASE AwaitDone(c)
      BY <3>4 DEF AwaitDone, StopReturns, Goto, Returns
    <3> QED
      BY <1>9, <3>1, <3>2, <3>3, <3>4
  <2> QED
    BY <1>1, <1>2, <2>1 DEF FileInv
<1>10. ASSUME NEW s \in Servers, Serve(s) \/ ServeFails(s) PROVE FileInv'
  BY <1>3, <1>10 DEF Serve, ServeBegins, ServeEnds, ServeFails, handle, local
<1>11. ASSUME NEW r \in Requests, NEW s \in Servers, Accept(r, s) PROVE FileInv'
  BY <1>3, <1>11 DEF Accept, handle, local
<1>12. ASSUME NEW r \in Requests, Finish(r) PROVE FileInv'
  BY <1>3, <1>12 DEF Finish, handle, local
<1>13. CASE UNCHANGED vars
  BY <1>3, <1>13 DEF vars
<1> QED
  BY <1>4, <1>5, <1>6, <1>7, <1>8, <1>9, <1>10, <1>11, <1>12, <1>13
     DEF Next, Call, Step

----------------------------------------------------------------------------
LEMMA InitInv == Init => IInv
<1> SUFFICES ASSUME Init PROVE IInv
  OBVIOUS
<1> USE NoneApart, InitialAssumption, FoundAssumption DEF Init
<1>1. TypeOK
  BY DEF TypeOK, Phases
<1>2. OwnInv
  BY DEF OwnInv
<1>3. ConfigInv
  BY DEF ConfigInv, Normalized, ServesCurrentConfig
<1>4. DrainInv /\ FileInv
  BY DEF DrainInv, CleanStopDrained, FileInv, Setting
<1> QED
  BY <1>1, <1>2, <1>3, <1>4 DEF IInv

THEOREM Invariance == Spec => []IInv
<1>1. IInv /\ [Next]_vars => IInv'
  BY TypeStep, OwnStep, ConfigStep, DrainStep, FileStep DEF IInv
<1> QED
  BY <1>1, InitInv, PTL DEF Spec

\* Every variable stays in its type, and a caller holds a server exactly while
\* its Stop is past the critical section.
THEOREM TypeCorrect == Spec => []TypeOK
<1>1. IInv => TypeOK
  BY DEF IInv
<1> QED
  BY <1>1, Invariance, PTL

\* However Start, Stop and SetConfig interleave, every server that runs or
\* holds a port has somebody who will stop it.
THEOREM NothingLeaks == Spec => []NoLeakedServer
<1>1. IInv => NoLeakedServer
  BY DEF IInv, OwnInv, NoLeakedServer, Owners
<1> QED
  BY <1>1, Invariance, PTL

\* ... and that is one party only: no server is shut down twice, and none that
\* the Handle still counts on.
THEOREM SingleOwner == Spec => []OneOwner
<1>1. IInv => OneOwner
  BY NoneApart DEF IInv, TypeOK, OwnInv, OneOwner, Owners
<1> QED
  BY <1>1, Invariance, PTL

\* The server in the Handle was built from the Handle's configuration, unless
\* a SetConfig is between its critical section and its Stop.
THEOREM Current == Spec => []ServesCurrentConfig
<1>1. IInv => ServesCurrentConfig
  BY DEF IInv, ConfigInv
<1> QED
  BY <1>1, Invariance, PTL

\* No server ever dials a WebSocket origin other than its configuration's.
THEOREM AllNormalized == Spec => []ServesNormalized
<1>1. IInv => ServesNormalized
  <2> SUFFICES ASSUME IInv, NEW s \in Servers, phase[s] # "dead"
               PROVE  served[s].ws = served[s].base
    BY DEF ServesNormalized
  <2>1. served[s] # None
    BY NoneApart DEF IInv, TypeOK, OwnInv
  <2> QED
    BY <2>1 DEF IInv, ConfigInv, Normalized
<1> QED
  BY <1>1, Invariance, PTL

\* A Stop that is about to return nil has left no request behind.
THEOREM CleanStops == Spec => []CleanStopDrained
<1>1. IInv => CleanStopDrained
  BY DEF IInv, DrainInv
<1> QED
  BY <1>1, Invariance, PTL

\* Whatever config.json a start finds: with SetConfig one at a time, once one has
\* opened the file, a readable file is the configuration in use.
THEOREM FileFollows == Spec => []FileAgrees
<1>1. IInv => FileAgrees
  <2> SUFFICES ASSUME IInv, alone, ~untouched, file \in Configs,
                      \A c \in Callers : ~Setting(c)
               PROVE  file = cfg
    BY DEF FileAgrees
  <2>1. \A c \in Callers : pc[c] # "install"
    BY DEF IInv, TypeOK, Setting
  <2> QED
    BY <2>1 DEF IInv, FileInv
<1> QED
  BY <1>1, Invariance, PTL

\* The safety half of CallsReturn: a Stop past Shutdown waits for a server whose
\* goroutine in Serve has nothing left but to end, and is alone in waiting for it.
StopCanEnd == \A c \in Callers : pc[c] \in {"drain", "await"} =>
    /\ phase[mine[c]] \in {"doomed", "closing", "dead"}
    /\ \A d \in Callers \ {c} : mine[d] # mine[c]

\* No Stop ever waits for a server that may go on serving.
THEOREM StopsCanEnd == Spec => []StopCanEnd
<1>1. IInv => StopCanEnd
  BY DEF IInv, TypeOK, OwnInv, DrainInv, StopCanEnd
<1> QED
  BY <1>1, Invariance, PTL

----------------------------------------------------------------------------
(* The refinement of ManagedServer.                                        *)

\* What a SetConfig in progress carries has passed Validate.
ValidInv == \A c \in Callers : Setting(c) => Valid(arg[c])

LEMMA ValidStep == TypeOK /\ ValidInv /\ [Next]_vars => ValidInv'
<1> SUFFICES ASSUME TypeOK, ValidInv, [Next]_vars PROVE ValidInv'
  OBVIOUS
<1> USE NoneApart DEF TypeOK, ValidInv, Setting, Valid
<1>1. CASE UNCHANGED arg
  BY <1>1
<1>2. ASSUME NEW c \in Callers, arg' = [arg EXCEPT ![c] = None] PROVE ValidInv'
  BY <1>2
<1>3. ASSUME NEW c \in Callers, CallSetConfig(c) PROVE ValidInv'
  <2>1. PICK i \in Inputs : IF Valid(i) THEN arg' = [arg EXCEPT ![c] = Normalize(i)]
                                        ELSE arg' = [arg EXCEPT ![c] = None]
    BY <1>3 DEF CallSetConfig, Returns
  <2>2. Valid(i) => Normalize(i).base # NoUpstream
    BY InputsAssumption DEF Normalize, Configs
  <2> QED
    BY <2>1, <2>2
<1>4. ASSUME NEW c \in Callers, Call(c) \/ Step(c) PROVE ValidInv'
  <2>1. CallSetConfig(c) \/ UNCHANGED arg \/ arg' = [arg EXCEPT ![c] = None]
    BY <1>4 DEF Call, CallStart, CallStop, Step, Start, StopTake, StopReturns, Shutdown,
                Drain, AwaitDone, SaveOpen, SaveWrite, SaveFails, Install, Returns
  <2> QED
    BY <2>1, <1>1, <1>2, <1>3
<1>5. ASSUME NEW s \in Servers, Serve(s) \/ ServeFails(s) \/ \E r \in Requests : Accept(r, s)
      PROVE  ValidInv'
  BY <1>1, <1>5 DEF Serve, ServeBegins, ServeEnds, ServeFails, Accept, handle, local
<1>6. ASSUME NEW r \in Requests, Finish(r) PROVE ValidInv'
  BY <1>1, <1>6 DEF Finish, handle, local
<1> QED
  BY <1>1, <1>4, <1>5, <1>6 DEF Next, vars

\* Only Start turns the server on, only Stop's critical section turns it off, and
\* only SetConfig's gives it a configuration; everything else is a stutter.
LEMMA ManagedStep == IInv /\ ValidInv /\ [Next]_vars => [Managed!Next]_(Managed!vars)
<1> SUFFICES ASSUME IInv, ValidInv, [Next]_vars PROVE [Managed!Next]_(Managed!vars)
  OBVIOUS
<1> USE NoneApart DEF IInv, TypeOK, Managed!Next, Managed!vars, Managed!Configure,
                      Managed!TurnOn, Managed!TurnOff
<1>1. CASE UNCHANGED <<cfg, srv, served>>
  BY <1>1
<1>2. ASSUME NEW c \in Callers, Start(c) PROVE [Managed!Next]_(Managed!vars)
  <2>1. ASSUME NEW s \in Servers, Launch(s), srv = None, cfg' = cfg
        PROVE  Managed!TurnOn
    BY <2>1 DEF Launch
  <2> QED
    BY <1>1, <1>2, <2>1 DEF Start, AlreadyStarted, httpd
<1>3. ASSUME NEW c \in Callers, StopTake(c) PROVE [Managed!Next]_(Managed!vars)
  <2>1. srv' = None /\ UNCHANGED <<cfg, served>>
    BY <1>3 DEF StopTake, httpd
  <2>2. srv # None => served[srv] # None
    BY DEF OwnInv
  <2> QED
    BY <2>1, <2>2
<1>4. ASSUME NEW c \in Callers, AwaitDone(c) PROVE UNCHANGED Managed!vars
  <2>1. mine[c] # srv /\ mine[c] \in Servers
    BY <1>4 DEF AwaitDone, OwnInv
  <2>2. served' = [served EXCEPT ![mine[c]] = None] /\ UNCHANGED <<cfg, srv>>
    BY <1>4 DEF AwaitDone
  <2> QED
    BY <2>1, <2>2
<1>5. ASSUME NEW c \in Callers, Install(c) PROVE Managed!Configure
  <2>1. arg[c] \in Configs /\ Valid(arg[c]) /\ arg[c].ws = arg[c].base
    BY <1>5 DEF Install, ValidInv, Setting, ConfigInv, Normalized
  <2>2. cfg' = arg[c] /\ UNCHANGED <<srv, served>>
    BY <1>5 DEF Install, httpd
  <2> QED
    BY <2>1, <2>2
<1>6. ASSUME NEW c \in Callers, Call(c) PROVE UNCHANGED <<cfg, srv, served>>
  BY <1>6 DEF Call, CallStart, CallStop, CallSetConfig, httpd
<1>7. ASSUME NEW c \in Callers,
             Shutdown(c) \/ Drain(c) \/ SaveOpen(c) \/ SaveWrite(c) \/ SaveFails(c)
      PROVE  UNCHANGED <<cfg, srv, served>>
  BY <1>7 DEF Shutdown, Drain, SaveOpen, SaveWrite, SaveFails, httpd
<1>8. ASSUME NEW s \in Servers, Serve(s) \/ ServeFails(s) \/ \E r \in Requests : Accept(r, s)
      PROVE  UNCHANGED <<cfg, srv, served>>
  BY <1>8 DEF Serve, ServeBegins, ServeEnds, ServeFails, Accept, handle
<1>9. ASSUME NEW r \in Requests, Finish(r) PROVE UNCHANGED <<cfg, srv, served>>
  BY <1>9 DEF Finish, handle
<1> QED
  BY <1>1, <1>2, <1>3, <1>4, <1>5, <1>6, <1>7, <1>8, <1>9 DEF Next, Step, vars, httpd

\* Whoever shares the Handle sees one server that is off, or on with one acceptable
\* configuration at a time.
THEOREM Refinement == Spec => ImplementsManagedServer
<1>1. Init => Managed!Init /\ ValidInv
  BY DEF Init, Managed!Init, ValidInv, Setting
<1>2. TypeOK /\ ValidInv /\ [Next]_vars => ValidInv'
  BY ValidStep
<1>3. IInv => TypeOK
  BY DEF IInv
<1>4. IInv /\ ValidInv /\ [Next]_vars => [Managed!Next]_(Managed!vars)
  BY ManagedStep
<1> QED
  BY <1>1, <1>2, <1>3, <1>4, Invariance, PTL DEF Spec, ImplementsManagedServer, Managed!Spec
=============================================================================
