# A formal model of cc2ws

cc2ws is a small Go program: a local HTTP server that takes the requests of LLM
clients (OpenAI chat, OpenAI responses, Anthropic messages), opens one WebSocket
to an upstream per request, sends the body as one text message and relays the
messages that come back as an HTTP event stream. A terminal or a window frontend
starts, stops and configures that server and shows its log. This directory holds
TLA+ modules of its core, the TLC runs that check them and proofs about them for
TLAPS. The source of truth is the Go code; every operator that models code is
mapped to its lines in `PROJECT.json`.

## 1. Inventory

| Component | Source | State it keeps | Operations | Hard behaviours |
|---|---|---|---|---|
| Request proxy | `internal/core/proxy.go`, `routes.go`, `logging.go` | per request: the handler's position, status recorder, response headers, the WebSocket | route, read the body, dial, send, pump, answer 502/504, close, log | every call can fail or time out; the header is set before the outcome is known; the client leaves or stalls |
| Frame pumps | `internal/core/frames.go` | count of relayed frames | read, relay, end, fault frame | timeout before, between and after frames; terminal events; write errors |
| Logger | `internal/core/logger.go` | ring, head, count, subscriber channels, dropped flags, a mutex | log, snapshot, subscribe, unsubscribe | blocking sends under the mutex; slow subscribers; the wrap of the ring |
| Server handle | `internal/core/handle.go`, `server.go` | configuration, current `http.Server`, its `done` channel, a mutex | Start, Stop, SetConfig, Running | three methods that release the mutex in the middle; servers that die; bounded shutdown; failed binds |
| Configuration | `internal/core/config.go` | `config.json`, the environment | load, save, validate, normalize | precedence of sources; a torn file; a value that is valid in one form and not in the other |
| Updater | `internal/core/updater.go` | the executable on disk | check, download, verify, replace | overlapping clicks; each step failing alone |
| Command | `cmd/cc2ws/main.go`, `app/frontend.go` | the process environment, the signal context | flags, load, choose a frontend | flags shadow saved settings; a signal at any moment |
| Terminal frontend | `app/tui/tui.go` | model of the screen, a log subscription | event loop, keys, log pump | the loop calls Stop, which logs, while the pump feeds the loop |
| Window frontend | `app/gui/gui.go` | form, status line, a log subscription | clicks, save, revert, check and apply updates | goroutine per click, state shared with the loop; a status set by hand; a loop that blocks in Gio |
| Localisation | `internal/i18n/i18n.go` | the language | T, SetLang | it changes at once, the setting only with Save |
| Autostart | `internal/autostart/` | a file, registry key or plist | enable, disable, isEnabled | a third copy of one setting, which the system may refuse, hide or lose |

How they meet. A frontend owns one `Handle`; the Handle owns at most one
`http.Server`; the server's router captures the configuration when it is built and
creates one handler goroutine per request. All of them write to one `Logger`; the
frontends are its subscribers. Requests share nothing else with each other.

What makes each correct:

* **Request proxy and pumps**: the client gets one well-formed response - one body
  under its own status, or a gap-free prefix of the upstream's messages under 200
  with at most one fault frame at the end; what is logged is what was sent; the
  WebSocket is released; the request ends unless client or upstream never lets it.
* **Logger**: a subscriber sees the log's tail and then every entry in order, once,
  or is flagged; nobody who logs ever waits for a reader.
* **Handle**: one server at a time that somebody will stop, built from the current
  configuration; a clean Stop leaves nothing behind; calls return.
* **Configuration**: what was saved is what is loaded; nothing invalid is served.
* **Updater**: nothing unverified replaces the executable.
* **Frontends**: the status shown is the server's; the loop never waits for itself; a
  signal ends the loop, and no way out leaves a server behind.
* **Autostart and language**: the box shows what is registered; what was saved is what
  is registered and spoken, and a start restores it.

The list of hazards, each at its line, is `hazards` in `PROJECT.json`.

## 2. Plan

| Order | Module | What | State |
|---|---|---|---|
| 1 | `ResponseContract`, `Proxy` | one request, against the abstract response | checked |
| 2 | `ProxyProofs` | its inductive invariant, its safety properties and the refinement | proved |
| 3 | `LogStream`, `Logger` | the logger, against the abstract subscriber log | checked |
| 4 | `Handle` | the server lifecycle and the config file | checked |
| 5 | `HandleProofs` | ownership of servers, currency of the configuration, clean stops, the file | proved |
| 6 | `LoggerProofs` | the ring for every capacity, `FillFits`, `GapIsFlagged`, the refinement of `LogStream` | proved |
| 7 | `Config` | sources of values, precedence, crashes while saving, later runs of the program | checked |
| 8 | `Updater` | check, verify, replace, with overlapping clicks and changing releases | checked |
| 9 | `ManagedServer` | what `Handle` promises its callers; the refinement is proved in `HandleProofs` | checked, proved |
| 10 | `Frontend` | the process around the server: start, event loop, log pump, status line, signal, exit; composes `Handle` | checked |
| 11 | `Settings`, `SettingsProofs` | language and autostart in their four places, over restarts | checked, proved |
| 12 | `UpdaterProofs` | `OnlyVerified` and `NeverOlder` for all clicks, versions and rebuilds | proved |
| 13 | `ConfigProofs` | `Precedence`, `BadFileHarmless` and `SavedIsUsed` for all sets of settings | proved |
| 14 | `FrontendProofs` | that the frontend uses the Handle as `Handle` says; `StatusTrue` and `StoppedAtExit` on top of `HandleProofs` | proved |

The abstract specifications are `ResponseContract`, `LogStream` and `ManagedServer`. `Updater`
has none: the version on disk may go back (to one that is still newer than the running
one) when the latest release is withdrawn, so there is no simple promise to implement.

## 3. Modules and how they correspond to the code

Common conventions. An action is one handler, or the stretch of one between two
points where another goroutine can interleave; its name is the Go function's or the
step's. A comment beginning "Fault seeded in D" introduces variants of definition D, named
`D_Suffix`, that hold a plausible bug; no specification uses them, they exist to
confirm that the properties notice such a bug. Words such as "external" mark what
belongs to Go's library or to another process.

### Proxy (proxy.go, routes.go, frames.go, logging.go)

One request. `pc` is the handler goroutine's position; `Route` is `newRouter`
including the mux's own 404 and 405; `ReadBody`, `Dial`, `SendRequest` and their
failures follow `newProxyHandler` in order, and the pump steps `ReadMessage`,
`ReadEnds`, `ReadTimesOut`, `RelayFrame`, `RelayFails` and `writeErrorFrame` are the
streaming loops of `pumpSSEBytes` and `pumpTypedJSON`, whose differences are the
operator `EndsStream` and the guard of `RelayFails`. `Reply` is what follows the pump
together with the deferred `conn.Close`; `LogRequest` is `withRequestLog`.
`sr`, `header` and `wire` separate three things the code can confuse: what the
status recorder believes, what the header map holds and what net/http has sent.
`OnWire` is net/http's rule that only the first status counts.

Upstream messages are known by position and by whether they are terminal events. A
terminal event is one of the types in `terminalResponseEvents`; a message that is
not JSON is not one. The first `MaxFrames` messages are recorded in `sent`; after them the
upstream may send any number of further ones (`UpstreamSendsOn`), which are read and
relayed like the others (`RelayLater`) but no longer told apart. The environment is a client that reads, stalls, resumes or
leaves, and an upstream that sends, closes or resets. The body's read, the dial and
the first write either succeed or fail, with whichever error.

`ResponseContract` is the abstract response of which `Proxy` is an implementation
(`Contract == INSTANCE ResponseContract WITH ...` at the end of `Proxy`).

### Logger (logger.go)

`mu` is `l.mu`. `Stamp` is the part of `logf` before the mutex is taken, `EmitLock`
takes it and pushes, `FanOut` is one iteration of the loop over subscribers with its
`select`, `EmitUnlock` releases. `SubscribeLock`, `Fill` and `SubscribeUnlock` are
`Subscribe`; each blocking send is a step of its own. Only the holder of the mutex
changes the ring or the subscriber sets, but `Receive` needs no mutex and interleaves
with everything. `LogStream` is the abstract log with one cursor per subscriber.

### Handle (handle.go, server.go, part of config.go)

Callers run Start, Stop and SetConfig concurrently. Each stretch under `h.mu` is one
step. `Start` is one such stretch (idempotence, bind, launch). `Stop` is `StopTake`
(the critical section), then `Shutdown`, `Drain` and `AwaitDone` on the server it
took. `SetConfig` is `CallSetConfig` (normalize, validate), `SaveOpen` and `SaveWrite`
(`os.WriteFile` truncates and then writes), `Install` (the critical section), then
Stop and Start when a server was seen. `SaveFails` is any error on the way.
`ServeBegins`, `ServeEnds` and `ServeFails` are the goroutine in `http.Server.Serve`;
a server that is "spawned" has a listener that `Serve` has not registered yet, so a
`Shutdown` at that moment does not close it itself. A server identity is reused once
its `done` has been awaited.

A process may find any `config.json`: none, a torn one, or one that differs from the
configuration `NewHandle` is given, because a flag or the environment overrides it or
because `run` fell back on the defaults (`Found`). `untouched` remembers that no save has
opened it yet.

Abstractions: a configuration is its upstream origin, that origin's WebSocket form
and its listen address; `Torn` is any content that does not parse. Requests left by a
timed-out Shutdown are dropped from the model with their server.

### Config (config.go, main.go)

A sequence of runs of the program over one `config.json`. `Launch` is `run` up to the
call of `LoadConfig`: the flags take their defaults from the environment, and all of
them are exported back into it (`Export`). `Load`, `LoadFallsBack` and `LoadGivesUp` are
the outcomes of `LoadConfig` with `run`'s reaction. `SaveOpen` is Save & Apply through
`BuildConfigFromStrings`, `Validate` and the truncation in `os.WriteFile`; `SaveWrite`
and `SaveFails` are its ends. `End` is any end of the process, a crash in the middle of
a save included; `EditFile` is a person with an editor.

A setting's text is one of six that the code tells apart: empty, the hard default,
another value in normal form or in a different spelling, one that `Validate` refuses and
one that does not parse. The two timeouts behave alike and are one setting; so are
language and theme. Overlapping saves and the restart of the server are `Handle`'s.

### Updater (updater.go, part of gui.go)

Each click is a goroutine: `LatestRelease` and `Checksums` are the halves of `Check`,
`Download` and `Apply` those of `Updater.Apply`. Between any two of them releases are
uploaded, rebuilt (`Upload`, then `ListSums`), made the latest or withdrawn
(`PointLatest`), other clicks proceed and the program restarts. `Page` is the error page
that a download yields, as the HTTP status is not looked at. A binary is known by its
version and build, and equal checksums mean equal binaries.

### ManagedServer

What whoever shares a `Handle` may rely on: there is one server, off, or on with the
configuration it was turned on with; a new configuration is valid and normalized and
reaches the server only through off. `Handle` maps `config` to `h.cfg` and `on` to the
configuration `h.srv` was built from; `Start` turns on, `Stop`'s critical section turns
off, `SetConfig`'s configures, and every other step is a stutter.

### Frontend (main.go, frontend.go, tui.go, gui.go)

One process. `H == INSTANCE Handle WITH Callers <- {Loop}`: the frontend's goroutine is
the only one that calls the Handle, so all of `Handle`'s actions are used as they are and
a click lasts as many steps as its call does, while servers, requests, the pump and
signals go on. `at` is where that goroutine stands: `Boot` and `Booted` are `run` and the
beginning of the frontend's `Run`; `Key`, `Repaint` and `Click` are events; `CallStep` and
`CallReturns` carry a call out and set the window's status line (`StatusAfter`); `Leave`
and `Left` are the two deferred calls and the return. For the window that is the return of
the goroutine with the loop, after which `at` is "closed": `Run` itself still waits in
`app.Main()`, nothing in the source calls `os.Exit`, and whether and when Gio returns from
there is not the source's to say. `MainReturns` is that return, an external step without
fairness, and no property assumes it. `SignalSeen` is a wait that includes
the context (headless, bubbletea); the window's loop waits in `w.Event` alone and looks
at the context afterwards (`WindowEvent`).

The pump of the terminal hands each entry to the loop and waits for it (`p.Send`), that of
the window stores the entry and asks for a frame (`wake`). The Logger is reduced to
numbers: entries in the ring and in the channel, which `Logger` shows to be all that
decides whether anybody waits; whoever logs does so in the same step.

### Settings (gui.go, config.go, package autostart, package i18n)

Any number of starts of the window. The language is in `config.json`, in `h.cfg`, in the
form and in i18n; autostart is in the first three and in the system's registration.
`Launch` is the beginning of `Run` with `newPages`; `PickLanguage` and `ToggleAutostart` act
at once; `Save` and `SaveTorn` are `applySave`; `revertForm` refills the form. The system
may refuse to register or unregister (`ok` is the absence of an error), hide the entry from
`isEnabled`, or lose it; the user may edit the file. The first start finds any file and any
registration.

Five history variables record what happened to a copy, never whether it agrees with
another, so a program that fails to register or registers the wrong way is not excused:
`blind` (the box: a refused toggle, an entry hidden or lost), `drift` (the registration
against the file: a toggle, an edit, a loss, or a start that was refused or could not
load), `strayed` (the language against the file: a language picked, an edit, a start that
could not load), `reverted` (the form was refilled and i18n not told) and `wanted` (the
user's last toggle).

## 4. Runs

| Run | Checks | Bounds, and why they suffice |
|---|---|---|
| `proxy` | the response contract, the log line, content types, timeouts, terminal events, release of the WebSocket, and that the request ends if client and upstream let it | every request; 4 upstream messages told apart, and any number after them: before the first, at the first, between two and after a terminal one all occur, and the safety part is proved for every number told apart |
| `logger` | ring contents, the fit of the snapshot, drop flags, the abstract stream, that logging and subscribing return | 2 emitters, 2 subscribers, a ring of 2 and 4 entries: the ring wraps twice, channels overflow, drain and overflow again |
| `handle` | ownership, currency of the configuration, clean stops, the file, the abstract managed server, that calls return | 2 callers, 2 servers, 1 request, 2 addresses, 3 inputs, one of them invalid, and a file that is absent, torn or differs at the start. Two callers give every pairwise overlap; with two servers one can be stopping while the next runs, and a third can exist only with a third caller |
| `config` | precedence of sources, what is saved is used, a bad file does no harm | one setting of each kind: parsed or not, with a flag or not, validated or not, a Boolean with and without a flag; at most 2 variables and flags given at a start and 2 fields in a file written by hand: two sources of one setting and one setting that spoils another both occur. Runs of the program are not bounded |
| `updater` | what is installed was listed and is newer than what runs | 2 clicks, 3 versions that order differently as text, as numbers and part by part, 2 builds of each; restarts are not bounded. The two clicks are interchangeable, so the run uses their symmetry |
| `frontend` | a truthful status line, no server left at exit, that the loop always comes back, that a signal ends the process (the window's loop) | one process of each kind, 1 server, 1 request, 2 inputs, one of them refused; room for 2 entries in the log channel and 1 or 2 lines in the view, so that both overflow. A process has one caller, so a second server could not exist |
| `settings` | box, file and registration agree; file and language spoken agree | 2 languages, as in the program; every file and registration to start from; starts, clicks and refusals are not bounded, and the whole state space is explored |
| `handle_file_race`, `handle_dead_server`, `config_shadowed`, `frontend_signal`, `settings_toggle` | statements of documents and comments that the code does not keep (section 5) | as above |

Deadlock is checked in `handle`, where goroutines can always make another call, and in
`config`, `updater` and `settings`, where the program can always be started again. It is
not checked in `proxy`, where a request ends, in `frontend`, where a process ends, nor in
`logger`, where the bound on entries stops the emitters; all three state as liveness that
nothing is left waiting.

Fairness.

* `Proxy`: weak fairness of the handler as a whole. Each of its blocking calls has a
  deadline in the code (`ReadTimeout` 60 s for the body, `ConnectTimeout` for the dial
  and the first write, `IDLE_TIMEOUT` for each read) except the write to the client:
  `WriteTimeout` is 0. So `RequestEnds` has the premise that the client does not stay
  connected and stop reading for good. It has a second premise: the upstream's messages
  come to an end (`StreamIsFinite`), or the client leaves a route of `pumpSSEBytes`
  (`ClientGivesUp`). Neither pump bounds an endless stream of messages that are not
  terminal, and `pumpTypedJSON` goes on reading one even after the client has left; both
  premises are needed, and no answer, close or reset is asked of the upstream. Strong
  fairness of `RelayFails`: each chunk is flushed to the socket, so writes to a client who
  left cannot succeed for ever.
* `Logger`: weak fairness of the steps made while holding the mutex; strong fairness
  of taking it in `emit`, as Go's mutex hands over to a waiter after 1 ms. Readers
  may never read. Printing to standard output is taken to return.
* `Handle`: weak fairness of each caller's steps once in a call, and of the goroutine
  in Serve. Requests need not finish, and no failure is assumed to happen or not to:
  `CallsReturn` rests on the 10 s deadline of Shutdown.
* `Frontend`: weak fairness of the loop's own steps, of `http.Server`, of the pump's and
  of a frame that was asked for (Gio paints what is invalidated); strong fairness of
  `SignalSeen`, as bubbletea receives events and the context in one `select`, in which Go
  chooses at random. Keys, clicks, signals, requests and failures need not come, and
  `app.Main` need not return. For the window `SignalEnds` says that its loop ends, with the
  premise that a frame is due: without it the statement is
  false (`SignalHeard`).
* `Config`, `Updater` and `Settings` state safety only and assume no fairness.

## 5. What the code does not do as its documents say

1. `handle.go:14` promises safe concurrent use; two overlapping SetConfig calls can
   leave `config.json` with one configuration and the running server with the other
   (`FileAgreesConcurrently`). `FileAgrees` is what remains true: one call at a time. Both
   speak of the file once this process has opened it for a save; before that it may differ
   from the configuration in use, as finding 3 shows.
2. The desktop design, line 113, promises that the status shown reflects the real
   state of the server; after a failed accept loop `Running` stays true
   (`RunningIsServing`). The later Gio redesign, line 193, asks less of its status line: that
   it reflects `h.Running()` and the last error.
3. `README.md:103` promises defaults < `config.json` < environment < flags. `run` exports
   every flag, with its hard default if it was not given, and so puts those defaults above
   the file: a listen address, timeout, TLS switch or log level saved on the Settings page
   is lost at the next start (`SavedBeatsDefaults`). What remains true is `SavedIsUsed`:
   the upstream, the language, the theme and autostart survive.
4. The Gio redesign, line 169, says that the window stops the server and quits when it is
   closed or the context is done. Its loop looks at the context only after an event, and
   the pump that asks for frames ends with the same context, so a window nobody touches
   stays through SIGINT and SIGTERM (`SignalHeard`). `SignalEnds` is what remains true. Whether
   the process then ends is `app.Main`'s to decide, which nothing in the source controls.
5. The same document, line 108, says that toggling the autostart box persists the
   preference. It only registers or unregisters the program; the next start re-registers
   by the old setting and so undoes the toggle (`ToggleKept`). What holds is `BoxTrue` and,
   once saved, `SavedIsRegistered`.

Also seen, without a run, in the request path: `README.md:180` promises a single JSON
document for a Responses request that is not streamed, but both pumps are always called
with `stream = true` (`proxy.go:100`); the proxy design, line 144, promises a 400 for a body
that is not JSON, which is never parsed (so the model's requests have no body); `logger.go:120`
promises chronological order, but entries are stamped before the mutex is taken, and only
the order of pushes is kept.

In the frontends: the terminal shows `[u]` for updates and has no such key, and never calls
`SetLang`, so the saved language does not reach it; Revert refills the language box and
leaves i18n at the language picked; the window is blocked for up to the 10 s of a Stop,
where the Gio redesign, line 171, says the UI never blocks on the network.

In configuration and updates: the desktop design, line 190, says the proxy never starts with
an invalid configuration, but `LoadConfig` does not call `Validate`, so `IDLE_TIMEOUT=0s`
starts and times out every read; `LOG_LEVEL` is loaded and saved and never reaches the
logger; `Check` reports an up-to-date program as an error, so the "no update" branch at
`gui.go:588` is never taken; and the comment at `logger.go:31` says that a slow subscriber's
channel is dropped (logged once), where the channel stays and only entries are dropped; a
subscriber that catches up and falls behind again is not told a second time, as only
Subscribe and unsubscribe clear its flag.

## 6. Proofs

Each `...Proofs` module has the same plan: an invariant `IInv` that is inductive, one
lemma per part of it with one step per action of `Next`, the theorem `Invariance`
(`Spec => []IInv`), and the properties as consequences. TLC checked each `IInv` first.

| Module | Theorem | Statement |
|---|---|---|
| `ProxyProofs` | `TypeCorrect`, `LoggedStatus`, `Released`, `TypesMatch`, `TimeoutsTold`, `TerminalEndsStream` | `TypeOK`, `LoggedStatusIsSent`, `ConnReleased`, `TypeMatchesBody`, `TimeoutIsReported`, `TerminalIsLast` |
| | `Refinement` | `Spec => ImplementsContract` |
| `LoggerProofs` | `TypeCorrect`, `RingIsTail`, `FillNeverBlocks`, `GapsAreFlagged` | `TypeOK`, `SnapshotIsTail`, `FillFits`, `GapIsFlagged` |
| | `Refinement` | `Spec => ImplementsLogStream` |
| `HandleProofs` | `TypeCorrect`, `NothingLeaks`, `SingleOwner`, `Current`, `AllNormalized`, `CleanStops`, `FileFollows` | `TypeOK`, `NoLeakedServer`, `OneOwner`, `ServesCurrentConfig`, `ServesNormalized`, `CleanStopDrained`, `FileAgrees` |
| | `StopsCanEnd` | a Stop past Shutdown waits for a server that can only end |
| | `Refinement` | `Spec => ImplementsManagedServer` |
| `ConfigProofs` | `TypeCorrect`, `GivenWins`, `SavedSurvives`, `FileIsHarmless` | `TypeOK`, `Precedence`, `SavedIsUsed`, `BadFileHarmless` |
| `FrontendProofs` | `UsesHandle` | `Spec => H!Spec`: what is proved of a Handle is true of the frontend's |
| | `Manages` | `Spec => H!ImplementsManagedServer` |
| | `TypeCorrect`, `StatusIsTrue`, `NothingOutlivesTheLoop` | `TypeOK`, `StatusTrue`, `StoppedAtExit` |
| `UpdaterProofs` | `TypeCorrect`, `Verified`, `OnlyForward` | `TypeOK`, `OnlyVerified`, `NeverOlder` |
| `SettingsProofs` | `TypeCorrect`, `BoxShowsRegistration`, `SavedStays`, `SavedSpeaks` | `TypeOK`, `BoxTrue`, `SavedIsRegistered`, `SavedIsSpoken` |

**Proxy.** For every value of `MaxFrames` (assumed a natural number above zero). None of the
properties is inductive: `LoggedStatusIsSent`, say, needs to know at the second
`WriteHeader` that nothing was written. `IInv` says for each region of the handler what
has been written: before the pump nothing (`BeforeInv`); in the pump exactly the first
`emitted` messages, under the event-stream header, and `committed` exactly if there is
one (`PumpInv`); at the pump's return one of four results (`PumpResult`); afterwards that
result or one self-contained body (`EndInv`); throughout, that the recorder and the wire
agree once committed (`WireInv`). `TerminalIsLast` needs a second invariant,
`TerminalInv`. The refinement maps every step to a step of `ResponseContract` or to a
stutter.

**Logger.** For every capacity above zero and any sets of goroutines and subscribers,
which are assumed disjoint. `MutexInv` says who holds the mutex and what follows from it;
`RingInv` that the i-th oldest slot, modulo the capacity, holds the i-th last push, with
the lemmas `Small`, `Wrapped`, `SlotArithmetic` and `RingPush` for the arithmetic of the
wrap; `ChanInv` that a channel being filled and what is left of its snapshot add up to
the ring's count. The refinement maps the push to a publication, each send or loss to an
offer at the subscriber's cursor, and `Subscribe`'s end to a stutter. `GapIsFlagged` looks
at what a subscriber was given and at what was pushed, and never at the steps between, so
its invariant has to remember them: `UniqueInv` that no entry is stamped or pushed twice,
which makes an entry's position in the log well defined, and `GapInv` that from the first
entry given to the subscriber's cursor there is as much as was delivered, or more exactly
if the subscriber is flagged.

**Handle.** For any number of callers, servers, requests and configurations; assumed are
only that the sentinels differ from what they stand beside, that inputs are
configurations and that the initial configuration is normalized. `OwnInv` gives each
server in use exactly one owner, the Handle or the Stop that took it; `ConfigInv` keeps
un-normalized configurations out; `DrainInv` says that a server whose Shutdown has begun
accepts nothing; `FileInv` follows the file, from the first save that opens it, through the one save in progress. The
refinement of `ManagedServer` needs two more facts: that a server is never changed while
it is the Handle's (from `OwnInv`: the one a Stop finishes with is another) and that what
a SetConfig carries has passed `Validate` (`ValidInv`).

**Config.** For any subset of the program's settings that has the upstream, any number of
flags and variables given at a start and of fields in an edited file, and any number of
runs and crashes. The three properties speak of the step that loads. `GivenInv` says what
the process environment then holds of each setting: what main's export has made of the
flag or variable given, with the hard default where nothing was. `SavedInv` says that what
was saved completely is what the file holds and passed `Validate`. From the two each
property follows by looking at how `LoadConfig` treats one setting; `FileIsHarmless` is
the observation that the only setting in the file that main's export is not in front of,
and that can fail to parse, is the upstream, without which a start fails anyway.

**Frontend.** For any logger and view capacity and any number of servers, requests and
configurations. `Frontend` states about its constants what `Handle` states about them, so
that the theorems of `HandleProofs` can be cited for `H`: `UsesHandle` shows that every
step of the frontend is a step of `Handle` with the loop as its only caller, or leaves its
variables alone, and `HandleTypes`, `HandleLeaksNothing` and `Manages` follow without
looking at `Handle` again. `LoopInv` is what a single caller knows that callers in general
do not: a Start that has returned without error left a server running, and one whose Stop
is past its critical section has none, up to its next call. `StatusIsTrue` is that
knowledge at the moment the loop is back; `NothingOutlivesTheLoop` joins it to
`NoLeakedServer`. `PumpInv` says which frontend has which pump, without which `appendLog`
has no bound to keep.

**Updater.** For any number of clicks, any set of version triples and any number of
rebuilds. Both properties speak of the step that replaces the executable and rest on what
the click found out several steps before: `ClickInv` keeps that its release was newer than
the running process and that its checksum was listed, `ExeInv` that the executable on disk
is the one that runs or newer. `NewerFact` is the lemma that comparing part by part is the
order of triples read from the left.

**Settings.** For any set of languages and any number of starts, clicks and refusals;
assumed are that the default is one of the languages and that `None` is no setting.
`SavedIsRegistered` is not inductive: Save copies the box, not the registration, so it
rests on `BoxTrue`, and that on `newPages` and `revertForm` asking the system. `EnableFact`
is the lemma that `EnableIfWanted` without an error does what was wanted; toggles and starts
rest on it. `SavedIsSpoken` is not inductive either: a save whose restart failed leaves i18n
alone, so it needs `FormSpoken`, that form and i18n agree unless the form was reverted.

Every invariant and every action property of a passing run is the subject of a theorem.
Only model-checked is the liveness: `RequestEnds`, `EmitCompletes`, `SubscribeCompletes`,
`CallsReturn`, `LoopResponds` and `SignalEnds` rest on fairness, which the prover does not
reach. `StopsCanEnd` is as much of `CallsReturn` as can be said without it.

## 7. Not modelled

Header forwarding and URL building (pure conversions without state), formatting of
log lines, painting, layout, theme, page selection and the terminal's level filter (view
state that nothing else depends on), the string tables, the text of registry values and
plists, the JSON of the GitHub API. The Linux version of autostart has no caller in the
program. The buffering branches of the pumps and `mapErrorStatus` never run (no caller
passes `stream = false`); a model of them would say nothing about the program. The steps
inside `selfupdate.Apply` belong to its library: it is taken to replace the executable in
one step, although two overlapping calls share the name of its temporary file, so
`OnlyVerified` and `NeverOlder` hold of the program as far as that library keeps overlapping
calls apart.
