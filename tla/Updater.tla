------------------------------ MODULE Updater ------------------------------
(***************************************************************************)
(* The in-app updater (updater.go) and the window's buttons that drive it  *)
(* (gui.go, About page).  Every click starts a goroutine of its own, which *)
(* checks the latest release and, for Apply, downloads, verifies and       *)
(* installs it; meanwhile releases appear, are rebuilt and withdrawn, and  *)
(* every call to GitHub can fail or answer with an error page, since HTTP  *)
(* status codes are not looked at.  The process restarts on the executable *)
(* it finds.                                                               *)
(*                                                                         *)
(* A binary is the version and the build it comes from, and its SHA256 is  *)
(* told apart from no other's: a line of checksums.txt is the build it was *)
(* computed from.  GitHub and selfupdate.Apply are external; the latter    *)
(* replaces the executable or fails and leaves it.                         *)
(***************************************************************************)
EXTENDS Naturals

CONSTANTS Clicks,      \* goroutines started by clicks
          Versions,    \* version tags, as triples
          Dev,         \* the version of a development build
          NoVersion,   \* the tag while there is no release; what a page holds
          MaxBuild     \* bound: builds of one release

ASSUME VersionsAssumption ==
    /\ Versions \subseteq Nat \X Nat \X Nat
    /\ Dev \notin Versions /\ NoVersion \notin Versions /\ Dev # NoVersion
ASSUME MaxBuildAssumption == MaxBuild \in Nat

VARIABLES
    current,   \* core.Version of the running process
    exe,       \* the executable on disk
    latest,    \* GitHub's latest release
    build,     \* build[v]: the build of v's asset; 0 while there is none
    sums,      \* sums[v]: the build checksums.txt lists for v; 0 while none
    pc,        \* pc[c]: "idle", "asking", "sums", "download" or "verify"
    apply,     \* apply[c]: the click was on Apply
    info,      \* info[c]: the UpdateInfo, a version and a checksum
    body,      \* body[c]: what was downloaded
    listed     \* history: every binary checksums.txt ever listed

releases == <<latest, build, sums, listed>>
vars == <<current, exe, releases, pc, apply, info, body>>

Binary(v, b) == [version |-> v, build |-> b]
Page == Binary(NoVersion, 0)

Init ==
    /\ current \in Versions \cup {Dev}
    /\ exe = Binary(current, 1)
    /\ latest = NoVersion
    /\ build = [v \in Versions |-> 0]
    /\ sums = [v \in Versions |-> 0]
    /\ pc = [c \in Clicks |-> "idle"]
    /\ apply = [c \in Clicks |-> FALSE]
    /\ info = [c \in Clicks |-> Page]
    /\ body = [c \in Clicks |-> Page]
    /\ listed = {}

----------------------------------------------------------------------------
(* GitHub: assets and checksums.txt are uploaded one after the other, and  *)
(* any release can become the latest.                                      *)

Upload(v) ==
    /\ build[v] < MaxBuild
    /\ build' = [build EXCEPT ![v] = @ + 1]
    /\ UNCHANGED <<current, exe, latest, sums, listed, pc, apply, info, body>>

ListSums(v) ==
    /\ sums[v] < build[v]
    /\ sums' = [sums EXCEPT ![v] = build[v]]
    /\ listed' = listed \cup {Binary(v, build[v])}
    /\ UNCHANGED <<current, exe, latest, build, pc, apply, info, body>>

PointLatest(v) ==
    /\ latest' = v
    /\ UNCHANGED <<current, exe, build, sums, listed, pc, apply, info, body>>

----------------------------------------------------------------------------
(* The updater.                                                            *)

\* A tag that is no triple reads as zeros.
Triple(v) == IF v \in Versions THEN v ELSE <<0, 0, 0>>

\* Fault seeded in versionNewer: a part is compared though an earlier one
\* differs.
versionNewer_AnyPart(cur, new) ==
    \/ cur = Dev
    \/ \E i \in 1..3 : Triple(new)[i] > Triple(cur)[i]

versionNewer(cur, new) ==
    \/ cur = Dev
    \/ \E i \in 1..3 : /\ Triple(new)[i] > Triple(cur)[i]
                       /\ \A j \in 1..(i - 1) : Triple(new)[j] = Triple(cur)[j]

Click(c, a) ==
    /\ pc[c] = "idle"
    /\ pc' = [pc EXCEPT ![c] = "asking"]
    /\ apply' = [apply EXCEPT ![c] = a]
    /\ UNCHANGED <<current, exe, releases, info, body>>

Done(c) ==
    /\ pc' = [pc EXCEPT ![c] = "idle"]
    /\ info' = [info EXCEPT ![c] = Page]
    /\ body' = [body EXCEPT ![c] = Page]

\* A call fails, or answers what cannot be used, at any stage; selfupdate too.
Fails(c) ==
    /\ pc[c] # "idle"
    /\ Done(c)
    /\ UNCHANGED <<current, exe, releases, apply>>

HasAsset(v) == v \in Versions /\ build[v] > 0

\* The first half of Check: up to date, no asset for this platform, or on.
LatestRelease(c) ==
    /\ pc[c] = "asking"
    /\ IF versionNewer(current, latest) /\ HasAsset(latest)
       THEN /\ info' = [info EXCEPT ![c] = Binary(latest, 0)]
            /\ pc' = [pc EXCEPT ![c] = "sums"]
            /\ UNCHANGED body
       ELSE Done(c)
    /\ UNCHANGED <<current, exe, releases, apply>>

\* Fault seeded in HasLine: a missing line is let through.
HasLine_Optional(v) == TRUE

\* findChecksumLine: checksums.txt is there and has a line for this platform.
HasLine(v) == sums[v] > 0

\* The second half of Check; Apply goes on with what it returned.
Checksums(c) ==
    /\ pc[c] = "sums"
    /\ LET v == info[c].version
       IN  IF HasLine(v) /\ apply[c]
           THEN /\ info' = [info EXCEPT ![c] = Binary(v, sums[v])]
                /\ pc' = [pc EXCEPT ![c] = "download"]
                /\ UNCHANGED body
           ELSE Done(c)
    /\ UNCHANGED <<current, exe, releases, apply>>

Download(c) ==
    /\ pc[c] = "download"
    /\ \E b \in {Binary(info[c].version, build[info[c].version]), Page} :
           body' = [body EXCEPT ![c] = b]
    /\ pc' = [pc EXCEPT ![c] = "verify"]
    /\ UNCHANGED <<current, exe, releases, apply, info>>

\* Fault seeded in verifyChecksum: any binary of the release passes.
verifyChecksum_Version(b, i) == b.version = i.version

verifyChecksum(b, i) == b = i

Apply(c) ==
    /\ pc[c] = "verify"
    /\ exe' = IF verifyChecksum(body[c], info[c]) THEN body[c] ELSE exe
    /\ Done(c)
    /\ UNCHANGED <<current, releases, apply>>

\* The goroutines die with the process.
Restart ==
    /\ current' = exe.version
    /\ pc' = [c \in Clicks |-> "idle"]
    /\ apply' = [c \in Clicks |-> FALSE]
    /\ info' = [c \in Clicks |-> Page]
    /\ body' = [c \in Clicks |-> Page]
    /\ UNCHANGED <<exe, releases>>

Next ==
    \/ \E v \in Versions : Upload(v) \/ ListSums(v) \/ PointLatest(v)
    \/ \E c \in Clicks : \/ \E a \in BOOLEAN : Click(c, a)
                         \/ LatestRelease(c) \/ Checksums(c) \/ Download(c)
                         \/ Apply(c) \/ Fails(c)
    \/ Restart

Spec == Init /\ [][Next]_vars

----------------------------------------------------------------------------
Binaries == [version : Versions \cup {Dev, NoVersion}, build : Nat]

\* Once checked, an UpdateInfo carries a checksum.
TypeOK ==
    /\ current \in Versions \cup {Dev}
    /\ exe \in Binaries /\ exe.version # NoVersion
    /\ latest \in Versions \cup {NoVersion}
    /\ build \in [Versions -> 0..MaxBuild]
    /\ sums \in [Versions -> 0..MaxBuild]
    /\ pc \in [Clicks -> {"idle", "asking", "sums", "download", "verify"}]
    /\ apply \in [Clicks -> BOOLEAN]
    /\ info \in [Clicks -> Binaries]
    /\ body \in [Clicks -> Binaries]
    /\ listed \subseteq Binaries
    /\ \A c \in Clicks : pc[c] \in {"download", "verify"} =>
           info[c].version \in Versions /\ info[c].build > 0

\* Nothing unverified replaces the executable (updater.go:186): whatever is
\* downloaded, rebuilt or overlapping, a binary that is installed is one that
\* its release's checksums.txt listed.
OnlyVerified == [][exe' # exe => exe' \in listed]_vars

\* The order of versions, read from the left.
Newer(new, old) ==
    \/ new[1] > old[1]
    \/ new[1] = old[1] /\ new[2] > old[2]
    \/ new[1] = old[1] /\ new[2] = old[2] /\ new[3] > old[3]

\* The updater never goes back (updater.go:152): not from one run of the
\* program to the next, whatever is withdrawn or applied twice, and a binary
\* that is installed is newer than the one that runs.
NeverOlder ==
    [][/\ (current # Dev /\ current' # current) =>
              current' # Dev /\ Newer(current', current)
       /\ (current # Dev /\ exe' # exe) => Newer(exe'.version, current)]_vars
=============================================================================
