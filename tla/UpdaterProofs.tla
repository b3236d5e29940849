---------------------------- MODULE UpdaterProofs ----------------------------
(***************************************************************************)
(* Proofs about Updater, for any number of clicks, versions and rebuilds.  *)
(*                                                                         *)
(* Both properties are about the step that replaces the executable, and    *)
(* rest on what a click found out earlier and may no longer be true of     *)
(* GitHub: that its release was newer than the running process, which      *)
(* cannot change under it, and that its checksum was listed, which is for  *)
(* ever.                                                                   *)
(***************************************************************************)
EXTENDS Updater, TLAPS

\* What checksums.txt lists now has been listed.
ListedInv == \A v \in Versions : sums[v] > 0 => Binary(v, sums[v]) \in listed

\* What a click has found out so far.
ClickInv == \A c \in Clicks :
    /\ pc[c] \in {"sums", "download", "verify"} =>
           info[c].version \in Versions /\ versionNewer(current, info[c].version)
    /\ pc[c] \in {"download", "verify"} => info[c] \in listed

\* The executable on disk is the one that runs, or newer.
ExeInv == current \in Versions =>
    exe.version \in Versions /\ (exe.version = current \/ Newer(exe.version, current))

IInv == TypeOK /\ ListedInv /\ ClickInv /\ ExeInv

----------------------------------------------------------------------------
\* Comparing part by part is the order of triples read from the left.
LEMMA NewerFact ==
    ASSUME NEW cur \in Versions, NEW new \in Versions, versionNewer(cur, new)
    PROVE  Newer(new, cur)
<1>1. cur # Dev /\ Triple(cur) = cur /\ Triple(new) = new
  BY VersionsAssumption DEF Triple
<1>2. PICK i \in 1..3 : new[i] > cur[i] /\ \A j \in 1..(i - 1) : new[j] = cur[j]
  BY <1>1 DEF versionNewer
<1>3. CASE i = 1
  BY <1>2, <1>3 DEF Newer
<1>4. CASE i = 2
  BY <1>2, <1>4 DEF Newer
<1>5. CASE i = 3
  BY <1>2, <1>5 DEF Newer
<1> QED
  BY <1>3, <1>4, <1>5

\* A latest release that is newer and has an asset is a version.
LEMMA AssetFact == ASSUME NEW v, HasAsset(v) PROVE v \in Versions
  BY DEF HasAsset

LEMMA InitIInv == Init => IInv
<1> SUFFICES ASSUME Init PROVE IInv
  OBVIOUS
<1>1. TypeOK
  BY VersionsAssumption, MaxBuildAssumption DEF Init, TypeOK, Binaries, Binary, Page
<1>2. ListedInv /\ ClickInv /\ ExeInv
  BY DEF Init, ListedInv, ClickInv, ExeInv, Binary
<1> QED
  BY <1>1, <1>2 DEF IInv

----------------------------------------------------------------------------
(* What the steps of a click keep, whatever the others do.                 *)

LEMMA DoneKeeps ==
    ASSUME IInv, NEW c \in Clicks, Done(c), UNCHANGED <<current, releases, apply>>,
           exe' \in Binaries, exe'.version # NoVersion, ExeInv'
    PROVE  IInv'
<1>1. Page \in Binaries
  BY DEF Page, Binary, Binaries
<1>2. TypeOK'
  BY <1>1 DEF Done, releases, IInv, TypeOK
<1>3. ListedInv'
  BY DEF releases, IInv, ListedInv
<1>4. ClickInv'
  BY DEF Done, releases, IInv, TypeOK, ClickInv
<1> QED
  BY <1>2, <1>3, <1>4 DEF IInv

LEMMA FailsStep == ASSUME IInv, NEW c \in Clicks, Fails(c) PROVE IInv'
<1>1. exe' \in Binaries /\ exe'.version # NoVersion /\ ExeInv'
  BY DEF Fails, IInv, TypeOK, ExeInv
<1> QED
  BY <1>1, DoneKeeps DEF Fails

LEMMA LatestReleaseStep == ASSUME IInv, NEW c \in Clicks, LatestRelease(c) PROVE IInv'
<1>1. UNCHANGED <<current, exe, releases, apply>>
  BY DEF LatestRelease
<1>2. exe' \in Binaries /\ exe'.version # NoVersion /\ ExeInv'
  BY <1>1 DEF IInv, TypeOK, ExeInv
<1>3. CASE versionNewer(current, latest) /\ HasAsset(latest)
  <2>1. latest \in Versions
    BY <1>3, AssetFact
  <2>2. /\ info' = [info EXCEPT ![c] = Binary(latest, 0)]
        /\ pc' = [pc EXCEPT ![c] = "sums"]
        /\ UNCHANGED body
    BY <1>3 DEF LatestRelease
  <2>3. Binary(latest, 0) \in Binaries /\ Binary(latest, 0).version = latest
    BY <2>1 DEF Binary, Binaries
  <2>4. TypeOK'
    BY <1>1, <2>2, <2>3 DEF releases, IInv, TypeOK
  <2>5. ClickInv'
    BY <1>1, <1>3, <2>1, <2>2, <2>3 DEF releases, IInv, TypeOK, ClickInv
  <2> QED
    BY <1>1, <1>2, <2>4, <2>5 DEF releases, IInv, ListedInv
<1>4. CASE ~(versionNewer(current, latest) /\ HasAsset(latest))
  BY <1>1, <1>2, <1>4, DoneKeeps DEF LatestRelease
<1> QED
  BY <1>3, <1>4

LEMMA ChecksumsStep == ASSUME IInv, NEW c \in Clicks, Checksums(c) PROVE IInv'
<1> DEFINE v == info[c].version
<1>1. UNCHANGED <<current, exe, releases, apply>>
  BY DEF Checksums
<1>2. exe' \in Binaries /\ exe'.version # NoVersion /\ ExeInv'
  BY <1>1 DEF IInv, TypeOK, ExeInv
<1>3. v \in Versions /\ versionNewer(current, v)
  BY DEF Checksums, IInv, ClickInv
<1>4. CASE HasLine(v) /\ apply[c]
  <2>1. /\ info' = [info EXCEPT ![c] = Binary(v, sums[v])]
        /\ pc' = [pc EXCEPT ![c] = "download"]
        /\ UNCHANGED body
    BY <1>4 DEF Checksums
  <2>2. sums[v] \in Nat /\ sums[v] > 0
    BY <1>3, <1>4, MaxBuildAssumption DEF HasLine, IInv, TypeOK
  <2>3. /\ Binary(v, sums[v]) \in Binaries /\ Binary(v, sums[v]) \in listed
        /\ Binary(v, sums[v]).version = v /\ Binary(v, sums[v]).build > 0
    BY <1>3, <2>2 DEF Binary, Binaries, IInv, ListedInv
  <2>4. TypeOK'
    BY <1>1, <1>3, <2>1, <2>3 DEF releases, IInv, TypeOK
  <2>5. ClickInv'
    BY <1>1, <1>3, <2>1, <2>3 DEF releases, IInv, TypeOK, ClickInv
  <2> QED
    BY <1>1, <1>2, <2>4, <2>5 DEF releases, IInv, ListedInv
<1>5. CASE ~(HasLine(v) /\ apply[c])
  BY <1>1, <1>2, <1>5, DoneKeeps DEF Checksums
<1> QED
  BY <1>4, <1>5

LEMMA DownloadStep == ASSUME IInv, NEW c \in Clicks, Download(c) PROVE IInv'
<1>1. info[c].version \in Versions /\ build[info[c].version] \in Nat
  BY MaxBuildAssumption DEF Download, IInv, TypeOK
<1>2. PICK b \in {Binary(info[c].version, build[info[c].version]), Page} :
          body' = [body EXCEPT ![c] = b]
  BY DEF Download
<1>3. b \in Binaries
  BY <1>1, <1>2 DEF Binary, Page, Binaries
<1>4. pc[c] = "download" /\ pc' = [pc EXCEPT ![c] = "verify"]
      /\ UNCHANGED <<current, exe, releases, apply, info>>
  BY DEF Download
<1>5. TypeOK'
  BY <1>2, <1>3, <1>4 DEF releases, IInv, TypeOK
<1>6. ClickInv'
  BY <1>4 DEF releases, IInv, TypeOK, ClickInv
<1> QED
  BY <1>4, <1>5, <1>6 DEF releases, IInv, ListedInv, ExeInv

\* What Apply installs is what the click checked, and nothing else.
LEMMA ApplyFact ==
    ASSUME IInv, NEW c \in Clicks, Apply(c), exe' # exe
    PROVE  /\ exe' \in listed /\ exe' \in Binaries
           /\ exe'.version \in Versions /\ versionNewer(current, exe'.version)
<1>1. exe' = info[c] /\ pc[c] = "verify"
  BY DEF Apply, verifyChecksum
<1> QED
  BY <1>1 DEF IInv, TypeOK, ClickInv

LEMMA ApplyStep == ASSUME IInv, NEW c \in Clicks, Apply(c) PROVE IInv'
<1>1. Done(c) /\ UNCHANGED <<current, releases, apply>>
  BY DEF Apply
<1>2. CASE exe' = exe
  BY <1>1, <1>2, DoneKeeps DEF IInv, TypeOK, ExeInv
<1>3. CASE exe' # exe
  <2>1. exe' \in Binaries /\ exe'.version \in Versions /\ versionNewer(current, exe'.version)
    BY <1>3, ApplyFact
  <2>2. ExeInv'
    BY <1>1, <2>1, NewerFact DEF ExeInv
  <2> QED
    BY <1>1, <2>1, <2>2, VersionsAssumption, DoneKeeps
<1> QED
  BY <1>2, <1>3

----------------------------------------------------------------------------
LEMMA InductiveStep == IInv /\ [Next]_vars => IInv'
<1> SUFFICES ASSUME IInv, [Next]_vars PROVE IInv'
  OBVIOUS
<1> USE VersionsAssumption, MaxBuildAssumption
<1>1. ASSUME NEW v \in Versions, Upload(v) PROVE IInv'
  BY <1>1 DEF Upload, IInv, TypeOK, ListedInv, ClickInv, ExeInv
<1>2. ASSUME NEW v \in Versions, ListSums(v) PROVE IInv'
  <2>1. Binary(v, build[v]) \in Binaries
    BY DEF Binary, Binaries, IInv, TypeOK
  <2>2. TypeOK'
    BY <1>2, <2>1 DEF ListSums, IInv, TypeOK
  <2>3. ListedInv' /\ ClickInv' /\ ExeInv'
    BY <1>2 DEF ListSums, IInv, TypeOK, ListedInv, ClickInv, ExeInv
  <2> QED
    BY <2>2, <2>3 DEF IInv
<1>3. ASSUME NEW v \in Versions, PointLatest(v) PROVE IInv'
  BY <1>3 DEF PointLatest, IInv, TypeOK, ListedInv, ClickInv, ExeInv
<1>4. ASSUME NEW c \in Clicks, NEW a \in BOOLEAN, Click(c, a) PROVE IInv'
  BY <1>4 DEF Click, releases, IInv, TypeOK, ListedInv, ClickInv, ExeInv
<1>5. ASSUME NEW c \in Clicks,
             LatestRelease(c) \/ Checksums(c) \/ Download(c) \/ Apply(c) \/ Fails(c)
      PROVE  IInv'
  BY <1>5, LatestReleaseStep, ChecksumsStep, DownloadStep, ApplyStep, FailsStep
<1>6. CASE Restart
  <2>1. Page \in Binaries
    BY DEF Page, Binary, Binaries
  <2>2. exe.version \in Versions \cup {Dev}
    BY DEF IInv, TypeOK, Binaries
  <2>3. TypeOK'
    BY <1>6, <2>1, <2>2 DEF Restart, releases, IInv, TypeOK
  <2> QED
    BY <1>6, <2>3 DEF Restart, releases, IInv, ListedInv, ClickInv, ExeInv
<1>7. CASE UNCHANGED vars
  BY <1>7 DEF vars, releases, IInv, TypeOK, ListedInv, ClickInv, ExeInv
<1> QED
  BY <1>1, <1>2, <1>3, <1>4, <1>5, <1>6, <1>7 DEF Next

\* What a step may do to the executable and to the running version.
LEMMA StepFacts ==
    ASSUME IInv, [Next]_vars
    PROVE  /\ exe' # exe => /\ exe' \in listed
                            /\ exe'.version \in Versions
                            /\ versionNewer(current, exe'.version)
                            /\ UNCHANGED <<listed, current>>
           /\ current' # current => current' = exe.version
<1>1. ASSUME NEW c \in Clicks, Apply(c)
      PROVE  /\ exe' # exe => /\ exe' \in listed
                              /\ exe'.version \in Versions
                              /\ versionNewer(current, exe'.version)
             /\ UNCHANGED <<listed, current>>
  BY <1>1, ApplyFact DEF Apply, releases
<1>2. CASE Restart
  BY <1>2 DEF Restart
<1>3. ASSUME NEW c \in Clicks, LatestRelease(c) \/ Checksums(c) \/ Download(c) \/ Fails(c)
      PROVE  UNCHANGED <<exe, current>>
  BY <1>3 DEF LatestRelease, Checksums, Download, Fails
<1>4. ASSUME NEW c \in Clicks, NEW a \in BOOLEAN, Click(c, a) PROVE UNCHANGED <<exe, current>>
  BY <1>4 DEF Click
<1>5. ASSUME NEW v \in Versions, Upload(v) \/ ListSums(v) \/ PointLatest(v)
      PROVE  UNCHANGED <<exe, current>>
  BY <1>5 DEF Upload, ListSums, PointLatest
<1>6. CASE UNCHANGED vars
  BY <1>6 DEF vars
<1> QED
  BY <1>1, <1>2, <1>3, <1>4, <1>5, <1>6 DEF Next

\* The invariant behind the properties holds at every moment.
THEOREM Invariance == Spec => []IInv
<1>1. Init => IInv
  BY InitIInv
<1>2. IInv /\ [Next]_vars => IInv'
  BY InductiveStep
<1> QED
  BY <1>1, <1>2, PTL DEF Spec

\* Types, and that an UpdateInfo that was checked carries a checksum.
THEOREM TypeCorrect == Spec => []TypeOK
<1>1. IInv => TypeOK
  BY DEF IInv
<1> QED
  BY <1>1, Invariance, PTL

\* Only what a checksums.txt has listed ever replaces the executable.
THEOREM Verified == Spec => OnlyVerified
<1>1. IInv /\ [Next]_vars => [exe' # exe => exe' \in listed]_vars
  BY StepFacts
<1> QED
  BY <1>1, Invariance, PTL DEF Spec, OnlyVerified

\* Neither an installation nor a restart ever goes back to an older version.
THEOREM OnlyForward == Spec => NeverOlder
<1>1. ASSUME IInv, [Next]_vars
      PROVE  /\ (current # Dev /\ current' # current) =>
                    current' # Dev /\ Newer(current', current)
             /\ (current # Dev /\ exe' # exe) => Newer(exe'.version, current)
  <2>1. ASSUME current # Dev, current' # current
        PROVE  current' # Dev /\ Newer(current', current)
    BY <1>1, <2>1, StepFacts, VersionsAssumption DEF IInv, TypeOK, ExeInv
  <2>2. ASSUME current # Dev, exe' # exe PROVE Newer(exe'.version, current)
    BY <1>1, <2>2, StepFacts, NewerFact DEF IInv, TypeOK
  <2> QED
    BY <2>1, <2>2
<1> QED
  BY <1>1, Invariance, PTL DEF Spec, NeverOlder
=============================================================================
