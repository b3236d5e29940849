---------------------------- MODULE ConfigProofs ----------------------------
(***************************************************************************)
(* Proofs about Config, for any settings among those the program has, any  *)
(* number of values given at a start and any number of runs.               *)
(*                                                                         *)
(* The three properties speak of the step that loads the configuration and *)
(* of what happened before it: what main exported when it was launched     *)
(* (GivenInv) and what the last save left behind (SavedInv).               *)
(***************************************************************************)
EXTENDS Config, TLAPS

\* What main exports for a setting when the user has given g for it: a flag
\* nobody has set is exported with its hard default.
Exported(s, g) ==
    IF s \notin Flagged THEN g
    ELSE IF g = "cleared" THEN ""
    ELSE IF g = "" \/ (g = "garbled" /\ s \in Booleans) THEN Default(s)
    ELSE g

GivenInv == pc = "loading" => \A s \in Settings :
    /\ given[s] \in Written(s) \cup {"cleared"}
    /\ given[s] = "cleared" => s \in Flagged
    /\ env[s] = Exported(s, given[s])

\* Only what Validate accepted is saved, and it is what the file holds.
SavedInv ==
    /\ pc = "saving" => Valid(form)
    /\ saved # NoFields => file = saved /\ Valid(saved)

IInv == TypeOK /\ GivenInv /\ SavedInv

----------------------------------------------------------------------------
(* The settings and what may be written for them.                          *)

LEMMA WrittenType == ASSUME NEW s PROVE Written(s) \subseteq Texts
  BY DEF Written, Texts

LEMMA InFileIsWritten == ASSUME NEW s PROVE InFile(s) \subseteq Written(s)
  BY DEF InFile, Written

\* Nothing that was parsed is kept in a foreign spelling.
LEMMA Canonical ==
    ASSUME NEW s \in Settings, NEW t \in Written(s), Parses(s, t)
    PROVE  /\ Canon(s, t) \in Texts \ {"alias", "garbled"}
           /\ s \in Parsed => Canon(s, t) # ""
  BY DEF Written, Parses, Canon, Texts, Parsed, Booleans

LEMMA DefaultConfigType == DefaultConfig \in Configs
  BY DEF DefaultConfig, Default, Configs, Texts

\* In a configuration every value is in the spelling LoadConfig would give it,
\* and parses, but for an upstream that is missing.
LEMMA ConfigValue ==
    ASSUME NEW c \in Configs, NEW s \in Settings
    PROVE  /\ c[s] \in Texts /\ Canon(s, c[s]) = c[s]
           /\ s # "upstream" \/ c[s] # "" => Parses(s, c[s])
  BY DEF Configs, Texts, Canon, Parses

\* What Validate accepts can be stored for any setting.
LEMMA ValidIsStorable ==
    ASSUME NEW c \in Configs, Valid(c), NEW s \in Settings
    PROVE  c[s] \in InFile(s)
<1>1. c[s] \in Texts \ {"alias", "garbled"} /\ c[s] # "refused"
      /\ (s \in Parsed /\ s # "upstream" => c[s] # "")
  BY DEF Configs, Valid
<1> QED
  BY <1>1 DEF InFile, Written, Parsed, Booleans, Texts

\* The value LoadConfig reads is one that can be written, wherever it is from.
LEMMA SourceWritten ==
    ASSUME TypeOK, GivenInv, pc = "loading", NEW s \in Settings
    PROVE  Source(env, LoadFile, s) \in Written(s)
<1>1. env[s] \in Written(s)
  BY DEF GivenInv, Exported, Default, Written
<1>2. pick(LoadFile, s) \in Written(s)
  <2>1. CASE s \in DOMAIN LoadFile /\ ~corrupt
    BY <2>1, InFileIsWritten DEF TypeOK, LoadFile, pick
  <2>2. CASE s \in DOMAIN LoadFile /\ corrupt
    BY <2>2 DEF LoadFile, NoFields
  <2>3. CASE s \notin DOMAIN LoadFile
    BY <2>3 DEF pick, Default, Written
  <2> QED
    BY <2>1, <2>2, <2>3 DEF TypeOK
<1> QED
  BY <1>1, <1>2 DEF Source, envOr

----------------------------------------------------------------------------
(* Launch.                                                                 *)

\* Anything launched is exported and remembered in the right types, and what is
\* exported for a setting is determined by what is remembered of it.
LEMMA LaunchStep ==
    ASSUME NEW E \in SUBSET Settings, NEW F \in SUBSET (Settings \cap Flagged),
           Launch(E, F)
    PROVE  /\ env' \in [Settings -> Texts] /\ given' \in [Settings -> Texts \cup {"cleared"}]
           /\ GivenInv'
<1>1. PICK e \in [E -> Texts], f \in [F -> Texts] :
         LET all == [s \in Settings |-> IF s \in E THEN e[s] ELSE ""]
         IN  /\ \A s \in E : e[s] \in Written(s)
             /\ \A s \in F : f[s] \in Written(s)
             /\ "skip" \in F => Parses("skip", f["skip"])
             /\ env' = Export(all, f)
             /\ given' = [s \in Settings |-> IF s \notin F   THEN all[s]
                                            ELSE IF f[s] = "" THEN "cleared"
                                            ELSE f[s]]
  BY DEF Launch
<1> DEFINE all == [s \in Settings |-> IF s \in E THEN e[s] ELSE ""]
<1>2. ASSUME NEW s \in Settings
      PROVE  /\ given'[s] \in Written(s) \cup {"cleared"}
             /\ given'[s] = "cleared" => s \in Flagged
             /\ env'[s] = Exported(s, given'[s])
  <2>1. env' = Export(all, f)
        /\ given'[s] = IF s \notin F THEN all[s] ELSE IF f[s] = "" THEN "cleared" ELSE f[s]
    BY <1>1
  <2>2. all[s] \in Written(s) /\ "cleared" \notin Written(s)
    BY <1>1 DEF Written
  <2>3. CASE s \in F
    <3>1. env'[s] = f[s] /\ s \in Flagged /\ f[s] \in Written(s)
      BY <1>1, <2>1, <2>3 DEF Export
    <3>2. ~(f[s] = "garbled" /\ s \in Booleans)
      BY <1>1, <2>3 DEF Parses, Parsed, Booleans, Flagged
    <3> HIDE DEF all
    <3> QED
      BY <2>1, <2>2, <2>3, <3>1, <3>2 DEF Exported
  <2>4. CASE s \notin F
    <3>1. env'[s] = IF s \notin Flagged THEN all[s] ELSE FlagDefault(all, s)
      BY <2>1, <2>4 DEF Export
    <3> HIDE DEF all
    <3>2. FlagDefault(all, s) = IF all[s] = "" \/ (all[s] = "garbled" /\ s \in Booleans)
                                THEN Default(s) ELSE all[s]
      BY <2>2 DEF FlagDefault, envOr, Parses, Parsed, Booleans, Default, Written
    <3> QED
      BY <2>1, <2>2, <2>4, <3>1, <3>2 DEF Exported
  <2> QED
    BY <2>3, <2>4
<1>3. env' = [s \in Settings |-> env'[s]] /\ given' = [s \in Settings |-> given'[s]]
  BY <1>1 DEF Export
<1>4. \A s \in Settings : env'[s] \in Texts /\ given'[s] \in Texts \cup {"cleared"}
  BY <1>2, WrittenType DEF Exported, Default, Texts
<1> HIDE DEF all
<1> QED
  BY <1>2, <1>3, <1>4 DEF GivenInv

----------------------------------------------------------------------------
(* The invariant.                                                          *)

\* Every load that succeeds leaves a configuration in normal form.
LEMMA LoadType ==
    ASSUME TypeOK, GivenInv, pc = "loading", ~LoadFails(env, LoadFile)
    PROVE  LoadConfig(env, LoadFile) \in Configs
<1>1. \A s \in Settings : Source(env, LoadFile, s) \in Written(s)
                          /\ Parses(s, Source(env, LoadFile, s))
  BY SourceWritten DEF LoadFails
<1> QED
  BY <1>1, Canonical DEF LoadConfig, Configs

LEMMA TypeStep == IInv /\ [Next]_vars => TypeOK'
<1> SUFFICES ASSUME IInv, [Next]_vars PROVE TypeOK'
  OBVIOUS
<1> USE DEF IInv, TypeOK
<1>1. ASSUME NEW start \in Starts, Launch(start[1], start[2]) PROVE TypeOK'
  <2>1. start[1] \in SUBSET Settings /\ start[2] \in SUBSET (Settings \cap Flagged)
    BY DEF Starts
  <2>2. env' \in [Settings -> Texts] /\ given' \in [Settings -> Texts \cup {"cleared"}]
    BY <1>1, <2>1, LaunchStep
  <2> QED
    BY <1>1, <2>2 DEF Launch
<1>2. Unset \in [Settings -> Texts]
  BY DEF Unset, Texts
<1>3. CASE Load
  <2>1. cfg' \in Configs
    BY <1>3, LoadType DEF Load
  <2> QED
    BY <1>2, <1>3, <2>1 DEF Load, ForgetEnv
<1>4. CASE LoadFallsBack
  BY <1>2, <1>4, DefaultConfigType DEF LoadFallsBack, ForgetEnv
<1>5. CASE LoadGivesUp
  BY <1>2, <1>5 DEF LoadGivesUp, ForgetEnv
<1>6. ASSUME NEW s \in Settings, SaveOpen(s) PROVE TypeOK'
  <2>1. PICK t \in Written(s) : /\ Parses(s, t)
                                /\ form' = [cfg EXCEPT ![s] = Canon(s, t)]
    BY <1>6 DEF SaveOpen
  <2>2. form' \in Configs
    BY <2>1, Canonical DEF Configs
  <2>3. file' = NoFields /\ saved' = NoFields /\ DOMAIN NoFields = {}
    BY <1>6 DEF SaveOpen, NoFields
  <2> QED
    BY <1>6, <2>2, <2>3 DEF SaveOpen
<1>7. CASE SaveWrite
  <2>1. DOMAIN file' = Settings /\ \A s \in Settings : file'[s] = form[s]
    BY <1>7 DEF SaveWrite, SaveConfig
  <2>2. \A s \in Settings : form[s] \in InFile(s)
    BY <1>7, ValidIsStorable DEF SaveWrite, SavedInv
  <2> QED
    BY <1>7, <2>1, <2>2, DefaultConfigType DEF SaveWrite
<1>8. CASE SaveFails \/ End
  <2>1. /\ form' \in Configs /\ cfg' \in Configs /\ pc' \in {"up", "down"}
        /\ headless' \in BOOLEAN /\ UNCHANGED <<env, file, corrupt, given, saved>>
    BY <1>8, DefaultConfigType DEF SaveFails, End
  <2> HIDE DEF IInv
  <2> QED
    BY <2>1 DEF IInv
<1>9. ASSUME NEW S \in SUBSET Settings, EditFile(S) PROVE TypeOK'
  <2>1. DOMAIN file' \subseteq Settings /\ \A s \in DOMAIN file' : file'[s] \in InFile(s)
    BY <1>9 DEF EditFile, NoFields
  <2> QED
    BY <1>9, <2>1 DEF EditFile
<1>10. CASE UNCHANGED vars
  BY <1>10 DEF vars
<1> QED
  BY <1>1, <1>3, <1>4, <1>5, <1>6, <1>7, <1>8, <1>9, <1>10 DEF Next

\* Only Launch makes a process load.
LEMMA GivenStep == GivenInv /\ [Next]_vars => GivenInv'
<1> SUFFICES ASSUME GivenInv, [Next]_vars PROVE GivenInv'
  OBVIOUS
<1>1. ASSUME NEW start \in Starts, Launch(start[1], start[2]) PROVE GivenInv'
  <2>1. start[1] \in SUBSET Settings /\ start[2] \in SUBSET (Settings \cap Flagged)
    BY DEF Starts
  <2> QED
    BY <1>1, <2>1, LaunchStep
<1>2. CASE UNCHANGED <<pc, env, given>>
  BY <1>2 DEF GivenInv
<1>3. ASSUME NEW S \in SUBSET Settings, EditFile(S) PROVE GivenInv'
  BY <1>2, <1>3 DEF EditFile
<1>4. ASSUME NEW s \in Settings, SaveOpen(s) PROVE GivenInv'
  BY <1>4 DEF SaveOpen, GivenInv
<1>5. CASE Load \/ LoadFallsBack \/ LoadGivesUp \/ SaveWrite \/ SaveFails \/ End
  BY <1>5 DEF Load, LoadFallsBack, LoadGivesUp, SaveWrite, SaveFails, End, GivenInv
<1> QED
  BY <1>1, <1>2, <1>3, <1>4, <1>5 DEF Next, vars

LEMMA SavedStep == IInv /\ [Next]_vars => SavedInv'
<1> SUFFICES ASSUME IInv, [Next]_vars PROVE SavedInv'
  OBVIOUS
<1> USE DEF IInv, SavedInv
<1>1. CASE UNCHANGED <<form, file, saved>> /\ pc' # "saving"
  BY <1>1 DEF Valid
<1>2. ASSUME NEW E, NEW F, Launch(E, F) PROVE SavedInv'
  BY <1>1, <1>2 DEF Launch
<1>3. CASE Load \/ LoadFallsBack \/ LoadGivesUp
  BY <1>1, <1>3 DEF Load, LoadFallsBack, LoadGivesUp
<1>4. ASSUME NEW s \in Settings, SaveOpen(s) PROVE SavedInv'
  <2>1. Valid(form')
    BY <1>4 DEF SaveOpen
  <2> QED
    BY <1>4, <2>1 DEF SaveOpen, Valid
<1>5. CASE SaveWrite
  <2>1. form = [s \in Settings |-> form[s]]
    BY DEF TypeOK, Configs
  <2> QED
    BY <1>5, <2>1 DEF SaveWrite, SaveConfig, Valid
<1>6. CASE SaveFails \/ End
  BY <1>6 DEF SaveFails, End, Valid
<1>7. ASSUME NEW S \in SUBSET Settings, EditFile(S) PROVE SavedInv'
  BY <1>7 DEF EditFile, Valid
<1>8. CASE UNCHANGED vars
  BY <1>8 DEF vars, Valid
<1> QED
  BY <1>2, <1>3, <1>4, <1>5, <1>6, <1>7, <1>8 DEF Next

LEMMA InitInv == Init => IInv
<1> SUFFICES ASSUME Init PROVE IInv
  OBVIOUS
<1>1. Unset \in [Settings -> Texts]
  BY DEF Unset, Texts
<1>2. TypeOK
  BY <1>1, DefaultConfigType DEF Init, TypeOK, NoFields
<1> QED
  BY <1>2 DEF Init, IInv, GivenInv, SavedInv

THEOREM Invariance == Spec => []IInv
<1>1. IInv /\ [Next]_vars => IInv'
  BY TypeStep, GivenStep, SavedStep DEF IInv
<1> QED
  BY <1>1, InitInv, PTL DEF Spec

\* Every variable stays in its type: above all, a configuration in use is
\* parsed and in normal form, whatever a start was given and a file contained.
THEOREM TypeCorrect == Spec => []TypeOK
<1>1. IInv => TypeOK
  BY DEF IInv
<1> QED
  BY <1>1, Invariance, PTL

----------------------------------------------------------------------------
(* The step that loads.                                                    *)

\* A process stops loading by loading, falling back or giving up; the last two
\* are not successes.
LEMMA LoadingStep ==
    ASSUME pc = "loading", Next
    PROVE  /\ Loaded' => ~LoadFails(env, LoadFile) /\ cfg' = LoadConfig(env, LoadFile)
           /\ LoadFails(env, LoadFile) \/ (Load /\ pc' = "up")
<1>1. Load \/ LoadFallsBack \/ LoadGivesUp
  BY DEF Next, Launch, EditFile, SaveOpen, SaveWrite, SaveFails, End
<1>2. CASE Load
  BY <1>2 DEF Load
<1>3. CASE LoadFallsBack
  <2>1. cfg'["upstream"] = ""
    BY <1>3, SettingsAssumption DEF LoadFallsBack, DefaultConfig, Default
  <2> QED
    BY <1>3, <2>1 DEF LoadFallsBack, Loaded
<1>4. CASE LoadGivesUp
  BY <1>4 DEF LoadGivesUp, Loaded
<1> QED
  BY <1>1, <1>2, <1>3, <1>4

\* A load that finds every setting readable has an upstream, so it counts.
LEMMA ReadableIsLoaded ==
    ASSUME pc = "loading", Next, ~LoadFails(env, LoadFile)
    PROVE  Loaded' /\ cfg' = LoadConfig(env, LoadFile)
<1>1. Load
  BY LoadingStep
<1>2. Source(env, LoadFile, "upstream") \notin {"", "garbled"}
  BY SettingsAssumption DEF LoadFails, Parses, Parsed
<1>3. cfg'["upstream"] # ""
  BY <1>1, <1>2, SettingsAssumption DEF Load, LoadConfig, Canon
<1> QED
  BY <1>1, <1>3 DEF Load, Loaded

\* What a user gives at a start, and can be read, reaches the configuration
\* through main's export past the file and the defaults.
THEOREM GivenWins == Spec => Precedence
<1>1. ASSUME IInv, [Next]_vars, pc = "loading", Loaded',
             NEW s \in Settings, given[s] \notin {"", "cleared", "garbled"}
      PROVE  cfg'[s] = Canon(s, given[s])
  <2>1. Next
    BY <1>1 DEF vars, Loaded
  <2>2. cfg' = LoadConfig(env, LoadFile)
    BY <1>1, <2>1, LoadingStep
  <2>3. env[s] = given[s]
    BY <1>1 DEF IInv, GivenInv, Exported
  <2> QED
    BY <1>1, <2>2, <2>3 DEF LoadConfig, Source, envOr
<1>2. IInv /\ [Next]_vars =>
        [(pc = "loading" /\ Loaded') =>
            \A s \in Settings : given[s] \notin {"", "cleared", "garbled"} =>
                cfg'[s] = Canon(s, given[s])]_vars
  BY <1>1
<1> QED
  BY <1>2, Invariance, PTL DEF Spec, Precedence

\* A saved configuration survives into later starts: one given nothing comes up
\* on a valid configuration, and no setting is lost that is neither given anew
\* nor shadowed by a flag's default.
THEOREM SavedSurvives == Spec => SavedIsUsed
<1>1. ASSUME IInv, Next, pc = "loading", saved # NoFields
      PROVE  /\ given = Unset => Loaded' /\ Valid(cfg')
             /\ Loaded' => \A s \in Settings \ Shadowed :
                    given[s] \in {"", "cleared"} => cfg'[s] = saved[s]
  <2>1. /\ saved \in Configs /\ Valid(saved) /\ LoadFile = saved
        /\ DOMAIN saved = Settings
    BY <1>1 DEF IInv, TypeOK, SavedInv, LoadFile, Configs
  <2>2. ASSUME NEW s \in Settings, env[s] = ""
        PROVE  Source(env, LoadFile, s) = saved[s]
    BY <2>1, <2>2 DEF Source, envOr, pick
  <2>3. ASSUME given = Unset PROVE Loaded' /\ Valid(cfg')
    <3>1. ASSUME NEW s \in Settings
          PROVE  \/ Source(env, LoadFile, s) = saved[s]
                 \/ s # "upstream" /\ Source(env, LoadFile, s) = "usual"
      <4>1. env[s] = "" \/ (s # "upstream" /\ env[s] = "usual")
        BY <1>1, <2>3 DEF IInv, GivenInv, Exported, Default, Unset
      <4> QED
        BY <2>2, <4>1 DEF Source, envOr
    <3>2. ASSUME NEW s \in Settings
          PROVE  /\ Parses(s, Source(env, LoadFile, s))
                 /\ Canon(s, Source(env, LoadFile, s)) \in {saved[s], "usual"}
                 /\ s = "upstream" => Canon(s, Source(env, LoadFile, s)) = saved[s]
      <4>1. Parses(s, saved[s]) /\ Canon(s, saved[s]) = saved[s]
        BY <2>1, ConfigValue DEF Valid
      <4> QED
        BY <3>1, <4>1 DEF Parses, Canon
    <3>3. ~LoadFails(env, LoadFile)
      BY <3>2 DEF LoadFails
    <3>4. Loaded' /\ cfg' = LoadConfig(env, LoadFile)
      BY <1>1, <3>3, ReadableIsLoaded
    <3>5. \A s \in Settings : /\ cfg'[s] \in {saved[s], "usual"}
                              /\ s = "upstream" => cfg'[s] = saved[s]
      BY <3>2, <3>4 DEF LoadConfig
    <3> QED
      BY <2>1, <3>4, <3>5, SettingsAssumption DEF Valid
  <2>4. ASSUME Loaded', NEW s \in Settings \ Shadowed, given[s] \in {"", "cleared"}
        PROVE  cfg'[s] = saved[s]
    <3>1. env[s] = ""
      BY <1>1, <2>4 DEF IInv, GivenInv, Exported, Shadowed, Default
    <3>2. cfg'[s] = Canon(s, saved[s])
      BY <1>1, <2>2, <2>4, <3>1, LoadingStep DEF LoadConfig
    <3> QED
      BY <2>1, <3>2, ConfigValue
  <2> QED
    BY <2>3, <2>4
<1>2. IInv /\ [Next]_vars =>
        [(pc = "loading" /\ saved # NoFields) =>
            /\ given = Unset => Loaded' /\ Valid(cfg')
            /\ Loaded' => \A s \in Settings \ Shadowed :
                   given[s] \in {"", "cleared"} => cfg'[s] = saved[s]]_vars
  BY <1>1
<1> QED
  BY <1>2, Invariance, PTL DEF Spec, SavedIsUsed

\* Of what a file can hold only the upstream can fail to parse and be read at
\* all: every other setting that is parsed is shadowed or a Boolean.
THEOREM FileIsHarmless == Spec => BadFileHarmless
<1>1. ASSUME IInv, Next, pc = "loading", ~Loaded',
             \A s \in Settings : given[s] # "cleared"
      PROVE  LoadFails(env, NoFields)
  <2>1. PICK s \in Settings : ~Parses(s, Source(env, LoadFile, s))
    BY <1>1, ReadableIsLoaded DEF LoadFails
  <2>2. Source(env, NoFields, s) = envOr(env, s, Default(s))
    BY DEF Source, pick, NoFields
  <2>3. CASE env[s] # ""
    BY <2>1, <2>2, <2>3 DEF Source, envOr, LoadFails
  <2>4. CASE env[s] = "" /\ s \notin DOMAIN LoadFile
    BY <2>1, <2>2, <2>4 DEF Source, envOr, pick, LoadFails
  <2>5. CASE env[s] = "" /\ s \in DOMAIN LoadFile
    <3>1. LoadFile[s] \in InFile(s) /\ Source(env, LoadFile, s) = LoadFile[s]
      BY <1>1, <2>5 DEF IInv, TypeOK, LoadFile, NoFields, Source, envOr, pick
    <3>2. s \in {"upstream", "timeout"}
      BY <2>1, <3>1 DEF Parses, Parsed, InFile, Booleans
    <3>3. s # "timeout"
      BY <1>1, <2>5 DEF IInv, GivenInv, Exported, Flagged, Default
    <3>4. Source(env, NoFields, s) = "" /\ s \in Parsed
      BY <2>2, <2>5, <3>2, <3>3 DEF envOr, Default, Parsed
    <3> QED
      BY <3>4 DEF LoadFails, Parses
  <2> QED
    BY <2>3, <2>4, <2>5
<1>2. IInv /\ [Next]_vars =>
        [(/\ pc = "loading" /\ ~Loaded'
          /\ \A s \in Settings : given[s] # "cleared")
         => LoadFails(env, NoFields)]_vars
  BY <1>1
<1> QED
  BY <1>2, Invariance, PTL DEF Spec, BadFileHarmless
=============================================================================
