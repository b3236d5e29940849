------------------------------- MODULE Config -------------------------------
(***************************************************************************)
(* Where the configuration of a cc2ws process comes from (main.go,         *)
(* config.go): command line, environment, config.json and defaults, over   *)
(* any number of runs of the program, with saves from the Settings page,   *)
(* processes that end or crash at any point and files edited by hand.      *)
(*                                                                         *)
(* Settings are known by name.  What a person can write for one is told    *)
(* apart only as far as the code does:                                     *)
(*   ""         nothing; an environment variable set to "" is unset        *)
(*   "usual"    its hard default (for the upstream, which has none, just   *)
(*              one of two origins)                                        *)
(*   "good"     another value, in the spelling SaveConfig writes           *)
(*   "alias"    a different spelling of good: ws:// for http://, 60s for   *)
(*              1m0s, 1 for true                                           *)
(*   "refused"  a value that parses and that Validate refuses              *)
(*   "garbled"  a value that does not parse                                *)
(* "timeout" stands for both timeouts, "language" for the theme as well.   *)
(***************************************************************************)
EXTENDS Naturals, FiniteSets

CONSTANTS Settings,   \* the settings of the instance
          MaxGiven,   \* bound: variables and flags given at a start
          MaxEdited   \* bound: fields of a file written by hand

ASSUME SettingsAssumption ==
    /\ "upstream" \in Settings
    /\ Settings \subseteq {"upstream", "listen", "timeout", "skip", "level",
                           "language", "autostart"}
ASSUME BoundsAssumption == MaxGiven \in Nat /\ MaxEdited \in Nat

Texts == {"", "usual", "good", "alias", "refused", "garbled"}

\* Settings main has a flag for.
Flagged == {"upstream", "listen", "timeout", "skip", "level"}
\* Settings that are parsed; two of them are Booleans.
Booleans == {"skip", "autostart"}
Parsed == {"upstream", "timeout"} \cup Booleans

\* What a person may write for s, and what config.json can hold for it: an
\* entry of the wrong type makes the whole file fail to parse.
Written(s) ==
    {"", "usual", "good"}
        \cup (IF s \in Parsed THEN {"alias", "garbled"} ELSE {})
        \cup (IF s \in {"timeout", "level", "language"} THEN {"refused"} ELSE {})
InFile(s) == IF s \in Booleans THEN {"usual", "good"} ELSE Written(s)

VARIABLES
    pc,        \* "down", "loading", "up" or "saving" (config.json truncated)
    headless,  \* the process runs without a frontend
    env,       \* the environment main hands to LoadConfig
    cfg,       \* the Handle's configuration
    form,      \* the configuration being saved
    file,      \* the fields of config.json; none while it is absent or corrupt
    corrupt,   \* config.json is there and does not parse
    given,     \* history: what the command line or else the environment gives;
               \* "cleared" for a flag given as ""
    saved      \* history: what the last save stored, while the file is that

vars == <<pc, headless, env, cfg, form, file, corrupt, given, saved>>

NoFields == [s \in {} |-> ""]
Unset == [s \in Settings |-> ""]

----------------------------------------------------------------------------
(* config.go                                                               *)

Default(s) == IF s = "upstream" THEN "" ELSE "usual"

DefaultConfig == [s \in Settings |-> Default(s)]

Parses(s, t) == s \in Parsed => t \notin {"", "garbled"}

\* Fault seeded in Canon: the spelling is kept as it was given.
Canon_Verbatim(s, t) == t

\* Parsing forgets the spelling: an origin is stored as http(s)://host, a
\* duration is printed in normal form.
Canon(s, t) == IF s \in Parsed /\ t = "alias" THEN "good" ELSE t

\* The file's fields are pointers: absence differs from "".
LoadFile == IF corrupt THEN NoFields ELSE file

pick(fc, s) == IF s \in DOMAIN fc THEN fc[s] ELSE Default(s)

\* Fault seeded in envOr: the file wins over the environment.
envOr_Last(e, s, def) == IF def # "" THEN def ELSE e[s]

envOr(e, s, def) == IF e[s] # "" THEN e[s] ELSE def

Source(e, fc, s) == envOr(e, s, pick(fc, s))

\* LoadConfig parses; it does not call Validate.
LoadFails(e, fc) == \E s \in Settings : ~Parses(s, Source(e, fc, s))

LoadConfig(e, fc) == [s \in Settings |-> Canon(s, Source(e, fc, s))]

\* Validate takes an empty language for the default one.
Valid(c) ==
    /\ c["upstream"] # ""
    /\ \A s \in Settings : c[s] # "refused" /\ (s = "level" => c[s] # "")

\* Fault seeded in SaveConfig: a field that is new in Config is forgotten.
SaveConfig_Forgets(c) == [s \in Settings \ {"language"} |-> c[s]]

SaveConfig(c) == [s \in Settings |-> c[s]]

----------------------------------------------------------------------------
(* main.go                                                                 *)

\* The default of a flag is the environment's value or the hard default; an
\* unreadable Boolean counts as false.
FlagDefault(e, s) ==
    LET t == envOr(e, s, Default(s))
    IN  IF s \in Booleans /\ ~Parses(s, t) THEN Default(s) ELSE t

\* Fault seeded in Export: only what was given is exported.
Export_Given(e, f) ==
    [s \in Settings |-> IF s \in DOMAIN f THEN f[s] ELSE e[s]]

\* Every flag, given or not, is exported, so LoadConfig finds the hard default
\* in the environment, where it wins over the file.
Export(e, f) ==
    [s \in Settings |-> IF s \notin Flagged    THEN e[s]
                        ELSE IF s \in DOMAIN f THEN f[s]
                        ELSE FlagDefault(e, s)]

Init ==
    /\ pc = "down"
    /\ headless = FALSE
    /\ env = Unset
    /\ cfg = DefaultConfig
    /\ form = DefaultConfig
    /\ file = NoFields
    /\ corrupt = FALSE
    /\ given = Unset
    /\ saved = NoFields

Starts == {start \in (SUBSET Settings) \X (SUBSET (Settings \cap Flagged)) :
              Cardinality(start[1]) + Cardinality(start[2]) <= MaxGiven}

\* A start with the variables in E and the flags in F given; a Boolean flag
\* that does not parse ends the process at once.
Launch(E, F) ==
    /\ pc = "down"
    /\ \E e \in [E -> Texts], f \in [F -> Texts] :
         LET all == [s \in Settings |-> IF s \in E THEN e[s] ELSE ""]
         IN  /\ \A s \in E : e[s] \in Written(s)
             /\ \A s \in F : f[s] \in Written(s)
             /\ "skip" \in F => Parses("skip", f["skip"])
             /\ env' = Export(all, f)
             /\ given' = [s \in Settings |-> IF s \notin F   THEN all[s]
                                            ELSE IF f[s] = "" THEN "cleared"
                                            ELSE f[s]]
    /\ headless' \in BOOLEAN
    /\ pc' = "loading"
    /\ UNCHANGED <<cfg, form, file, corrupt, saved>>

\* Nothing reads the environment again once it was loaded.
ForgetEnv == env' = Unset /\ given' = Unset

Load ==
    /\ pc = "loading"
    /\ ~LoadFails(env, LoadFile)
    /\ cfg' = LoadConfig(env, LoadFile)
    /\ pc' = "up"
    /\ ForgetEnv
    /\ UNCHANGED <<headless, form, file, corrupt, saved>>

\* A frontend opens all the same, on the defaults alone.
LoadFallsBack ==
    /\ pc = "loading"
    /\ LoadFails(env, LoadFile)
    /\ ~headless
    /\ cfg' = DefaultConfig
    /\ pc' = "up"
    /\ ForgetEnv
    /\ UNCHANGED <<headless, form, file, corrupt, saved>>

LoadGivesUp ==
    /\ pc = "loading"
    /\ LoadFails(env, LoadFile)
    /\ headless
    /\ pc' = "down"
    /\ ForgetEnv
    /\ UNCHANGED <<headless, cfg, form, file, corrupt, saved>>

----------------------------------------------------------------------------
(* The Settings page: BuildConfigFromStrings, then SetConfig.              *)

\* The form shows the configuration; one field is changed, or none.  What does
\* not parse or is not valid changes nothing.  WriteFile first truncates.
SaveOpen(s) ==
    /\ pc = "up"
    /\ ~headless
    /\ \E t \in Written(s) :
         LET new == [cfg EXCEPT ![s] = Canon(s, t)]
         IN  /\ Parses(s, t)
             /\ Parses("upstream", new["upstream"])
             /\ Valid(new)
             /\ form' = new
    /\ file' = NoFields
    /\ corrupt' = TRUE
    /\ saved' = NoFields
    /\ pc' = "saving"
    /\ UNCHANGED <<headless, env, cfg, given>>

SaveWrite ==
    /\ pc = "saving"
    /\ file' = SaveConfig(form)
    /\ corrupt' = FALSE
    /\ saved' = form
    /\ cfg' = form
    /\ form' = DefaultConfig
    /\ pc' = "up"
    /\ UNCHANGED <<headless, env, given>>

\* The write fails after the truncation; the configuration is not installed.
SaveFails ==
    /\ pc = "saving"
    /\ form' = DefaultConfig
    /\ pc' = "up"
    /\ UNCHANGED <<headless, env, cfg, file, corrupt, given, saved>>

\* The process ends or crashes.  While it loads it has changed nothing yet.
End ==
    /\ pc \in {"up", "saving"}
    /\ pc' = "down"
    /\ headless' = FALSE
    /\ cfg' = DefaultConfig
    /\ form' = DefaultConfig
    /\ UNCHANGED <<env, file, corrupt, given, saved>>

\* The user removes config.json, writes one, or spoils it.
EditFile(S) ==
    /\ pc = "down"
    /\ Cardinality(S) <= MaxEdited
    /\ \/ /\ \E f \in [S -> Texts] :
               /\ \A s \in S : f[s] \in InFile(s)
               /\ file' = f
          /\ corrupt' = FALSE
       \/ /\ file' = NoFields
          /\ corrupt' = TRUE
    /\ saved' = NoFields
    /\ UNCHANGED <<pc, headless, env, cfg, form, given>>

Next ==
    \/ \E start \in Starts : Launch(start[1], start[2])
    \/ \E S \in SUBSET Settings : EditFile(S)
    \/ Load \/ LoadFallsBack \/ LoadGivesUp
    \/ \E s \in Settings : SaveOpen(s)
    \/ SaveWrite \/ SaveFails \/ End

Spec == Init /\ [][Next]_vars

----------------------------------------------------------------------------
\* A configuration is parsed and in normal form; only the fallback lacks an
\* upstream.
Configs == {c \in [Settings -> Texts \ {"alias", "garbled"}] :
               \A s \in Settings : s \in Parsed /\ s # "upstream" => c[s] # ""}

TypeOK ==
    /\ pc \in {"down", "loading", "up", "saving"}
    /\ headless \in BOOLEAN
    /\ env \in [Settings -> Texts]
    /\ cfg \in Configs
    /\ form \in Configs
    /\ DOMAIN file \subseteq Settings
    /\ \A s \in DOMAIN file : file[s] \in InFile(s)
    /\ corrupt \in BOOLEAN
    /\ given \in [Settings -> Texts \cup {"cleared"}]
    /\ saved # NoFields => saved \in Configs /\ ~corrupt

\* The load that is under way has succeeded: only the fallback, which keeps
\* nothing, has no upstream.
Loaded == pc = "up" /\ cfg["upstream"] # ""

\* A flag wins over the environment and the environment over the file: what the
\* user gives at a start, and can be read, is what the process uses.
Precedence ==
    [][(pc = "loading" /\ Loaded') =>
          \A s \in Settings : given[s] \notin {"", "cleared", "garbled"} =>
              cfg'[s] = Canon(s, given[s])]_vars

\* Settings whose flag has a hard default.
Shadowed == Flagged \ {"upstream"}

\* What was saved is used by later starts, whatever ended the process that
\* saved: a start given nothing comes up, with or without a frontend, on a valid
\* configuration, and no setting is lost that is neither given anew nor shadowed
\* by a flag's hard default.
SavedIsUsed ==
    [][(pc = "loading" /\ saved # NoFields) =>
          /\ given = Unset => Loaded' /\ Valid(cfg')
          /\ Loaded' => \A s \in Settings \ Shadowed :
                 given[s] \in {"", "cleared"} => cfg'[s] = saved[s]]_vars

\* config.json is not the reason why a start fails or falls back to defaults: it
\* would have done so without the file, unless a flag was given as "".
BadFileHarmless ==
    [][(/\ pc = "loading" /\ ~Loaded'
        /\ \A s \in Settings : given[s] # "cleared")
       => LoadFails(env, NoFields)]_vars

----------------------------------------------------------------------------
(* What the documents say and the code does not do.                        *)

\* README.md:103: defaults < config.json: a saved setting beats its default.
SavedBeatsDefaults ==
    [][(pc = "loading" /\ given = Unset /\ saved # NoFields) =>
          \A s \in Settings : cfg'[s] = saved[s]]_vars
=============================================================================
