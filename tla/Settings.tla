------------------------------ MODULE Settings ------------------------------
(***************************************************************************)
(* Two preferences that live in several places at once, through any number *)
(* of starts of the window: the language (config.json, the Handle's        *)
(* configuration, the form, package i18n) and start at login (the same     *)
(* three, and the operating system's registration of package autostart).   *)
(*                                                                         *)
(* Picking a language and ticking the autostart box act at once; only Save *)
(* writes the file; Revert refills the form.  The other fields, and the    *)
(* server a save restarts, are in Config and Frontend: here a save has the *)
(* outcomes they give it.  The environment overrides neither setting here  *)
(* (Config).                                                               *)
(*                                                                         *)
(* A history variable records what happened (a refusal, an entry that could *)
(* not be read, a click, a failed load), never whether two copies agree:   *)
(* what the program does about it is for the properties to judge.          *)
(***************************************************************************)
CONSTANTS Languages, Default,     \* i18n's languages and its default
          None                    \* no readable file; no toggle

ASSUME DefaultAssumption == Default \in Languages
ASSUME NoneAssumption == None \notin [lang : Languages, auto : BOOLEAN] \cup BOOLEAN

VARIABLES
    file,        \* config.json
    cfg,         \* h.cfg
    form,        \* p.lang and p.autost
    lang,        \* i18n's current language
    registered,  \* the registration exists and names this executable
    open,        \* the window is up
    blind,       \* history: since the form was filled, a toggle was refused, or
                 \* the entry was hidden from the program or lost
    drift,       \* history: since the last save or start that read the file, a
                 \* toggle, an edit, a loss or a refusal
    strayed,     \* history: since then, a language picked or the file edited
    reverted,    \* history: the form refilled without i18n being told
    wanted       \* history: the last toggle, while nothing has undone it since

history == <<blind, drift, strayed, reverted, wanted>>
vars == <<file, cfg, form, lang, registered, open, history>>

Prefs == [lang : Languages, auto : BOOLEAN]
DefaultConfig == [lang |-> Default, auto |-> FALSE]

\* The program was used before: any file and any registration may be there.
Init ==
    /\ file \in Prefs \cup {None}
    /\ registered \in BOOLEAN
    /\ cfg = DefaultConfig
    /\ form = DefaultConfig
    /\ lang = Default
    /\ open = FALSE
    /\ blind = FALSE /\ reverted = FALSE
    /\ drift = TRUE /\ strayed = TRUE
    /\ wanted = None

\* ok: no error is returned.  A write that fails may leave the old entry, a torn
\* one that no longer names the executable, or the whole new one.
enable(ok)  == registered' \in IF ok THEN {TRUE} ELSE BOOLEAN
disable(ok) == registered' = (registered /\ ~ok)

\* Faults seeded in EnableIfWanted.
EnableIfWanted_OnlyEnables(want, ok) == IF want THEN enable(ok) ELSE UNCHANGED registered
EnableIfWanted_Inverted(want, ok) == IF want THEN disable(ok) ELSE enable(ok)
EnableIfWanted(want, ok) == IF want THEN enable(ok) ELSE disable(ok)

\* An entry that cannot be read counts as none.
isEnabled(reg, hidden) == reg /\ ~hidden

\* What LoadConfig gives, or the defaults main falls back on when it fails.
LaunchConfig(loads) == IF loads /\ file # None THEN file ELSE DefaultConfig

Filled(c, seen) == [lang |-> c.lang, auto |-> seen]

\* newPages and revertForm: the form from the configuration and the system.
Fill(c) == \E hidden \in BOOLEAN : /\ form' = Filled(c, isEnabled(registered', hidden))
                                   /\ blind' = hidden

\* Run and newPages.  The error of EnableIfWanted is ignored.
Launch ==
    /\ ~open
    /\ open' = TRUE
    /\ \E loads, ok \in BOOLEAN :
          /\ cfg' = LaunchConfig(loads)
          /\ EnableIfWanted(cfg'.auto, ok)
          /\ drift' = ~(loads /\ ok)
          /\ strayed' = ~loads
          /\ wanted' = IF loads /\ ok THEN wanted ELSE None
    /\ lang' = cfg'.lang
    /\ Fill(cfg')
    /\ reverted' = FALSE
    /\ UNCHANGED file

PickLanguage ==
    /\ open
    /\ \E l \in Languages : /\ form' = [form EXCEPT !.lang = l]
                            /\ lang' = l
    /\ strayed' = TRUE
    /\ reverted' = FALSE
    /\ UNCHANGED <<file, cfg, registered, open, blind, drift, wanted>>

\* A refused toggle is reported, and the box stays as it was clicked.
ToggleAutostart ==
    /\ open
    /\ form' = [form EXCEPT !.auto = ~@]
    /\ \E ok \in BOOLEAN : /\ EnableIfWanted(form'.auto, ok)
                           /\ blind' = ~ok
                           /\ wanted' = IF ok THEN form'.auto ELSE None
    /\ drift' = TRUE
    /\ UNCHANGED <<file, cfg, lang, open, strayed, reverted>>

\* Faults seeded in Submitted: the configuration is built without the language,
\* or with the one in use before.
Submitted_NoLanguage == [form EXCEPT !.lang = None]
Submitted_OldLanguage == [form EXCEPT !.lang = cfg.lang]
Submitted == form

\* The new configuration is written and installed.  i18n is told, unless the
\* server does not come up again: that error ends applySave first.
Save ==
    /\ open
    /\ file' = Submitted
    /\ cfg' = Submitted
    /\ drift' = blind
    /\ \/ lang' = cfg'.lang /\ strayed' = FALSE /\ reverted' = FALSE
       \/ strayed' = reverted /\ UNCHANGED <<lang, reverted>>
    /\ UNCHANGED <<form, registered, open, blind, wanted>>

\* The write stopped half-way, by an error or a crash: LoadFile makes nothing of
\* what is left.  (A save that writes nothing changes nothing.)
SaveTorn ==
    /\ open
    /\ file' = None
    /\ open' \in BOOLEAN
    /\ wanted' = None
    /\ UNCHANGED <<cfg, form, lang, registered, blind, drift, strayed, reverted>>

\* i18n is not told.
revertForm ==
    /\ open
    /\ UNCHANGED registered
    /\ Fill(cfg)
    /\ reverted' = TRUE
    /\ UNCHANGED <<file, cfg, lang, open, drift, strayed, wanted>>

Close == open /\ open' = FALSE
         /\ UNCHANGED <<file, cfg, form, lang, registered, history>>

\* The user deletes the entry, or moves the program away from it.
EntryDeleted ==
    /\ registered
    /\ registered' = FALSE
    /\ blind' = TRUE
    /\ drift' = TRUE
    /\ wanted' = None
    /\ UNCHANGED <<file, cfg, form, lang, open, strayed, reverted>>

\* The user edits or removes config.json.
EditFile ==
    /\ file' \in Prefs \cup {None}
    /\ drift' = TRUE
    /\ strayed' = TRUE
    /\ wanted' = None
    /\ UNCHANGED <<cfg, form, lang, registered, open, blind, reverted>>

Next == Launch \/ PickLanguage \/ ToggleAutostart \/ Save \/ SaveTorn \/ revertForm
        \/ Close \/ EntryDeleted \/ EditFile

Spec == Init /\ [][Next]_vars

----------------------------------------------------------------------------
TypeOK ==
    /\ file \in Prefs \cup {None}
    /\ cfg \in Prefs
    /\ form \in Prefs
    /\ lang \in Languages
    /\ registered \in BOOLEAN /\ open \in BOOLEAN
    /\ blind \in BOOLEAN /\ drift \in BOOLEAN
    /\ strayed \in BOOLEAN /\ reverted \in BOOLEAN
    /\ wanted \in BOOLEAN \cup {None}

\* The box shows the registration the system really has, through starts, toggles
\* that are never saved, saves and reverts, as long as since the form was filled
\* the system refused no toggle and neither hid nor lost the entry.
BoxTrue == open /\ ~blind => form.auto = registered

\* What the file says is what is registered, from every save of a true box and
\* from every start that loads and is not refused, whatever was lost, edited or
\* toggled before, until somebody toggles, edits, or the entry is lost.
SavedIsRegistered == file # None /\ ~drift => registered = file.auto

\* The window speaks the language of the file, from every save and every start
\* that loads until somebody picks another: reverts do not change it, and a save
\* whose restart failed finds it spoken already, unless a revert came between.
SavedIsSpoken == open /\ file # None /\ ~strayed => lang = file.lang

----------------------------------------------------------------------------
(* What the documents say and the code does not do.                        *)

\* Gio redesign, line 108: toggling the box persists the preference, so a later
\* start that can load its configuration does not undo it.
ToggleKept == wanted # None => registered = wanted
=============================================================================
