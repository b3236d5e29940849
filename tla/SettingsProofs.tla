--------------------------- MODULE SettingsProofs ---------------------------
(***************************************************************************)
(* Proofs about Settings, for any set of languages, any file and           *)
(* registration to start from, and any number of starts, clicks, saves and *)
(* refusals of the operating system.                                       *)
(*                                                                         *)
(* SavedIsRegistered is not inductive: a save copies the box, not the      *)
(* registration, so it rests on BoxTrue.  Nor is SavedIsSpoken: a save     *)
(* whose restart failed leaves i18n alone, and what is spoken is what is   *)
(* saved only if form and i18n agreed before (FormSpoken).                 *)
(***************************************************************************)
EXTENDS Settings, TLAPS

\* The form shows the language spoken, unless it was refilled silently.
FormSpoken == open /\ ~reverted => lang = form.lang

IInv == TypeOK /\ BoxTrue /\ SavedIsRegistered /\ SavedIsSpoken /\ FormSpoken

LEMMA InitIInv == Init => IInv
<1> SUFFICES ASSUME Init PROVE IInv
  OBVIOUS
<1>1. DefaultConfig \in Prefs
  BY DefaultAssumption DEF DefaultConfig, Prefs
<1>2. TypeOK
  BY <1>1, DefaultAssumption DEF Init, TypeOK
<1> QED
  BY <1>2 DEF Init, IInv, BoxTrue, SavedIsRegistered, SavedIsSpoken, FormSpoken

\* What a start finds is a configuration, and the file's if it could load.
LEMMA LaunchConfigFact ==
    ASSUME TypeOK, NEW loads \in BOOLEAN
    PROVE  /\ LaunchConfig(loads) \in Prefs
           /\ loads /\ file # None => LaunchConfig(loads) = file
BY DefaultAssumption DEF TypeOK, LaunchConfig, DefaultConfig, Prefs

\* EnableIfWanted keeps the type and, without an error, does what was wanted.
LEMMA EnableFact ==
    ASSUME registered \in BOOLEAN, NEW want \in BOOLEAN, NEW ok \in BOOLEAN,
           EnableIfWanted(want, ok)
    PROVE  /\ registered' \in BOOLEAN
           /\ ok => registered' = want
<1>1. CASE want
  <2>1. registered' \in IF ok THEN {TRUE} ELSE BOOLEAN
    BY <1>1 DEF EnableIfWanted, enable
  <2> QED
    BY <1>1, <2>1
<1>2. CASE ~want
  <2>1. registered' = (registered /\ ~ok)
    BY <1>2 DEF EnableIfWanted, disable
  <2> QED
    BY <1>2, <2>1, Zenon
<1> QED
  BY <1>1, <1>2

\* A filled form takes the language of its source and, unless the entry was
\* hidden, the registration.
LEMMA FillFact ==
    ASSUME NEW c \in Prefs, registered' \in BOOLEAN, Fill(c)
    PROVE  /\ form' \in Prefs /\ blind' \in BOOLEAN
           /\ form'.lang = c.lang
           /\ ~blind' => form'.auto = registered'
<1>1. PICK hidden \in BOOLEAN : /\ form' = Filled(c, isEnabled(registered', hidden))
                                /\ blind' = hidden
  BY DEF Fill
<1>2. isEnabled(registered', hidden) \in BOOLEAN
  BY Zenon DEF isEnabled
<1>3. ~hidden => isEnabled(registered', hidden) = registered'
  BY Zenon DEF isEnabled
<1>4. form' = [lang |-> c.lang, auto |-> isEnabled(registered', hidden)]
  BY <1>1 DEF Filled
<1>5. c.lang \in Languages
  BY DEF Prefs
<1>6. form' \in Prefs
  BY <1>2, <1>4, <1>5 DEF Prefs
<1> QED
  BY <1>1, <1>3, <1>4, <1>6

LEMMA LaunchStep == IInv /\ Launch => IInv'
<1> SUFFICES ASSUME IInv, Launch PROVE IInv'
  OBVIOUS
<1>1. PICK loads, ok \in BOOLEAN : /\ cfg' = LaunchConfig(loads)
                                   /\ EnableIfWanted(cfg'.auto, ok)
                                   /\ drift' = ~(loads /\ ok)
                                   /\ strayed' = ~loads
                                   /\ wanted' = IF loads /\ ok THEN wanted ELSE None
  BY DEF Launch
<1>2. cfg' \in Prefs /\ (loads /\ file # None => cfg' = file)
  BY <1>1, LaunchConfigFact DEF IInv
<1>3. cfg'.lang \in Languages /\ cfg'.auto \in BOOLEAN
  BY <1>2 DEF Prefs
<1>4. registered' \in BOOLEAN /\ (ok => registered' = cfg'.auto)
  BY <1>1, <1>3, EnableFact DEF IInv, TypeOK
<1>5. /\ form' \in Prefs /\ blind' \in BOOLEAN
      /\ form'.lang = cfg'.lang
      /\ ~blind' => form'.auto = registered'
  BY <1>2, <1>4, FillFact DEF Launch
<1>6. open' /\ reverted' = FALSE /\ lang' = cfg'.lang /\ file' = file
  BY DEF Launch
<1>7. TypeOK'
  <2>1. drift' \in BOOLEAN /\ strayed' \in BOOLEAN
    BY <1>1, Zenon
  <2>2. file' \in Prefs \cup {None} /\ open' \in BOOLEAN /\ wanted' \in BOOLEAN \cup {None}
    BY <1>1 DEF Launch, IInv, TypeOK
  <2> QED
    BY <1>2, <1>3, <1>4, <1>5, <1>6, <2>1, <2>2 DEF TypeOK
<1>8. BoxTrue'
  BY <1>5 DEF BoxTrue
<1>9. SavedIsRegistered'
  <2> SUFFICES ASSUME file # None, ~drift' PROVE registered' = file.auto
    BY <1>6 DEF SavedIsRegistered
  <2>1. loads /\ ok
    BY <1>1
  <2> QED
    BY <1>2, <1>4, <2>1
<1>10. SavedIsSpoken'
  BY <1>1, <1>2, <1>6 DEF SavedIsSpoken
<1>11. FormSpoken'
  BY <1>5, <1>6 DEF FormSpoken
<1> QED
  BY <1>7, <1>8, <1>9, <1>10, <1>11 DEF IInv

LEMMA PickStep == IInv /\ PickLanguage => IInv'
<1> SUFFICES ASSUME IInv, PickLanguage PROVE IInv'
  OBVIOUS
<1>1. PICK l \in Languages : form' = [form EXCEPT !.lang = l] /\ lang' = l
  BY DEF PickLanguage
<1>2. form' \in Prefs /\ form'.lang = l /\ form'.auto = form.auto
  BY <1>1 DEF IInv, TypeOK, Prefs
<1>3. TypeOK'
  BY <1>1, <1>2 DEF PickLanguage, IInv, TypeOK
<1> QED
  BY <1>1, <1>2, <1>3 DEF PickLanguage, IInv, BoxTrue, SavedIsRegistered, SavedIsSpoken, FormSpoken

LEMMA ToggleStep == IInv /\ ToggleAutostart => IInv'
<1> SUFFICES ASSUME IInv, ToggleAutostart PROVE IInv'
  OBVIOUS
<1>1. form' \in Prefs /\ form'.auto \in BOOLEAN /\ form'.lang = form.lang
  BY DEF ToggleAutostart, IInv, TypeOK, Prefs
<1>2. PICK ok \in BOOLEAN : /\ EnableIfWanted(form'.auto, ok)
                            /\ blind' = ~ok
                            /\ wanted' = IF ok THEN form'.auto ELSE None
  BY DEF ToggleAutostart
<1>3. registered' \in BOOLEAN /\ (ok => registered' = form'.auto)
  BY <1>1, <1>2, EnableFact DEF IInv, TypeOK
<1>4. blind' \in BOOLEAN /\ wanted' \in BOOLEAN \cup {None}
  BY <1>1, <1>2, Zenon
<1>5. TypeOK'
  BY <1>1, <1>3, <1>4 DEF ToggleAutostart, IInv, TypeOK
<1>6. BoxTrue'
  BY <1>2, <1>3 DEF BoxTrue
<1>7. SavedIsRegistered'
  BY DEF ToggleAutostart, SavedIsRegistered
<1>8. SavedIsSpoken' /\ FormSpoken'
  BY <1>1 DEF ToggleAutostart, IInv, SavedIsSpoken, FormSpoken
<1> QED
  BY <1>5, <1>6, <1>7, <1>8 DEF IInv

\* The save: the box is what is registered, and form and i18n agree or i18n is told.
LEMMA SaveStep == IInv /\ Save => IInv'
<1> SUFFICES ASSUME IInv, Save PROVE IInv'
  OBVIOUS
<1>1. form.lang \in Languages /\ cfg' = form /\ file' = form
  BY DEF Save, Submitted, IInv, TypeOK, Prefs
<1>2. TypeOK'
  BY <1>1 DEF Save, IInv, TypeOK
<1>3. BoxTrue'
  BY DEF Save, IInv, BoxTrue
<1>4. SavedIsRegistered'
  BY <1>1 DEF Save, IInv, BoxTrue, SavedIsRegistered
<1>5. SavedIsSpoken' /\ FormSpoken'
  BY <1>1 DEF Save, IInv, SavedIsSpoken, FormSpoken
<1> QED
  BY <1>2, <1>3, <1>4, <1>5 DEF IInv

LEMMA RevertStep == IInv /\ revertForm => IInv'
<1> SUFFICES ASSUME IInv, revertForm PROVE IInv'
  OBVIOUS
<1>1. /\ form' \in Prefs /\ blind' \in BOOLEAN
      /\ ~blind' => form'.auto = registered'
  BY FillFact DEF revertForm, IInv, TypeOK
<1>2. TypeOK'
  BY <1>1 DEF revertForm, IInv, TypeOK
<1> QED
  BY <1>1, <1>2 DEF revertForm, IInv, BoxTrue, SavedIsRegistered, SavedIsSpoken, FormSpoken

LEMMA InductiveStep == IInv /\ [Next]_vars => IInv'
<1> SUFFICES ASSUME IInv, [Next]_vars PROVE IInv'
  OBVIOUS
<1>1. CASE Launch
  BY <1>1, LaunchStep
<1>2. CASE PickLanguage
  BY <1>2, PickStep
<1>3. CASE ToggleAutostart
  BY <1>3, ToggleStep
<1>4. CASE Save
  BY <1>4, SaveStep
<1>5. CASE SaveTorn
  BY <1>5 DEF SaveTorn, IInv, TypeOK, BoxTrue, SavedIsRegistered, SavedIsSpoken, FormSpoken
<1>6. CASE revertForm
  BY <1>6, RevertStep
<1>7. CASE Close
  BY <1>7 DEF Close, history, IInv, TypeOK, BoxTrue, SavedIsRegistered, SavedIsSpoken, FormSpoken
<1>8. CASE EntryDeleted
  BY <1>8 DEF EntryDeleted, IInv, TypeOK, BoxTrue, SavedIsRegistered, SavedIsSpoken, FormSpoken
<1>9. CASE EditFile
  BY <1>9 DEF EditFile, IInv, TypeOK, BoxTrue, SavedIsRegistered, SavedIsSpoken, FormSpoken
<1>10. CASE UNCHANGED vars
  BY <1>10 DEF vars, history, IInv, TypeOK, BoxTrue, SavedIsRegistered, SavedIsSpoken, FormSpoken
<1> QED
  BY <1>1, <1>2, <1>3, <1>4, <1>5, <1>6, <1>7, <1>8, <1>9, <1>10 DEF Next

\* The invariant behind the four properties holds at every moment.
THEOREM Invariance == Spec => []IInv
<1>1. Init => IInv
  BY InitIInv
<1>2. IInv /\ [Next]_vars => IInv'
  BY InductiveStep
<1> QED
  BY <1>1, <1>2, PTL DEF Spec

\* Types of the settings wherever they are kept.
THEOREM TypeCorrect == Spec => []TypeOK
<1>1. IInv => TypeOK
  BY DEF IInv
<1> QED
  BY <1>1, Invariance, PTL

\* The autostart box shows what the operating system has registered, unless it
\* refused, hid or lost the entry since the form was filled.
THEOREM BoxShowsRegistration == Spec => []BoxTrue
<1>1. IInv => BoxTrue
  BY DEF IInv
<1> QED
  BY <1>1, Invariance, PTL

\* What the file says is registered from every save of a true box and every start
\* that loads and is not refused, until a toggle, an edit or a loss.
THEOREM SavedStays == Spec => []SavedIsRegistered
<1>1. IInv => SavedIsRegistered
  BY DEF IInv
<1> QED
  BY <1>1, Invariance, PTL

\* The language of the file is the one spoken from every save and every start that
\* loads, until another is picked.
THEOREM SavedSpeaks == Spec => []SavedIsSpoken
<1>1. IInv => SavedIsSpoken
  BY DEF IInv
<1> QED
  BY <1>1, Invariance, PTL
=============================================================================
