---------------------------- MODULE PluginProofs ----------------------------
(***************************************************************************)
(* The invariants of Plugin hold for all sets of files and projects.       *)
(***************************************************************************)
EXTENDS Plugin, TLAPS

(* A process does not start in the middle of a macro.                      *)
OneMacro == (recording /\ playing => Nested) /\ (recording \/ playing => running)

(* A macro switches the plugin off.                                        *)
Suspended == running /\ inMacro => ~auto

(* The invariants need each other: the check mark is right at the end of a *)
(* macro because the flag for macros is, the options are saved when they   *)
(* must be because the plugin knows what is stored.                        *)
IInv ==
  /\ TypeOK /\ OneMacro /\ SupportedCurrent /\ SavedMeansStored
  /\ ~Nested => CheckMarkTrue /\ Suspended

USE NestedAssumption

LEMMA InitIInv == Init => IInv
<1> SUFFICES ASSUME Init PROVE IInv
  OBVIOUS
<1>1. TypeOK
  <2>1. prev \in -1 .. 1
    BY DEF Init
  <2>2. /\ running \in BOOLEAN /\ recording \in BOOLEAN /\ playing \in BOOLEAN
        /\ auto \in BOOLEAN /\ saveRule \in BOOLEAN /\ inMacro \in BOOLEAN
        /\ supported \in BOOLEAN /\ checked \in BOOLEAN /\ allowed \in BOOLEAN
    BY Zenon DEF Init
  <2>3. /\ file \in Files /\ project \in Projects \cup {NoProject}
        /\ flags0 \in {NoFlags, "on", "off"}
    BY Zenon DEF Init
  <2>4. ini \in [flags : {NoFlags, "on", "off"}, rule : BOOLEAN,
                 project : Projects \cup {NoProject}]
    <3>1. FALSE \in BOOLEAN
      OBVIOUS
    <3> QED
      BY <3>1 DEF Init
  <2>5. ~running
    BY Zenon DEF Init
  <2> QED
    BY <2>1, <2>2, <2>3, <2>4, <2>5, Zenon DEF TypeOK
<1>2. OneMacro /\ CheckMarkTrue /\ Suspended /\ SupportedCurrent /\ SavedMeansStored
  BY DEF Init, OneMacro, CheckMarkTrue, Suspended, SupportedCurrent, SavedMeansStored
<1> QED
  BY <1>1, <1>2 DEF IInv

(* Saving keeps the options and the file in step, whatever is written.     *)
LEMMA SaveKeeps ==
  ASSUME NEW a \in BOOLEAN, NEW p \in Projects \cup {NoProject},
         NEW written \in SUBSET Keys, IInv, running, SaveOptions(a, p, written)
  PROVE  /\ saveRule' \in BOOLEAN
         /\ flags0' \in {NoFlags, "on", "off"}
         /\ ini' \in [flags : {NoFlags, "on", "off"}, rule : BOOLEAN,
                      project : Projects \cup {NoProject}]
         /\ flags0' = ini'.flags /\ (ini'.rule <=> ~saveRule')
         /\ "Flags" \in written => ini'.flags = Flags(a)
BY DEF IInv, TypeOK, SavedMeansStored, SaveOptions, MustBeSaved, Flags

(* The start or the end of a macro, whatever Notepad++ does then.          *)
LEMMA MacroKeeps ==
  ASSUME NEW started \in BOOLEAN, IInv, running, OnNppMacro(started),
         recording' \in BOOLEAN, playing' \in BOOLEAN, OneMacro',
         ~Nested => started # inMacro,
         ~Nested => (started <=> recording' \/ playing')
  PROVE  IInv'
<1>1. /\ auto \in BOOLEAN /\ inMacro \in BOOLEAN /\ prev \in -1 .. 1
      /\ supported \in BOOLEAN /\ (inMacro => prev >= 0)
  BY DEF IInv, TypeOK
<1>2. prev' \in 0 .. 1
  BY <1>1 DEF OnNppMacro
<1>3. inMacro' = started /\ allowed' = ~started
  BY DEF OnNppMacro
<1>4. auto' \in BOOLEAN /\ (auto' => ~started)
  BY DEF OnNppMacro
<1>5. supported' \in BOOLEAN /\ (auto' => (supported' <=> file \in Supported))
  BY <1>1, <1>4 DEF OnNppMacro, UpdateFileType
<1>6. ASSUME ~Nested PROVE checked' <=> Setting'
  <2>1. checked' = checked /\ (checked <=> Setting)
    BY <1>6 DEF IInv, CheckMarkTrue, OnNppMacro
  <2>2. CASE started
    <3>1. ~inMacro /\ (checked <=> auto)
      BY <1>6, <1>1, <2>1, <2>2 DEF Setting
    <3>2. prev' = 1 <=> auto
      BY <1>1, <2>2 DEF OnNppMacro
    <3> QED
      BY <1>3, <2>1, <2>2, <3>1, <3>2, Zenon DEF Setting
  <2>3. CASE ~started
    <3>1. inMacro /\ (checked <=> prev = 1)
      BY <1>6, <1>1, <2>1, <2>3 DEF Setting
    <3>2. auto' <=> prev = 1
      <4>1. prev' = prev /\ (auto' <=> prev' > 0)
        BY <1>1, <2>3, <3>1 DEF OnNppMacro
      <4>2. prev \in 0 .. 1
        BY <1>1, <3>1
      <4> QED
        BY <4>1, <4>2
    <3> QED
      BY <1>3, <2>1, <2>3, <3>1, <3>2, Zenon DEF Setting
  <2> QED
    BY <2>2, <2>3
<1>7. UNCHANGED <<running, file, project, flags0, saveRule, checked, ini>>
  BY DEF OnNppMacro
<1>8. prev' \in -1 .. 1 /\ prev' >= 0
  BY <1>2
<1>9. TypeOK'
  <2>1. allowed' \in BOOLEAN /\ inMacro' \in BOOLEAN
    BY <1>3
  <2>2. running' \in BOOLEAN /\ file' \in Files /\ project' \in Projects \cup {NoProject}
        /\ flags0' \in {NoFlags, "on", "off"} /\ saveRule' \in BOOLEAN /\ checked' \in BOOLEAN
        /\ ini' \in [flags : {NoFlags, "on", "off"}, rule : BOOLEAN,
                     project : Projects \cup {NoProject}]
    BY <1>7 DEF IInv, TypeOK
  <2>3. running' /\ ~Nested => (inMacro' <=> recording' \/ playing')
    BY <1>3
  <2> QED
    BY <1>4, <1>5, <1>8, <2>1, <2>2, <2>3, Zenon DEF TypeOK
<1>10. ~Nested => CheckMarkTrue' /\ Suspended'
  BY <1>3, <1>4, <1>6 DEF CheckMarkTrue, Suspended
<1>11. SupportedCurrent' /\ SavedMeansStored'
  BY <1>5, <1>7 DEF IInv, SupportedCurrent, SavedMeansStored
<1> QED
  BY <1>9, <1>10, <1>11, Zenon DEF IInv

LEMMA NextIInv == IInv /\ [Next]_vars => IInv'
<1> SUFFICES ASSUME IInv, [Next]_vars PROVE IInv'
  OBVIOUS
<1> USE DEF IInv, TypeOK, OneMacro, CheckMarkTrue, Suspended, SupportedCurrent, SavedMeansStored, Setting
<1>1. CASE OnNppReady
  <2>1. OneMacro' /\ ~recording /\ ~playing
    BY <1>1 DEF OnNppReady
  <2>2. /\ flags0' \in {NoFlags, "on", "off"} /\ project' \in Projects \cup {NoProject}
        /\ auto' \in BOOLEAN /\ saveRule' \in BOOLEAN
        /\ supported' \in BOOLEAN /\ checked' \in BOOLEAN
    BY <1>1 DEF OnNppReady
  <2>3. prev' \in -1 .. 1
    BY <1>1 DEF OnNppReady
  <2>4. running' /\ ~inMacro' /\ allowed' /\ file' \in Files /\ UNCHANGED <<recording, playing, ini>>
    BY <1>1 DEF OnNppReady
  <2>5. running' \in BOOLEAN /\ inMacro' \in BOOLEAN /\ allowed' \in BOOLEAN
    BY <1>1, Zenon DEF OnNppReady
  <2>6. TypeOK'
    BY <2>1, <2>2, <2>3, <2>4, <2>5, Zenon
  <2>7. CheckMarkTrue' /\ Suspended' /\ SupportedCurrent' /\ SavedMeansStored'
    BY <1>1 DEF OnNppReady
  <2> QED
    BY <2>1, <2>6, <2>7
<1>2. CASE Crash
  BY <1>2 DEF Crash, options, menu
<1>3. ASSUME NEW f \in Files, OnNppBufferActivated(f) PROVE IInv'
  BY <1>3 DEF OnNppBufferActivated, UpdateFileType, options, menu
<1>4. ASSUME NEW f \in Files, OnNppFileSaved(f) PROVE IInv'
  BY <1>4 DEF OnNppFileSaved, UpdateFileType, options, menu
<1>5. CASE StartRecording
  BY <1>5, MacroKeeps DEF StartRecording, OnNppMacro
<1>6. CASE StopRecording
  BY <1>6, MacroKeeps DEF StopRecording, OnNppMacro
<1>7. CASE ToggleRecording
  BY <1>7, MacroKeeps DEF ToggleRecording, OnNppMacro
<1>8. CASE StartPlaying
  BY <1>8, MacroKeeps DEF StartPlaying, OnNppMacro
<1>9. CASE StopPlaying
  BY <1>9, MacroKeeps DEF StopPlaying, OnNppMacro
<1>10. CASE funcAutocomplete
  <2>1. TypeOK' /\ OneMacro'
    BY <1>10 DEF funcAutocomplete, UpdateMenuState, UpdateFileType, npp
  <2>2. (~Nested => CheckMarkTrue' /\ Suspended') /\ SupportedCurrent' /\ SavedMeansStored'
    BY <1>10 DEF funcAutocomplete, UpdateMenuState, UpdateFileType, npp
  <2> QED
    BY <2>1, <2>2
<1>11. ASSUME NEW written \in SUBSET Keys, OnNppShutdown(written) PROVE IInv'
  BY <1>11, SaveKeeps DEF OnNppShutdown, menu
<1>12. ASSUME NEW written \in SUBSET Keys, NEW on \in BOOLEAN, funcSettings(on, written)
       PROVE  IInv'
  BY <1>12, SaveKeeps DEF funcSettings, UpdateMenuState, UpdateFileType, npp
<1>13. ASSUME NEW written \in SUBSET Keys, NEW p \in Projects, ReloadData(p, written)
       PROVE  IInv'
  BY <1>13, SaveKeeps DEF ReloadData, npp, menu
<1>14. CASE UNCHANGED vars
  BY <1>14 DEF vars, npp, options, menu
<1> QED
  BY <1>1, <1>2, <1>3, <1>4, <1>5, <1>6, <1>7, <1>8, <1>9, <1>10, <1>11,
     <1>12, <1>13, <1>14 DEF Next

LEMMA AlwaysIInv == Spec => []IInv
BY InitIInv, NextIInv, PTL DEF Spec

(* The plugin's own flag for macros follows Notepad++, through starts,     *)
(* stops and toggles, playing and recording, and the setting to return to  *)
(* is known whenever one runs.                                             *)
THEOREM TypeCorrect == Spec => []TypeOK
<1>1. IInv => TypeOK
  BY DEF IInv
<1> QED
  BY <1>1, AlwaysIInv, PTL

(* The menu shows the user's setting, also while a macro suspends it, as   *)
(* long as no macro runs inside another.                                   *)
THEOREM CheckMarkAlwaysTrue ==
  ASSUME ~Nested PROVE Spec => []CheckMarkTrue
<1>1. IInv => CheckMarkTrue
  BY DEF IInv
<1> QED
  BY <1>1, AlwaysIInv, PTL

(* While the plugin is on, the file type it goes by is that of the file in *)
(* front.                                                                  *)
THEOREM SupportedAlwaysCurrent == Spec => []SupportedCurrent
<1>1. IInv => SupportedCurrent
  BY DEF IInv
<1> QED
  BY <1>1, AlwaysIInv, PTL

(* The plugin is deaf and not deaf where the user expects it: what the     *)
(* check mark says holds in files of a supported type and outside of       *)
(* macros, and nowhere else.                                               *)
THEOREM ListensAlwaysWhenMeant == Spec => []ListensWhenMeant
<1>1. IInv => ListensWhenMeant
  <2> SUFFICES ASSUME IInv, running, ~Nested
               PROVE  Listens <=> checked /\ file \in Supported /\ ~(recording \/ playing)
    BY DEF ListensWhenMeant
  <2>1. inMacro <=> recording \/ playing
    BY DEF IInv, TypeOK
  <2>2. CASE inMacro
    BY <2>1, <2>2 DEF IInv, Suspended, Listens
  <2>3. CASE ~inMacro
    BY <2>1, <2>3 DEF IInv, CheckMarkTrue, Setting, SupportedCurrent, Listens
  <2> QED
    BY <2>2, <2>3
<1> QED
  BY <1>1, AlwaysIInv, PTL

(* What the plugin takes for saved is in the ini file, whichever writes    *)
(* failed and wherever the process ended.                                  *)
THEOREM SavedAlwaysStored == Spec => []SavedMeansStored
<1>1. IInv => SavedMeansStored
  BY DEF IInv
<1> QED
  BY <1>1, AlwaysIInv, PTL

(* A regular end of Notepad++ outside of a macro stores the setting that   *)
(* the menu shows, if the file can be written; again without nested macros.*)
THEOREM SettingAlwaysStored ==
  ASSUME ~Nested PROVE Spec => SettingStored
<1>1. ASSUME IInv, NEW written \in SUBSET Keys, OnNppShutdown(written),
             "Flags" \in written, ~inMacro
      PROVE  ini'.flags = Flags(checked)
  <2>1. ini'.flags = Flags(auto)
    BY <1>1, SaveKeeps DEF OnNppShutdown, IInv, TypeOK
  <2> QED
    BY <2>1, <1>1 DEF OnNppShutdown, IInv, CheckMarkTrue, Setting, Flags
<1>2. IInv /\ [Next]_vars =>
        [\A written \in SUBSET Keys :
           OnNppShutdown(written) /\ "Flags" \in written /\ ~inMacro =>
             ini'.flags = Flags(checked)]_vars
  BY <1>1
<1> QED
  BY <1>2, AlwaysIInv, PTL DEF Spec, SettingStored
=============================================================================
