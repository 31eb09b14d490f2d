------------------------------- MODULE Plugin -------------------------------
(***************************************************************************)
(* The setting "Enable Plugin" (m_bBracketsAutoComplete), switched off     *)
(* while a macro is recorded or played, the menu that shows it, the flag   *)
(* that the current file is of a supported type, and the ini file that     *)
(* keeps setting and project from one start of Notepad++ to the next:      *)
(* src/src/NppPIALexer.cpp, NppPIALexerOptions.cpp, NppPIALexerMenu.cpp.   *)
(*                                                                         *)
(* The other check boxes and the list of HTML extensions stay as they are. *)
(***************************************************************************)
EXTENDS Integers

CONSTANTS Files, Supported,    \* file names, and those IsSupportedFile accepts
          Projects, NoProject,
          Nested               \* a saved macro may be run while one is recorded

ASSUME NestedAssumption == Nested \in BOOLEAN
ASSUME FilesAssumption == Supported \subseteq Files
ASSUME ProjectsAssumption == NoProject \notin Projects

VARIABLES running, file,       \* Notepad++ is up; the file in front
          recording, playing,  \* what Notepad++ does with macros
          auto, project,       \* g_opt: m_bBracketsAutoComplete, m_LastProject
          flags0, saveRule,    \* g_opt: m_uFlags0, m_bSaveFileExtsRule
          inMacro, prev,       \* isNppMacroStarted, nPrevAutoComplete
          supported,           \* m_bSupportedFileType
          checked, allowed,    \* the menu item's check mark, not greyed
          ini

options == <<auto, project, flags0, saveRule>>
menu == <<checked, allowed>>
npp == <<running, file, recording, playing>>
vars == <<npp, options, inMacro, prev, supported, menu, ini>>

Keys == {"Flags", "FileExtsRule", "Project"}

NoFlags == "absent"
Flags(a) == IF a THEN "on" ELSE "off"

-----------------------------------------------------------------------------
Init ==
  /\ running = FALSE
  /\ file \in Files
  /\ recording = FALSE /\ playing = FALSE
  /\ auto = FALSE /\ project = NoProject
  /\ flags0 = NoFlags /\ saveRule = FALSE
  /\ inMacro = FALSE /\ prev = -1
  /\ supported = TRUE
  /\ checked = FALSE /\ allowed = TRUE
  /\ ini = [flags |-> NoFlags, rule |-> FALSE, project |-> NoProject]

(* on is the value the setting has by then.                                *)
UpdateFileType(on, f) ==
  supported' = IF on THEN f \in Supported ELSE supported

(* Variant: only a rule that is missing in the file makes it be written.   *)
MustBeSavedRule(a) == saveRule

MustBeSaved(a) == saveRule \/ flags0 # Flags(a)

(* Variant: a key that was not written counts as written.                  *)
SaveOptionsBlind(a, p, written) ==
  IF MustBeSaved(a)
  THEN /\ ini' = [flags |-> IF "Flags" \in written THEN Flags(a) ELSE ini.flags,
                  rule |-> ini.rule \/ (saveRule /\ "FileExtsRule" \in written),
                  project |-> IF "Project" \in written THEN p ELSE ini.project]
       /\ flags0' = Flags(a)
       /\ saveRule' = FALSE
  ELSE UNCHANGED <<ini, flags0, saveRule>>

(* written are the keys for which WritePrivateProfileString succeeds.      *)
SaveOptions(a, p, written) ==
  IF MustBeSaved(a)
  THEN /\ ini' = [flags |-> IF "Flags" \in written THEN Flags(a) ELSE ini.flags,
                  rule |-> ini.rule \/ (saveRule /\ "FileExtsRule" \in written),
                  project |-> IF "Project" \in written THEN p ELSE ini.project]
       /\ flags0' = IF "Flags" \in written THEN Flags(a) ELSE flags0
       /\ saveRule' = (saveRule /\ "FileExtsRule" \notin written)
  ELSE UNCHANGED <<ini, flags0, saveRule>>

(* ReadOptions, UpdateMenuState, UpdateFileType on a process just started. *)
OnNppReady ==
  /\ ~running
  /\ running' = TRUE
  /\ file' \in Files
  /\ flags0' = ini.flags
  /\ auto' = (ini.flags = "on")
  /\ saveRule' = ~ini.rule
  /\ project' = ini.project
  /\ checked' = auto'
  /\ allowed' = TRUE
  /\ inMacro' = FALSE /\ prev' = -1
  /\ supported' = (auto' => file' \in Supported)
  /\ UNCHANGED <<recording, playing, ini>>

(* The process ends after this; so it does when it crashes, without saving.*)
OnNppShutdown(written) ==
  /\ running /\ ~playing
  /\ running' = FALSE
  /\ recording' = FALSE
  /\ SaveOptions(auto, project, written)
  /\ UNCHANGED <<file, playing, auto, project, inMacro, prev, supported, menu>>

Crash ==
  /\ running
  /\ running' = FALSE
  /\ recording' = FALSE /\ playing' = FALSE
  /\ UNCHANGED <<file, options, inMacro, prev, supported, menu, ini>>

(* Another file comes to the front, also while a macro is played.          *)
OnNppBufferActivated(f) ==
  /\ running
  /\ file' = f
  /\ UpdateFileType(auto, f)
  /\ UNCHANGED <<running, recording, playing, options, inMacro, prev, menu, ini>>

(* The file is saved, perhaps under another name.                          *)
OnNppFileSaved(f) ==
  /\ running
  /\ file' = f
  /\ UpdateFileType(auto, f)
  /\ UNCHANGED <<running, recording, playing, options, inMacro, prev, menu, ini>>

-----------------------------------------------------------------------------
(* Variant: what is restored is the setting at the time of the stop.       *)
OnNppMacroForgetful(started) ==
  /\ inMacro' = started
  /\ IF started
     THEN prev' = IF auto THEN 1 ELSE 0
     ELSE prev' = IF prev < 0 \/ ~auto THEN 0 ELSE 1
  /\ auto' = (~started /\ prev' > 0)
  /\ IF started THEN UNCHANGED supported ELSE UpdateFileType(auto', file)
  /\ allowed' = ~started
  /\ UNCHANGED <<running, file, project, flags0, saveRule, checked, ini>>

(* Variant: the end of a macro does not look the file type up again.       *)
OnNppMacroKeepingType(started) ==
  /\ inMacro' = started
  /\ IF started
     THEN prev' = IF auto THEN 1 ELSE 0
     ELSE prev' = IF prev >= 0 THEN prev ELSE IF auto THEN 1 ELSE 0
  /\ auto' = (~started /\ prev' > 0)
  /\ allowed' = ~started
  /\ UNCHANGED <<running, file, project, flags0, saveRule, supported, checked, ini>>

(* started is the value isNppMacroStarted gets.                            *)
OnNppMacro(started) ==
  /\ inMacro' = started
  /\ IF started
     THEN prev' = IF auto THEN 1 ELSE 0
     ELSE prev' = IF prev >= 0 THEN prev ELSE IF auto THEN 1 ELSE 0
  /\ auto' = (~started /\ prev' > 0)
  /\ IF started THEN UNCHANGED supported ELSE UpdateFileType(auto', file)
  /\ allowed' = ~started
  /\ UNCHANGED <<running, file, project, flags0, saveRule, checked, ini>>

(* The commands to start and to stop a recording, and the one that toggles *)
(* it: OnNppMacro(MACRO_TOGGLE) inverts its own flag.                      *)
StartRecording ==
  /\ running /\ ~recording /\ ~playing
  /\ recording' = TRUE
  /\ UNCHANGED playing
  /\ OnNppMacro(TRUE)

(* Variant: the plugin takes a toggle for a start.                         *)
ToggleRecordingStarts ==
  /\ running /\ ~playing
  /\ recording' = ~recording
  /\ UNCHANGED playing
  /\ OnNppMacro(TRUE)

StopRecording ==
  /\ running /\ recording /\ ~playing
  /\ recording' = FALSE
  /\ UNCHANGED playing
  /\ OnNppMacro(FALSE)

ToggleRecording ==
  /\ running /\ ~playing
  /\ recording' = ~recording
  /\ UNCHANGED playing
  /\ OnNppMacro(~inMacro)

(* nppNewWndProc: a macro is played between START and STOP.                *)
StartPlaying ==
  /\ running /\ ~playing /\ (recording => Nested)
  /\ playing' = TRUE
  /\ UNCHANGED recording
  /\ OnNppMacro(TRUE)

StopPlaying ==
  /\ running /\ playing
  /\ playing' = FALSE
  /\ UNCHANGED recording
  /\ OnNppMacro(FALSE)

-----------------------------------------------------------------------------
(* Variant: only the check mark is set.                                    *)
UpdateMenuStateMarkOnly(on) == checked' = on /\ UNCHANGED supported

(* OnNppBufferActivated(-1) at the end looks the file type up again.       *)
UpdateMenuState(on) ==
  /\ checked' = on
  /\ IF on THEN UpdateFileType(on, file) ELSE UNCHANGED supported

funcAutocomplete ==
  /\ running /\ allowed /\ ~playing
  /\ auto' = ~auto
  /\ UpdateMenuState(~auto)
  /\ UNCHANGED <<npp, project, flags0, saveRule, inMacro, prev, allowed, ini>>

(* The dialog is left with OK and the box set to on.                       *)
funcSettings(on, written) ==
  /\ running /\ allowed /\ ~playing
  /\ auto' = on
  /\ UpdateMenuState(on)
  /\ SaveOptions(on, project, written)
  /\ UNCHANGED <<npp, project, inMacro, prev, allowed>>

(* The control panel, which is never greyed, loads a project.              *)
ReloadData(p, written) ==
  /\ running /\ ~playing
  /\ project' = p
  /\ SaveOptions(auto, p, written)
  /\ UNCHANGED <<npp, auto, inMacro, prev, supported, menu>>

Next ==
  \/ OnNppReady
  \/ Crash
  \/ \E f \in Files : OnNppBufferActivated(f) \/ OnNppFileSaved(f)
  \/ StartRecording \/ StopRecording \/ ToggleRecording
  \/ StartPlaying \/ StopPlaying
  \/ funcAutocomplete
  \/ \E written \in SUBSET Keys :
       \/ OnNppShutdown(written)
       \/ \E on \in BOOLEAN : funcSettings(on, written)
       \/ \E p \in Projects : ReloadData(p, written)

Spec == Init /\ [][Next]_vars
-----------------------------------------------------------------------------
(* nPrevAutoComplete has a value once a macro has been started, and the    *)
(* plugin's own flag for macros follows what Notepad++ does, unless one    *)
(* macro ends inside another.                                              *)
TypeOK ==
  /\ running \in BOOLEAN /\ recording \in BOOLEAN /\ playing \in BOOLEAN
  /\ file \in Files
  /\ auto \in BOOLEAN /\ project \in Projects \cup {NoProject}
  /\ flags0 \in {NoFlags, "on", "off"} /\ saveRule \in BOOLEAN
  /\ inMacro \in BOOLEAN /\ prev \in -1 .. 1
  /\ supported \in BOOLEAN /\ checked \in BOOLEAN /\ allowed \in BOOLEAN
  /\ ini \in [flags : {NoFlags, "on", "off"}, rule : BOOLEAN,
              project : Projects \cup {NoProject}]
  /\ running /\ inMacro => prev >= 0
  /\ running /\ ~Nested => (inMacro <=> recording \/ playing)

(* The setting the user has chosen, which a macro only suspends.           *)
Setting == IF inMacro THEN prev = 1 ELSE auto

(* The check mark in the menu shows the setting that is in effect or that  *)
(* the end of the macro will bring back.                                   *)
CheckMarkTrue == running => (checked <=> Setting) /\ (allowed <=> ~inMacro)

(* While the plugin is on it knows whether it supports the file in front,  *)
(* though the type is not looked up while it is off or a macro runs.       *)
SupportedCurrent == running /\ auto => (supported <=> file \in Supported)

(* OnSciCharAdded goes on and does not return at once.                     *)
Listens == auto /\ supported

(* The plugin reacts to what is typed exactly where it is meant to: in a   *)
(* file of a supported type, with the item in the menu checked, and while  *)
(* no macro is recorded or played, whatever happened in between, as long   *)
(* as no macro is run inside another.                                      *)
ListensWhenMeant ==
  running /\ ~Nested =>
    (Listens <=> checked /\ file \in Supported /\ ~(recording \/ playing))

(* What the plugin takes for saved is in the ini file, whichever writes    *)
(* failed, so that MustBeSaved misses no change of the setting.            *)
SavedMeansStored ==
  running => flags0 = ini.flags /\ (ini.rule <=> ~saveRule)

(* A setting survives: the next start has the setting and the check mark   *)
(* of the last regular end, if that could write and no macro ran.          *)
SettingStored ==
  [][\A written \in SUBSET Keys :
        OnNppShutdown(written) /\ "Flags" \in written /\ ~inMacro =>
          ini'.flags = Flags(checked)]_vars
=============================================================================
