---------------------------- MODULE SettingsPage ----------------------------
(***************************************************************************)
(* The dashboard's page of settings: loaded once, edited in place, and sent *)
(* back whole.  The service behind it is not in the repository.             *)
(***************************************************************************)
EXTENDS Integers

CONSTANTS
  Fields,        \* the fields of MerchantSettings
  MaxEdits,      \* bound: edits and saves
  MaxTimers      \* bound: timers of the success note

VARIABLES
  kept,          \* the service's settings
  typed,         \* settings
  settingsPc,    \* loading, or saving with the settings that were sent
  sent,
  saveSuccess,
  noteTimers,    \* timers that take saveSuccess back
  edits,
  edited,        \* for the properties: fields edited since the page loaded, and since the save
  editedSince,
  loadFailed

settingsVars == <<kept, typed, settingsPc, sent, saveSuccess, noteTimers, edits, edited,
                  editedSince, loadFailed>>

Values == {"kept", "new", "default"}
Defaults == [f \in Fields |-> "default"]

Init ==
  /\ kept = [f \in Fields |-> "kept"]
  /\ typed = Defaults
  /\ settingsPc = "loading"
  /\ sent = Defaults
  /\ saveSuccess = FALSE
  /\ noteTimers = 0
  /\ edits = 0
  /\ edited = {} /\ editedSince = {}
  /\ loadFailed = FALSE

(* Slip: a field the answer lacks is shown with its default. *)
FetchSettings_Merge ==
  /\ settingsPc = "loading"
  /\ settingsPc' = "idle"
  /\ \/ \E f \in Fields : typed' = [kept EXCEPT ![f] = "default"]
     \/ typed' = typed
  /\ loadFailed' = FALSE
  /\ UNCHANGED <<kept, sent, saveSuccess, noteTimers, edits, edited, editedSince>>

(* When it fails the form is shown all the same, with the defaults in it.   *)
FetchSettings ==
  /\ settingsPc = "loading"
  /\ settingsPc' = "idle"
  /\ \/ typed' = kept /\ UNCHANGED loadFailed
     \/ loadFailed' = TRUE /\ UNCHANGED typed
  /\ UNCHANGED <<kept, sent, saveSuccess, noteTimers, edits, edited, editedSince>>

(* The inputs stay enabled while the settings are saved. *)
HandleInputChange(f, v) ==
  /\ settingsPc # "loading" /\ edits < MaxEdits
  /\ typed' = [typed EXCEPT ![f] = v]
  /\ edits' = edits + 1
  /\ edited' = edited \cup {f} /\ editedSince' = editedSince \cup {f}
  /\ UNCHANGED <<kept, settingsPc, sent, saveSuccess, noteTimers, loadFailed>>

(* Slip: the note of the last save is left. *)
HandleSave_KeepNote ==
  /\ settingsPc = "idle" /\ edits < MaxEdits
  /\ edits' = edits + 1
  /\ settingsPc' = "sent" /\ sent' = typed
  /\ editedSince' = {}
  /\ UNCHANGED <<kept, typed, saveSuccess, noteTimers, edited, loadFailed>>

(* The button is disabled while saving; the note of the last save goes.     *)
HandleSave ==
  /\ settingsPc = "idle" /\ edits < MaxEdits
  /\ edits' = edits + 1
  /\ settingsPc' = "sent" /\ sent' = typed
  /\ saveSuccess' = FALSE
  /\ editedSince' = {}
  /\ UNCHANGED <<kept, typed, noteTimers, edited, loadFailed>>

(* External: the service keeps the settings as they are sent. *)
Keep ==
  /\ settingsPc = "sent"
  /\ settingsPc' = "kept" /\ kept' = sent
  /\ UNCHANGED <<typed, sent, saveSuccess, noteTimers, edits, edited, editedSince, loadFailed>>

Saved ==
  /\ settingsPc = "kept" /\ noteTimers < MaxTimers
  /\ settingsPc' = "idle"
  /\ saveSuccess' = TRUE /\ noteTimers' = noteTimers + 1
  /\ UNCHANGED <<kept, typed, sent, edits, edited, editedSince, loadFailed>>

(* Refused, or the answer is lost. *)
SaveFails ==
  /\ settingsPc \in {"sent", "kept"}
  /\ settingsPc' = "idle"
  /\ UNCHANGED <<kept, typed, sent, saveSuccess, noteTimers, edits, edited, editedSince, loadFailed>>

(* Timers are not cancelled: an older one takes a newer note back early.    *)
NoteTimer ==
  /\ noteTimers > 0
  /\ noteTimers' = noteTimers - 1
  /\ saveSuccess' = FALSE
  /\ UNCHANGED <<kept, typed, settingsPc, sent, edits, edited, editedSince, loadFailed>>

Next ==
  \/ FetchSettings \/ HandleSave \/ Keep \/ Saved \/ SaveFails \/ NoteTimer
  \/ \E f \in Fields : HandleInputChange(f, "new")

-----------------------------------------------------------------------------
(* The settings have values, and timers are counted. *)
TypeOK ==
  /\ \A f \in Fields : kept[f] \in Values /\ typed[f] \in Values /\ sent[f] \in Values
  /\ settingsPc \in {"loading", "idle", "sent", "kept"}
  /\ noteTimers \in 0..MaxTimers

(* While the note says that the settings are saved, the service has what    *)
(* the form shows, but for the fields edited after the save was clicked.    *)
NoteMeansSaved ==
  saveSuccess => \A f \in Fields \ editedSince : kept[f] = typed[f]

(* A save sends every field, and changes none that was not edited, unless   *)
(* the settings had failed to load: then it puts the page's defaults over   *)
(* all the others.                                                          *)
OnlyEditsAreSaved ==
  ~loadFailed => \A f \in Fields \ edited : kept[f] = "kept"
=============================================================================
