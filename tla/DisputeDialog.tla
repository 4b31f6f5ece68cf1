--------------------------- MODULE DisputeDialog ---------------------------
(***************************************************************************)
(* The dialog of one dispute on the dashboard: its evidence is fetched when *)
(* it opens, evidence is uploaded, and a button moves the dispute on.  A    *)
(* handler goes on with the dispute that was selected when it began.  The   *)
(* list behind it is read at once here; ListPages has its fetches.          *)
(***************************************************************************)
EXTENDS Integers

CONSTANTS
  Disputes,          \* bound: disputes
  EvidenceFetches,   \* bound: evidence fetches under way at once
  Uploads,           \* bound: uploads under way at once
  Updates,           \* bound: updates under way at once
  MaxDialogInputs    \* bound: what the user does

VARIABLES
  stored,       \* each dispute on the server: its status and files
  rows,         \* the rows of the list
  rowsOld,      \* fetchDisputes is under way
  selected,     \* selectedDispute
  files,        \* selectedDisputeEvidence: whose, and how many
  evidenceGets, uploads, updates,
  uploadOpen,   \* isEvidenceDialogOpen
  dialogInputs,
  overlaps      \* for the properties: what the user did while something was under way

dialogVars == <<stored, rows, rowsOld, selected, files, evidenceGets, uploads, updates,
                uploadOpen, dialogInputs, overlaps>>

None == [of |-> "none"]
Steps ==
  {<<"OPEN", "UNDER_REVIEW">>, <<"UNDER_REVIEW", "EVIDENCE_REQUIRED">>, <<"UNDER_REVIEW", "RESPONDING">>,
   <<"RESPONDING", "WON">>, <<"RESPONDING", "LOST">>, <<"WON", "CLOSED">>, <<"LOST", "CLOSED">>}
Statuses == {s[1] : s \in Steps} \cup {s[2] : s \in Steps}

Init ==
  /\ stored \in [Disputes -> {[status |-> s, count |-> 0] : s \in {"OPEN", "RESPONDING"}}]
  /\ rows = stored
  /\ rowsOld = FALSE
  /\ selected = None
  /\ files = [of |-> "none", count |-> 0]
  /\ evidenceGets = [e \in EvidenceFetches |-> None]
  /\ uploads = [u \in Uploads |-> None]
  /\ updates = [w \in Updates |-> None]
  /\ uploadOpen = FALSE
  /\ dialogInputs = 0
  /\ overlaps = {}

Sending == (\E u \in Uploads : uploads[u] # None) \/ (\E w \in Updates : updates[w] # None)
Getting == \E e \in EvidenceFetches : evidenceGets[e] # None
Busy == IF Sending THEN {"busy"} ELSE {}
Input == dialogInputs < MaxDialogInputs /\ dialogInputs' = dialogInputs + 1

(* fetchDisputeEvidence(d). *)
GetEvidence(d) ==
  \E e \in EvidenceFetches :
    /\ evidenceGets[e] = None
    /\ evidenceGets' = [evidenceGets EXCEPT ![e] = [of |-> d, pc |-> "sent", count |-> 0]]
Racing == IF Getting THEN {"two fetches"} ELSE {}

-----------------------------------------------------------------------------
Row(d) == [of |-> d, status |-> rows[d].status, count |-> rows[d].count]

View(d) ==
  /\ Input
  /\ selected = None
  /\ selected' = Row(d)
  /\ GetEvidence(d)
  /\ overlaps' = overlaps \cup Racing \cup Busy \cup
                   IF rows[d].status # stored[d].status THEN {"old row"} ELSE {}
  /\ UNCHANGED <<stored, rows, rowsOld, files, uploads, updates, uploadOpen>>

(* Closing the dialog unmounts the one for uploads, and keeps its flag.     *)
CloseDialog ==
  /\ Input
  /\ selected # None
  /\ selected' = None
  /\ UNCHANGED <<stored, rows, rowsOld, files, evidenceGets, uploads, updates, uploadOpen, overlaps>>

ToggleUpload ==
  /\ Input
  /\ selected # None
  /\ uploadOpen' = ~uploadOpen
  /\ UNCHANGED <<stored, rows, rowsOld, selected, files, evidenceGets, uploads, updates, overlaps>>

AnswerEvidence(e) ==
  /\ evidenceGets[e] # None /\ evidenceGets[e].pc = "sent"
  /\ evidenceGets' = [evidenceGets EXCEPT ![e].pc = "answered", ![e].count = stored[evidenceGets[e].of].count]
  /\ UNCHANGED <<stored, rows, rowsOld, selected, files, uploads, updates, uploadOpen, dialogInputs, overlaps>>

EvidenceArrives(e) ==
  /\ evidenceGets[e] # None /\ evidenceGets[e].pc = "answered"
  /\ files' = [of |-> evidenceGets[e].of, count |-> evidenceGets[e].count]
  /\ evidenceGets' = [evidenceGets EXCEPT ![e] = None]
  /\ UNCHANGED <<stored, rows, rowsOld, selected, uploads, updates, uploadOpen, dialogInputs, overlaps>>

EvidenceFails(e) ==
  /\ evidenceGets[e] # None
  /\ evidenceGets' = [evidenceGets EXCEPT ![e] = None]
  /\ overlaps' = overlaps \cup {"failed"}
  /\ UNCHANGED <<stored, rows, rowsOld, selected, files, uploads, updates, uploadOpen, dialogInputs>>

-----------------------------------------------------------------------------
Upload(u) ==
  /\ Input
  /\ selected # None /\ uploadOpen
  /\ uploads[u] = None
  /\ uploads' = [uploads EXCEPT ![u] = [of |-> selected.of, was |-> selected, pc |-> "sent"]]
  /\ overlaps' = overlaps \cup Busy
  /\ UNCHANGED <<stored, rows, rowsOld, selected, files, evidenceGets, updates, uploadOpen>>

StoreEvidence(u) ==
  /\ uploads[u] # None /\ uploads[u].pc = "sent"
  /\ uploads' = [uploads EXCEPT ![u].pc = "ok"]
  /\ stored' = [stored EXCEPT ![uploads[u].of].count = @ + 1]
  /\ UNCHANGED <<rows, rowsOld, selected, files, evidenceGets, updates, uploadOpen, dialogInputs, overlaps>>

(* Slip: only the evidence is fetched; the count stays. *)
UploadDone_Unselected(u) ==
  /\ uploads[u] # None /\ uploads[u].pc = "ok"
  /\ uploadOpen' = FALSE
  /\ GetEvidence(uploads[u].of)
  /\ uploads' = [uploads EXCEPT ![u] = None]
  /\ overlaps' = overlaps \cup Racing
  /\ UNCHANGED <<stored, rows, rowsOld, selected, files, updates, dialogInputs>>

(* Slip: the count is raised before the server answers. *)
UploadDone_Early(u) ==
  /\ uploads[u] # None
  /\ uploadOpen' = FALSE
  /\ GetEvidence(uploads[u].of)
  /\ selected' = [uploads[u].was EXCEPT !.count = @ + 1]
  /\ uploads' = [uploads EXCEPT ![u] = None]
  /\ overlaps' = overlaps \cup Racing
  /\ UNCHANGED <<stored, rows, rowsOld, files, updates, dialogInputs>>

(* The dispute that was selected when the upload began is selected again,   *)
(* as it was then: a dialog closed or moved on in the meantime reopens.     *)
UploadDone(u) ==
  /\ uploads[u] # None /\ uploads[u].pc = "ok"
  /\ uploadOpen' = FALSE
  /\ GetEvidence(uploads[u].of)
  /\ selected' = [uploads[u].was EXCEPT !.count = @ + 1]
  /\ uploads' = [uploads EXCEPT ![u] = None]
  /\ overlaps' = overlaps \cup Racing
  /\ UNCHANGED <<stored, rows, rowsOld, files, updates, dialogInputs>>

(* Refused, or the answer is lost: nothing is shown to have happened.       *)
UploadFails(u) ==
  /\ uploads[u] # None
  /\ uploads' = [uploads EXCEPT ![u] = None]
  /\ overlaps' = overlaps \cup {"failed"}
  /\ UNCHANGED <<stored, rows, rowsOld, selected, files, evidenceGets, updates, uploadOpen, dialogInputs>>

-----------------------------------------------------------------------------
(* From the dialog, by the status it shows, or with the list's button.      *)
ClickUpdate(w) ==
  /\ Input
  /\ updates[w] = None
  /\ \E d \in Disputes, status \in Statuses :
       /\ \/ /\ selected # None /\ selected.of = d
             /\ <<selected.status, status>> \in Steps
          \/ /\ selected = None
             /\ rows[d].status = "OPEN" /\ status = "UNDER_REVIEW"
       /\ updates' = [updates EXCEPT ![w] = [of |-> d, status |-> status, closes |-> selected # None, pc |-> "sent"]]
       /\ overlaps' = overlaps \cup Busy \cup
                        IF selected = None /\ stored[d].status # "OPEN" THEN {"old row"} ELSE {}
  /\ UNCHANGED <<stored, rows, rowsOld, selected, files, evidenceGets, uploads, uploadOpen>>

(* Any status is accepted from any other. *)
UpdateDispute(w) ==
  /\ updates[w] # None /\ updates[w].pc = "sent"
  /\ updates' = [updates EXCEPT ![w].pc = "ok"]
  /\ stored' = [stored EXCEPT ![updates[w].of].status = updates[w].status]
  /\ UNCHANGED <<rows, rowsOld, selected, files, evidenceGets, uploads, uploadOpen, dialogInputs, overlaps>>

(* Slip: the dialog stays open with the old status. *)
UpdateDone_StayOpen(w) ==
  /\ updates[w] # None /\ updates[w].pc = "ok"
  /\ rowsOld' = TRUE
  /\ updates' = [updates EXCEPT ![w] = None]
  /\ UNCHANGED <<stored, rows, selected, files, evidenceGets, uploads, uploadOpen, dialogInputs, overlaps>>

UpdateDone(w) ==
  /\ updates[w] # None /\ updates[w].pc = "ok"
  /\ rowsOld' = TRUE
  /\ selected' = IF updates[w].closes THEN None ELSE selected
  /\ updates' = [updates EXCEPT ![w] = None]
  /\ UNCHANGED <<stored, rows, files, evidenceGets, uploads, uploadOpen, dialogInputs, overlaps>>

UpdateFails(w) ==
  /\ updates[w] # None
  /\ updates' = [updates EXCEPT ![w] = None]
  /\ overlaps' = overlaps \cup {"failed"}
  /\ UNCHANGED <<stored, rows, rowsOld, selected, files, evidenceGets, uploads, uploadOpen, dialogInputs>>

(* fetchDisputes. *)
RowsArrive ==
  /\ rowsOld
  /\ rowsOld' = FALSE
  /\ rows' = stored
  /\ UNCHANGED <<stored, selected, files, evidenceGets, uploads, updates, uploadOpen, dialogInputs, overlaps>>

Next ==
  \/ \E d \in Disputes : View(d)
  \/ CloseDialog \/ ToggleUpload \/ RowsArrive
  \/ \E e \in EvidenceFetches : AnswerEvidence(e) \/ EvidenceArrives(e) \/ EvidenceFails(e)
  \/ \E u \in Uploads : Upload(u) \/ StoreEvidence(u) \/ UploadDone(u) \/ UploadFails(u)
  \/ \E w \in Updates : ClickUpdate(w) \/ UpdateDispute(w) \/ UpdateDone(w) \/ UpdateFails(w)

-----------------------------------------------------------------------------
(* The statuses are known and the selected dispute is one of the list's. *)
TypeOK ==
  /\ \A d \in Disputes : stored[d].status \in Statuses /\ rows[d].status \in Statuses
  /\ selected.of \in Disputes \cup {"none"} /\ files.of \in Disputes \cup {"none"}
  /\ uploadOpen \in BOOLEAN /\ rowsOld \in BOOLEAN

(* The evidence under an open dialog is its dispute's, once it has arrived, *)
(* also when an upload opened the dialog: unless two evidence fetches raced *)
(* or one failed.                                                           *)
EvidenceIsSelecteds ==
  selected # None /\ ~Getting /\ overlaps \cap {"two fetches", "failed"} = {} =>
    files.of = selected.of

(* The dialog never counts more files than the dispute has, however its     *)
(* uploads overlap and fail.                                                *)
CountIsStored == selected # None => selected.count <= stored[selected.of].count

(* A dispute moves along the buttons' steps, unless the user went on while  *)
(* an upload or an update was under way, acted on a row that was old, or an *)
(* answer was lost.                                                         *)
DisputesMoveAlongSteps ==
  [][overlaps' = {} => \A d \in Disputes :
       stored'[d].status # stored[d].status => <<stored[d].status, stored'[d].status>> \in Steps]_dialogVars
=============================================================================
