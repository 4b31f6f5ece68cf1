----------------------------- MODULE ListPages -----------------------------
(***************************************************************************)
(* The dashboard's pages of refunds, payment splits and disputes: a filter, *)
(* a list fetched for it, buttons by the status a row is shown with, and    *)
(* actions that fetch the list again once they are answered.  A handler     *)
(* keeps the filter of the moment it was made; answers arrive in any order, *)
(* and nothing drops an old one.                                            *)
(***************************************************************************)
EXTENDS Integers

CONSTANTS
  PageRows,       \* bound: rows on the server
  Fetches,        \* bound: fetches under way at once
  Clicks,         \* bound: actions under way at once
  MaxInputs       \* bound: what the user does, and changes made elsewhere

VARIABLES
  page,      \* the page that is open
  served,    \* status of the rows on the server
  ours,      \* the splits whose merchant's address is the user's id
  filter,    \* filters.status
  shown,     \* the list: the status rows are shown with, and the filter it is for
  fetches,   \* fetches under way
  clicks,    \* actions under way
  inputs,
  crossed    \* for the properties: what came while something else was under way

pageVars == <<page, served, ours, filter, shown, fetches, clicks, inputs, crossed>>

(* The buttons of a row, by the status it is shown with. *)
RefundButtons == {<<"process", "PENDING">>, <<"reverse", "COMPLETED">>}
SplitButtons ==
  {<<"execute", "PENDING">>, <<"retry", "FAILED">>, <<"cancel", "PENDING">>, <<"cancel", "FAILED">>}
DisputeButtons == {<<"review", "OPEN">>}

(* Slip: a failed refund is offered for reversal. *)
Buttons_Reverse ==
  [refunds |-> RefundButtons \cup {<<"reverse", "FAILED">>}, splits |-> SplitButtons,
   disputes |-> DisputeButtons]

Buttons == [refunds |-> RefundButtons, splits |-> SplitButtons, disputes |-> DisputeButtons]

SplitStatus ==
  {"PENDING", "EXECUTING", "COMPLETED", "PARTIALLY_COMPLETED", "FAILED", "CANCELLED"}

(* What the services make of an action; from another status they refuse.    *)
(* A split's execution is for its merchant alone, and the page sends        *)
(* 'current_user', which is no merchant's address.                          *)
Effects ==
  [refunds  |-> {<<"create", "none", "PENDING">>, <<"create", "none", "COMPLETED">>,
                 <<"process", "PENDING", "COMPLETED">>, <<"reverse", "COMPLETED", "REVERSED">>},
   splits   |-> {<<"create", "none", "PENDING">>} \cup
                {<<"retry", s, "EXECUTING">> : s \in SplitStatus} \cup
                {<<"cancel", s, "CANCELLED">> : s \in SplitStatus \ {"COMPLETED", "EXECUTING"}},
   disputes |-> {<<"create", "none", "OPEN">>} \cup
                {<<"review", s, "UNDER_REVIEW">> : s \in {"OPEN", "UNDER_REVIEW", "WON"}}]

(* The filter that is not set. *)
Unfiltered == ""

First == [refunds |-> "PENDING", splits |-> "PENDING", disputes |-> "OPEN"]
Found == [refunds |-> {"PENDING", "FAILED"}, splits |-> {"PENDING", "FAILED"}, disputes |-> {"OPEN"}]
Elsewhere ==
  [refunds |-> {<<"PENDING", "COMPLETED">>, <<"PENDING", "FAILED">>, <<"COMPLETED", "FAILED">>},
   splits |-> {<<"PENDING", "EXECUTING">>, <<"EXECUTING", "FAILED">>,
               <<"EXECUTING", "PARTIALLY_COMPLETED">>},
   disputes |-> {<<"UNDER_REVIEW", "WON">>}]
Filters == {Unfiltered, First[page]}

Matching(rows, status) ==
  [r \in PageRows |-> IF rows[r] # "none" /\ status \in {Unfiltered, rows[r]} THEN rows[r] ELSE "hidden"]

NoFetch == [pc |-> "none", filter |-> Unfiltered, rows |-> [r \in PageRows |-> "hidden"]]
NoClick == [pc |-> "none"]
Asked(status) == [NoFetch EXCEPT !.pc = "sent", !.filter = status]

Init ==
  /\ page \in DOMAIN Buttons
  /\ served \in [PageRows -> {"none"} \cup Found[page]]
  /\ ours \in SUBSET PageRows /\ (page # "splits" => ours = {})
  /\ filter = Unfiltered
  /\ shown = [rows |-> [r \in PageRows |-> "hidden"], filter |-> Unfiltered]
  /\ \E f \in Fetches : fetches = [g \in Fetches |-> IF g = f THEN Asked(Unfiltered) ELSE NoFetch]
  /\ clicks = [c \in Clicks |-> NoClick]
  /\ inputs = 0
  /\ crossed = {}

Fetching == \E f \in Fetches : fetches[f] # NoFetch
Acting == \E c \in Clicks : clicks[c] # NoClick
Input == inputs < MaxInputs /\ inputs' = inputs + 1
Cross(kinds) == crossed' = crossed \cup kinds

(* A fetch for a filter; two under way may be answered out of order.        *)
StartFetch(status) ==
  /\ \E f \in Fetches :
       /\ fetches[f] = NoFetch
       /\ fetches' = [fetches EXCEPT ![f] = Asked(status)]
Racing == IF Fetching THEN {"two fetches"} ELSE {}

-----------------------------------------------------------------------------
(* The effect on filters fetches with the new one.                          *)
SetFilter(status) ==
  /\ Input
  /\ status # filter
  /\ filter' = status
  /\ StartFetch(status)
  /\ Cross(Racing \cup IF Acting THEN {"filter while acting"} ELSE {})
  /\ UNCHANGED <<page, ours, served, shown, clicks>>

Answer(f) ==
  /\ fetches[f].pc = "sent"
  /\ fetches' = [fetches EXCEPT ![f].pc = "answered", ![f].rows = Matching(served, fetches[f].filter)]
  /\ UNCHANGED <<page, ours, served, filter, shown, clicks, inputs, crossed>>

(* Slip: rows are put under the filter of the moment. *)
Arrive_Unasked(f) ==
  /\ fetches[f].pc = "answered"
  /\ shown' = [rows |-> fetches[f].rows, filter |-> filter]
  /\ fetches' = [fetches EXCEPT ![f] = NoFetch]
  /\ UNCHANGED <<page, ours, served, filter, clicks, inputs, crossed>>

Arrive(f) ==
  /\ fetches[f].pc = "answered"
  /\ shown' = [rows |-> fetches[f].rows, filter |-> fetches[f].filter]
  /\ fetches' = [fetches EXCEPT ![f] = NoFetch]
  /\ UNCHANGED <<page, ours, served, filter, clicks, inputs, crossed>>

(* A failed fetch leaves the list as it is; an answer that is an error has  *)
(* no rows and empties it.                                                  *)
FetchFails(f) ==
  /\ fetches[f].pc # "none"
  /\ \/ UNCHANGED shown
     \/ shown' = [rows |-> [r \in PageRows |-> "hidden"], filter |-> fetches[f].filter]
  /\ fetches' = [fetches EXCEPT ![f] = NoFetch]
  /\ Cross({"failed"})
  /\ UNCHANGED <<page, ours, served, filter, clicks, inputs>>

(* The handler closes over the filter; no button is disabled meanwhile.     *)
Click(c, r, act) ==
  /\ Input
  /\ clicks[c] = NoClick
  /\ <<act, shown.rows[r]>> \in Buttons[page]
  /\ clicks' = [clicks EXCEPT ![c] = [pc |-> "sent", row |-> r, act |-> act, filter |-> filter]]
  /\ Cross(IF Acting \/ Fetching THEN {"click while busy"} ELSE {})
  /\ UNCHANGED <<page, ours, served, filter, shown, fetches>>

(* handleCreateRefund, handleCreateSplit, handleCreateDispute.              *)
Create(c, r) ==
  /\ Input
  /\ clicks[c] = NoClick
  /\ served[r] = "none" /\ \A d \in Clicks : clicks[d] # NoClick => clicks[d].row # r
  /\ clicks' = [clicks EXCEPT ![c] = [pc |-> "sent", row |-> r, act |-> "create", filter |-> filter]]
  /\ UNCHANGED <<page, ours, served, filter, shown, fetches, crossed>>

(* A retry and a cancellation are for the split's merchant; a retry is also *)
(* refused when the split has used up its retries, a creation for its data. *)
Serve(c) ==
  /\ clicks[c].pc = "sent"
  /\ LET act == clicks[c].act
         row == clicks[c].row
         results == {e \in Effects[page] : e[1] = act /\ e[2] = served[row]
                                            /\ (act \in {"retry", "cancel"} => row \in ours)}
     IN \/ \E e \in results : /\ served' = [served EXCEPT ![row] = e[3]]
                              /\ clicks' = [clicks EXCEPT ![c].pc = "ok"]
        \/ /\ results = {} \/ act \in {"retry", "create"}
           /\ clicks' = [clicks EXCEPT ![c].pc = "refused"]
           /\ UNCHANGED served
  /\ UNCHANGED <<page, ours, filter, shown, fetches, inputs, crossed>>

(* Processing saves a refund twice, with an entry of the trail between: what *)
(* throws there leaves it halfway.                                          *)
ProcessThrows(c) ==
  /\ clicks[c].pc = "sent" /\ page = "refunds"
  /\ <<clicks[c].act, served[clicks[c].row]>> \in {<<"process", "PENDING">>, <<"create", "none">>}
  /\ served' = [served EXCEPT ![clicks[c].row] = "PROCESSING"]
  /\ clicks' = [clicks EXCEPT ![c] = NoClick]
  /\ Cross({"failed"})
  /\ UNCHANGED <<page, ours, filter, shown, fetches, inputs>>

(* Slip: the list is fetched without the filter. *)
Clicked_All(c) ==
  /\ clicks[c].pc = "ok"
  /\ StartFetch(Unfiltered)
  /\ clicks' = [clicks EXCEPT ![c] = NoClick]
  /\ Cross(Racing)
  /\ UNCHANGED <<page, ours, served, filter, shown, inputs>>

(* An action that went well fetches the list, with the filter it was        *)
(* clicked under; a refused one leaves it.                                  *)
Clicked(c) ==
  /\ \/ clicks[c].pc = "ok" /\ StartFetch(clicks[c].filter) /\ Cross(Racing)
     \/ clicks[c].pc = "refused" /\ UNCHANGED <<fetches, crossed>>
  /\ clicks' = [clicks EXCEPT ![c] = NoClick]
  /\ UNCHANGED <<page, ours, served, filter, shown, inputs>>

(* The answer is lost, or the service threw before or after the change.     *)
AnswerLost(c) ==
  /\ clicks[c].pc \in {"sent", "ok"}
  /\ clicks' = [clicks EXCEPT ![c] = NoClick]
  /\ Cross({"failed"})
  /\ UNCHANGED <<page, ours, served, filter, shown, fetches, inputs>>

(* Another user, or the service on its own. *)
ServerChanges(r) ==
  /\ Input
  /\ \E e \in Elsewhere[page] :
       e[1] = served[r] /\ served' = [served EXCEPT ![r] = e[2]]
  /\ Cross({"elsewhere"})
  /\ UNCHANGED <<page, ours, filter, shown, fetches, clicks>>

Next ==
  \/ \E status \in Filters : SetFilter(status)
  \/ \E f \in Fetches : Answer(f) \/ Arrive(f) \/ FetchFails(f)
  \/ \E c \in Clicks :
       \/ Serve(c) \/ ProcessThrows(c) \/ Clicked(c) \/ AnswerLost(c)
       \/ \E r \in PageRows :
            \/ Create(c, r)
            \/ \E act \in {"process", "reverse", "execute", "retry", "cancel", "review"} : Click(c, r, act)
  \/ \E r \in PageRows : ServerChanges(r)

-----------------------------------------------------------------------------
(* The list, the fetches and the actions are well formed. *)
TypeOK ==
  /\ filter \in Filters /\ shown.filter \in Filters
  /\ \A f \in Fetches : fetches[f].pc \in {"none", "sent", "answered"}
  /\ \A c \in Clicks : clicks[c].pc \in {"none", "sent", "ok", "refused"}
  /\ \A r \in PageRows : shown.rows[r] = "hidden" \/ shown.filter \in {Unfiltered, shown.rows[r]}

(* When nothing is under way the list is what the server has for the filter *)
(* that is set, unless two fetches raced, the filter changed during an      *)
(* action, one of them failed or the rows changed elsewhere.                *)
ListFollowsServer ==
  ~Fetching /\ ~Acting /\ crossed \subseteq {"click while busy"} =>
    shown.filter = filter /\ shown.rows = Matching(served, filter)

(* What a row offers is accepted, unless the list was old, another action   *)
(* came first or a retry is one too many: but for a split's execution, which *)
(* the page never makes as its merchant, and another merchant's split.      *)
OfferedIsAccepted ==
  crossed \subseteq {"filter while acting"} =>
    \A c \in Clicks : clicks[c].pc = "refused" =>
      \/ clicks[c].act \in {"create", "retry", "execute"}
      \/ clicks[c].act = "cancel" /\ clicks[c].row \notin ours
=============================================================================
