------------------------------ MODULE MCPages -------------------------------
(***************************************************************************)
(* The pages of the frontend, with what each sees of its server, and the   *)
(* searches of the fraud network. They share no state, so one run checks   *)
(* them side by side: "part" says, from the first state on, which of them  *)
(* moves.                                                                  *)
(***************************************************************************)
EXTENDS Integers, FiniteSets, TLC

CONSTANTS
  PageRows, Fetches, Clicks, MaxInputs, Disputes, EvidenceFetches, Uploads,
  Updates, MaxDialogInputs, ApiKeys, KeyRequests, MaxKeyClicks, Funds,
  WithdrawalLimit, MaxWithdrawals, Fields, MaxEdits, MaxTimers, LivePayments,
  LiveFetches, MaxVisits, MaxConnections, MaxRefreshes, OrderAmounts,
  MaxTyped, MaxSubmits, Entities, MaxEdges, MaxBehind,
  MaxLength

VARIABLES
  part,
  page, served, ours, filter, shown, fetches, clicks, inputs, crossed, stored,
  rows, rowsOld, selected, files, evidenceGets, uploads, updates, uploadOpen,
  dialogInputs, overlaps, live, everLive, keyList, keyLoading, keyForm,
  keyRequests, keyClicks, keyCrossed, funds, payouts, pageBalance, pageList,
  withdrawal, formNo, submissions, mishaps, kept, typed, settingsPc, sent,
  saveSuccess, noteTimers, edits, edited, editedSince, loadFailed, visit,
  livePage, liveFetches, sockets, watchedPayments, callbacks, wire,
  clientWatchers, paymentWatchers, paymentStatus, liveNotes, orderForm,
  orderShown, orderRequest, ordersMade, orderNotes, edges, search

(* Balances and bounds are numbers; "none" is no payment and no dispute.    *)
ASSUME FundsAssumption ==
  Funds \in Nat /\ MaxTimers \in Nat /\ MaxEdges \in Nat /\ MaxLength \in Nat
ASSUME DisputesAssumption == "none" \notin Disputes
ASSUME LiveAssumption ==
  IsFiniteSet(LivePayments) /\ "none" \notin LivePayments /\ MaxConnections \in Nat

(* The same two names stand for the rows of each page, two others for its   *)
(* requests; either pair is interchangeable.                                *)
Symmetry == Permutations(Fields) \cup Permutations(KeyRequests)

L == INSTANCE ListPages
D == INSTANCE DisputeDialog
K == INSTANCE KeyPage
W == INSTANCE WithdrawalPage
S == INSTANCE SettingsPage
V == INSTANCE LivePage
O == INSTANCE CheckoutPage
N == INSTANCE NetworkAnalysis

Parts ==
   {"lists", "dialog", "keys", "withdrawals", "settings", "live", "orders",
    "network"}

ofListPages ==
  <<page, served, ours, filter, shown, fetches, clicks, inputs, crossed>>
ofDisputeDialog ==
  <<stored, rows, rowsOld, selected, files, evidenceGets, uploads, updates,
    uploadOpen, dialogInputs, overlaps>>
ofKeyPage ==
  <<live, everLive, keyList, keyLoading, keyForm, keyRequests, keyClicks,
    keyCrossed>>
ofWithdrawalPage ==
  <<funds, payouts, pageBalance, pageList, withdrawal, formNo, submissions,
    mishaps>>
ofSettingsPage ==
  <<kept, typed, settingsPc, sent, saveSuccess, noteTimers, edits, edited,
    editedSince, loadFailed>>
ofLivePage ==
  <<visit, livePage, liveFetches, sockets, watchedPayments, callbacks, wire,
    clientWatchers, paymentWatchers, paymentStatus, liveNotes>>
ofCheckoutPage ==
  <<orderForm, orderShown, orderRequest, ordersMade, orderNotes>>
ofNetworkAnalysis == <<edges, search>>
sumVars ==
  <<part, ofListPages, ofDisputeDialog, ofKeyPage, ofWithdrawalPage,
    ofSettingsPage, ofLivePage, ofCheckoutPage, ofNetworkAnalysis>>

SumInit ==
  /\ part \in Parts
  /\ L!Init /\ D!Init /\ K!Init /\ W!Init /\ S!Init /\ V!Init /\ O!Init /\ N!Init
  /\ \/ part = "lists"
     \/ /\ page = "refunds"
        /\ \A r \in PageRows : served[r] = "none"
        /\ fetches[CHOOSE f \in Fetches : TRUE] # L!NoFetch
  /\ part = "dialog" \/ \A d \in Disputes : stored[d].status = "OPEN"
  /\ part = "keys" \/ live = {}

(* One part moves and the others rest. *)
SumNext ==
  /\ UNCHANGED part
  /\ \/ /\ part = "lists" /\ L!Next
        /\ UNCHANGED <<ofDisputeDialog, ofKeyPage, ofWithdrawalPage,
                       ofSettingsPage, ofLivePage, ofCheckoutPage,
                       ofNetworkAnalysis>>
     \/ /\ part = "dialog" /\ D!Next
        /\ UNCHANGED <<ofListPages, ofKeyPage, ofWithdrawalPage,
                       ofSettingsPage, ofLivePage, ofCheckoutPage,
                       ofNetworkAnalysis>>
     \/ /\ part = "keys" /\ K!Next
        /\ UNCHANGED <<ofListPages, ofDisputeDialog, ofWithdrawalPage,
                       ofSettingsPage, ofLivePage, ofCheckoutPage,
                       ofNetworkAnalysis>>
     \/ /\ part = "withdrawals" /\ W!Next
        /\ UNCHANGED <<ofListPages, ofDisputeDialog, ofKeyPage,
                       ofSettingsPage, ofLivePage, ofCheckoutPage,
                       ofNetworkAnalysis>>
     \/ /\ part = "settings" /\ S!Next
        /\ UNCHANGED <<ofListPages, ofDisputeDialog, ofKeyPage,
                       ofWithdrawalPage, ofLivePage, ofCheckoutPage,
                       ofNetworkAnalysis>>
     \/ /\ part = "live" /\ V!Next
        /\ UNCHANGED <<ofListPages, ofDisputeDialog, ofKeyPage,
                       ofWithdrawalPage, ofSettingsPage, ofCheckoutPage,
                       ofNetworkAnalysis>>
     \/ /\ part = "orders" /\ O!Next
        /\ UNCHANGED <<ofListPages, ofDisputeDialog, ofKeyPage,
                       ofWithdrawalPage, ofSettingsPage, ofLivePage,
                       ofNetworkAnalysis>>
     \/ /\ part = "network" /\ N!Next
        /\ UNCHANGED <<ofListPages, ofDisputeDialog, ofKeyPage,
                       ofWithdrawalPage, ofSettingsPage, ofLivePage,
                       ofCheckoutPage>>

SumSpec == SumInit /\ [][SumNext]_sumVars

-----------------------------------------------------------------------------
(* The forms, the requests and the servers' rows of all parts are well      *)
(* formed.                                                                  *)
TypesOK ==
  /\ L!TypeOK
  /\ D!TypeOK
  /\ K!TypeOK
  /\ W!TypeOK
  /\ S!TypeOK
  /\ V!TypeOK
  /\ O!TypeOK
  /\ N!TypeOK

(* With nothing under way a list, a dialog or a form shows what the server  *)
(* has, what a row offers is accepted but for a split's execution, a        *)
(* dispute moves along its buttons' steps and a save changes only what was  *)
(* edited, unless requests raced or failed in the ways each part names.     *)
ScreensFollowServers ==
  /\ []L!ListFollowsServer
  /\ []L!OfferedIsAccepted
  /\ []D!EvidenceIsSelecteds
  /\ []D!CountIsStored
  /\ D!DisputesMoveAlongSteps
  /\ []K!ListIsLive
  /\ []S!NoteMeansSaved
  /\ []S!OnlyEditsAreSaved

(* No withdrawal exceeds the balance unless a fetch failed or an answer     *)
(* was lost, and a form or an amount that was typed is paid once, however   *)
(* often its button is pressed, unless the answer was lost.                 *)
MoneyGoesOutOnce ==
  /\ W!NoOverdraft
  /\ W!PaidOncePerForm
  /\ O!OnePaymentPerAmount

(* The gateway's two maps agree, and once its messages have arrived it      *)
(* watches what the browser believes it watches and what an open page       *)
(* shows, unless the page was opened while the socket was up; a page goes   *)
(* back from an outcome only if two of its fetches raced.                   *)
WatchersFollowPages ==
  /\ V!WatchersAgree
  /\ V!GatewayFollowsBrowser
  /\ V!WatchedUnlessOpenedLive
  /\ V!OutcomeStays

(* The rings are the clusters of linked entities, each once, the circular   *)
(* patterns are the closed walks of at most MaxLength entities, and         *)
(* entities that are similar at all are found in one component.             *)
SearchesAreExact ==
  /\ part = "network" => N!RingsAreClusters
  /\ part = "network" => N!CirclesAreFound
  /\ part = "network" => N!SimilarAreTogether
=============================================================================
