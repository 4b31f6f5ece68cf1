----------------------------- MODULE Settlement -----------------------------
(***************************************************************************)
(* Unified settlement of completed swaps: batches of a time window, their  *)
(* netting into payments, and the approvals that execute them.  Batches    *)
(* and approvals are kept in memory.  A window takes any of the completed  *)
(* swaps that are adjacent in time; what a swap pays, to whom and on which *)
(* chain are constants.  The amounts are decimal columns, that is, texts.  *)
(***************************************************************************)
EXTENDS FiniteSets, Integers, FiniteSetsExt

CONSTANTS
  Swaps,                \* swaps by the order in which they complete
  Payee(_), Paid(_),    \* recipient and chain of a swap, and its amount
  Approvers,
  RequiredApprovals,
  BatchIds              \* bound: batches, by the time they are made

VARIABLES
  completedSwaps,       \* how many swaps have completed
  batch,                \* settlementBatches
  approvals,            \* pendingApprovals
  approvedBy,           \* who approved a batch when it was executed
  plan                  \* the settlement plan applyNetting returned

settlementVars == <<completedSwaps, batch, approvals, approvedBy, plan>>

NoBatch == [status |-> "none", swaps |-> {}, total |-> << >>]
BatchStatus == {"pending", "processing", "completed"}
NotSubmitted == {"not submitted"}
Held(b) == batch[b] # NoBatch

Init ==
  /\ completedSwaps = 0
  /\ batch = [b \in BatchIds |-> NoBatch]
  /\ approvals = [b \in BatchIds |-> NotSubmitted]
  /\ approvedBy = [b \in BatchIds |-> {}]
  /\ plan = [b \in BatchIds |-> {}]

(* The relayer completes the next swap. *)
CompleteSwap ==
  /\ completedSwaps < Cardinality(Swaps)
  /\ completedSwaps' = completedSwaps + 1
  /\ UNCHANGED <<batch, approvals, approvedBy, plan>>

-----------------------------------------------------------------------------
(* Slip: what was added before is forgotten. *)
Strung_Last(swaps) == [s \in {Max(swaps)} |-> Paid(s)]

(* Adding the amounts of swaps to 0 puts their texts one behind the other:  *)
(* the amounts by their swaps, in whose order they stand.                   *)
Strung(swaps) == [s \in swaps |-> Paid(s)]

(* The number such a text is, if any: with a second point in it it is none. *)
ReadsAs(text) == IF Cardinality(DOMAIN text) = 1 THEN {text[s] : s \in DOMAIN text} ELSE {}

(* A batch is made of the swaps of the window, in other batches or not.     *)
AggregatePayments(b, first, last) ==
  /\ ~Held(b)
  /\ first <= last /\ last <= completedSwaps
  /\ batch' = [batch EXCEPT ![b] = [status |-> "pending", swaps |-> first..last,
                                    total |-> Strung(first..last)]]
  /\ approvals' = [approvals EXCEPT ![b] = NotSubmitted]
  /\ plan' = [plan EXCEPT ![b] = {}]
  /\ approvedBy' = [approvedBy EXCEPT ![b] = {}]
  /\ UNCHANGED completedSwaps

(* The swaps of a batch grouped by recipient and chain. *)
Groups(swaps) == {{s \in swaps : Payee(s) = p} : p \in {Payee(s) : s \in swaps}}

Payment(group) == [swaps |-> group, amount |-> Strung(group)]

(* Only the groups of more than one swap are planned. *)
ApplyNetting(b) ==
  /\ batch[b].status = "pending"
  /\ plan' = [plan EXCEPT ![b] =
                {Payment(g) : g \in {h \in Groups(batch[b].swaps) : Cardinality(h) > 1}}]
  /\ batch' = [batch EXCEPT ![b].status = "processing"]
  /\ UNCHANGED <<completedSwaps, approvals, approvedBy>>

(* Submitting a batch once more starts its approvals again. *)
SubmitSettlementForApproval(b) ==
  /\ batch[b].status = "processing"
  /\ approvals' = [approvals EXCEPT ![b] = {}]
  /\ UNCHANGED <<completedSwaps, batch, approvedBy, plan>>

(* Slip: one approval fewer will do. *)
Enough_OneFewer(approvers) == RequiredApprovals - Cardinality(approvers) <= 1

Enough(approvers) == RequiredApprovals - Cardinality(approvers) <= 0

(* The last approval executes the batch and forgets the approvals.          *)
ApproveSettlement(b, approver) ==
  LET approvers == approvals[b] \cup {approver} IN
  /\ approvals[b] # NotSubmitted
  /\ approver \notin approvals[b]
  /\ IF Enough(approvers)
     THEN /\ Held(b)
          /\ batch' = [batch EXCEPT ![b].status = "completed"]
          /\ approvals' = [approvals EXCEPT ![b] = NotSubmitted]
          /\ approvedBy' = [approvedBy EXCEPT ![b] = approvers]
     ELSE /\ approvals' = [approvals EXCEPT ![b] = approvers]
          /\ UNCHANGED <<batch, approvedBy>>
  /\ UNCHANGED <<completedSwaps, plan>>

(* A restart loses the batches and the approvals; what was paid is paid.    *)
Restart ==
  /\ batch' = [b \in BatchIds |-> NoBatch]
  /\ approvals' = [b \in BatchIds |-> NotSubmitted]
  /\ UNCHANGED <<completedSwaps, approvedBy, plan>>

Next ==
  \/ CompleteSwap \/ Restart
  \/ \E b \in BatchIds :
       \/ \E first, last \in Swaps : AggregatePayments(b, first, last)
       \/ ApplyNetting(b) \/ SubmitSettlementForApproval(b)
       \/ \E a \in Approvers : ApproveSettlement(b, a)

-----------------------------------------------------------------------------
(* Batches and approvals are well formed. *)
TypeOK ==
  /\ completedSwaps \in 0..Cardinality(Swaps)
  /\ \A b \in BatchIds :
       /\ Held(b) => batch[b].status \in BatchStatus /\ batch[b].swaps \subseteq Swaps
       /\ approvals[b] = NotSubmitted \/ approvals[b] \subseteq Approvers

(* A batch is executed with the approvals it needs, all given since it was  *)
(* last submitted, and with the plan of its netting.                        *)
ExecutedIsApproved ==
  \A b \in BatchIds : batch[b].status = "completed" =>
    /\ Cardinality(approvedBy[b]) >= RequiredApprovals
    /\ \A g \in Groups(batch[b].swaps) : Cardinality(g) > 1 =>
         \E p \in plan[b] : p.swaps = g

(* No wrong amount is written: the total of a batch is a number only if it  *)
(* is the amount of its one swap, and a payment's amount never is, since    *)
(* every payment nets two swaps or more.  No swap is paid twice by a plan,  *)
(* and a payment's text holds the amounts of its swaps and of no other.     *)
AmountsAreNeverWrong ==
  \A b \in BatchIds :
    /\ \A n \in ReadsAs(batch[b].total) :
         \E s \in batch[b].swaps : batch[b].swaps = {s} /\ n = Paid(s)
    /\ \A p \in plan[b] : ReadsAs(p.amount) = {} /\ DOMAIN p.amount = p.swaps
    /\ \A p, r \in plan[b] : p # r => p.swaps \cap r.swaps = {}
=============================================================================
