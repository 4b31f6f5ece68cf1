---------------------------- MODULE PaymentSplit ----------------------------
(***************************************************************************)
(* The payment split service: one split with its recipients, its           *)
(* distributions and its milestones, and requests that overlap at every    *)
(* await.  The recipients live in a column of the split's row, and every   *)
(* request saves the row it read, whole.  A request may throw at any await *)
(* and leave the rest of its work undone.  Every distribution is of one    *)
(* unit; the audit log, to which requests only append, is left out.        *)
(***************************************************************************)
EXTENDS FiniteSets, Integers

CONSTANTS
  Recipients, Distributions, Milestones,
  SplitMaxRetries,     \* maxRetries: 3 in the code
  SplitRequests,       \* bound: requests in progress
  MaxSplitCalls        \* bound: requests

VARIABLES
  split,         \* row of table payment_splits
  distribution,  \* rows of table split_distributions
  milestone,     \* status of the rows of table split_milestones
  splitRequest,  \* the requests
  confirmed, completed, \* history: distributions and milestones stored as COMPLETED
  splitCalls

splitVars ==
  <<split, distribution, milestone, splitRequest, confirmed, completed, splitCalls>>

SplitStatus ==
  {"PENDING", "EXECUTING", "COMPLETED", "PARTIALLY_COMPLETED", "FAILED", "CANCELLED"}
Split ==
  [status : SplitStatus, retries : Nat,
   part : [Recipients -> SplitStatus], amount : [Recipients -> Nat]]
NotStored == [status |-> "none"]
Distribution == [status : {"EXECUTING", "COMPLETED", "FAILED"}, to : Recipients] \cup {NotStored}
MilestoneStatus == {"PENDING", "TRIGGERED", "COMPLETED"}

NewSplit ==
  [status |-> "PENDING", retries |-> 0,
   part |-> [r \in Recipients |-> "PENDING"], amount |-> [r \in Recipients |-> 0]]
NoRequest == [does |-> "nothing"]

(* createSplit *)
Init ==
  /\ split = NewSplit
  /\ distribution = [d \in Distributions |-> NotStored]
  /\ milestone = [m \in Milestones |-> "PENDING"]
  /\ splitRequest = [q \in SplitRequests |-> NoRequest]
  /\ confirmed = {} /\ completed = {}
  /\ splitCalls = 0

-----------------------------------------------------------------------------
(* A request begins with what it reads; it goes on at pc.                   *)
Begin(q, request) ==
  /\ splitRequest[q] = NoRequest
  /\ splitCalls < MaxSplitCalls
  /\ splitCalls' = splitCalls + 1
  /\ splitRequest' = [splitRequest EXCEPT ![q] = request]
  /\ UNCHANGED <<split, distribution, milestone, confirmed, completed>>

(* What a request on the split alone makes of the row it read.              *)
Executed(row) == [row EXCEPT !.status = "EXECUTING"]
Cancelled(row) == [row EXCEPT !.status = "CANCELLED"]
Retried(row) ==
  [row EXCEPT !.status = "EXECUTING", !.retries = @ + 1,
              !.part = [r \in Recipients |-> IF @[r] = "FAILED" THEN "PENDING" ELSE @[r]]]

SaveLater(q, row) == Begin(q, [does |-> "split", pc |-> "split", copy |-> row])

ExecuteSplit(q) == split.status = "PENDING" /\ SaveLater(q, Executed(split))

CancelSplit(q) ==
  /\ split.status \notin {"COMPLETED", "EXECUTING"}
  /\ SaveLater(q, Cancelled(split))

(* Slip: the limit is not looked at. *)
RetryFailedDistributions_NoLimit(q) == SaveLater(q, Retried(split))

RetryFailedDistributions(q) ==
  /\ split.retries < SplitMaxRetries
  /\ SaveLater(q, Retried(split))

(* refundSplit cancels a split, a completed one is only annotated;          *)
(* handlePartialPayment changes the amounts of a pending one.               *)
RefundSplit(q) ==
  /\ split.status # "CANCELLED"
  /\ SaveLater(q, IF split.status = "COMPLETED" THEN split ELSE Cancelled(split))

HandlePartialPayment(q) == split.status = "PENDING" /\ SaveLater(q, split)

(* distributeToRecipient stores a distribution, then adds its amount.       *)
DistributeToRecipient(q, d, r) ==
  /\ split.status = "EXECUTING"
  /\ Begin(q, [does |-> "distribute", pc |-> "distribution", d |-> d,
               row |-> [status |-> "EXECUTING", to |-> r],
               copy |-> [split EXCEPT !.amount[r] = @ + 1, !.part[r] = "EXECUTING"]])

(* confirmDistribution, failDistribution and refundSpecificDistribution     *)
(* change a distribution, in whatever status the first two find it, and     *)
(* then read the split.                                                     *)
ChangeDistribution(q, d, does, status) ==
  /\ distribution[d] # NotStored
  /\ does = "refund" => distribution[d].status = "COMPLETED"
  /\ Begin(q, [does |-> does, pc |-> "distribution", d |-> d, copy |-> split,
               row |-> [distribution[d] EXCEPT !.status = status]])

ConfirmDistribution(q, d) == ChangeDistribution(q, d, "confirm", "COMPLETED")
FailDistribution(q, d) == ChangeDistribution(q, d, "fail", "FAILED")
RefundSpecificDistribution(q, d) == ChangeDistribution(q, d, "refund", "FAILED")

(* Slip: the distribution is not stored. *)
SaveDistribution_Nothing(q) ==
  /\ splitRequest[q] # NoRequest
  /\ splitRequest[q].pc = "distribution"
  /\ splitRequest' = [splitRequest EXCEPT ![q].pc =
                        IF splitRequest[q].does = "distribute" THEN "split" ELSE "read"]
  /\ UNCHANGED <<split, distribution, milestone, confirmed, completed, splitCalls>>

(* A second distribution with the same id violates its unique column.       *)
SaveDistribution(q) ==
  LET request == splitRequest[q] IN
  /\ request # NoRequest
  /\ request.pc = "distribution"
  /\ request.does = "distribute" => distribution[request.d] = NotStored
  /\ distribution' = [distribution EXCEPT ![request.d] = request.row]
  /\ confirmed' = IF request.does = "confirm" THEN confirmed \cup {request.d} ELSE confirmed
  /\ splitRequest' = [splitRequest EXCEPT ![q].pc =
                        IF request.does = "distribute" THEN "split" ELSE "read"]
  /\ UNCHANGED <<split, milestone, completed, splitCalls>>

AnyFailed(row) == \E r \in Recipients : row.part[r] = "FAILED"

(* Slip: one completed recipient completes the split. *)
CompletionStatus_Any(row) ==
  IF \E r \in Recipients : row.part[r] = "COMPLETED" THEN [row EXCEPT !.status = "COMPLETED"]
  ELSE row

(* updateSplitCompletionStatus *)
CompletionStatus(row) ==
  IF \A r \in Recipients : row.part[r] = "COMPLETED" THEN [row EXCEPT !.status = "COMPLETED"]
  ELSE IF AnyFailed(row) THEN [row EXCEPT !.status = "PARTIALLY_COMPLETED"]
  ELSE row

FailureStatus(row) ==
  [row EXCEPT !.retries = @ + 1,
              !.status = IF row.retries + 1 >= SplitMaxRetries THEN "FAILED"
                         ELSE "PARTIALLY_COMPLETED"]

Outcome(request, row) ==
  LET r == request.row.to IN
  CASE request.does = "confirm" -> CompletionStatus([row EXCEPT !.part[r] = "COMPLETED"])
    [] request.does = "fail" -> FailureStatus([row EXCEPT !.part[r] = "FAILED"])
    [] request.does = "refund" ->
         IF AnyFailed(row) THEN [row EXCEPT !.status = "PARTIALLY_COMPLETED"] ELSE row

ReadSplit(q) ==
  /\ splitRequest[q] # NoRequest
  /\ splitRequest[q].pc = "read"
  /\ splitRequest' = [splitRequest EXCEPT ![q].pc = "split",
                                          ![q].copy = Outcome(splitRequest[q], split)]
  /\ UNCHANGED <<split, distribution, milestone, confirmed, completed, splitCalls>>

SaveSplit(q) ==
  /\ splitRequest[q] # NoRequest
  /\ splitRequest[q].pc = "split"
  /\ split' = splitRequest[q].copy
  /\ splitRequest' = [splitRequest EXCEPT ![q] = NoRequest]
  /\ UNCHANGED <<distribution, milestone, confirmed, completed, splitCalls>>

-----------------------------------------------------------------------------
(* Both read the split first, whatever its status, and then the milestone.  *)
TriggerMilestone(q, m) ==
  /\ milestone[m] = "PENDING"
  /\ Begin(q, [does |-> "trigger", pc |-> "milestone", m |-> m, copy |-> split])

CompleteMilestone(q, m) ==
  /\ milestone[m] = "TRIGGERED"
  /\ Begin(q, [does |-> "complete", pc |-> "milestone", m |-> m, copy |-> split])

SaveMilestone(q) ==
  LET request == splitRequest[q] IN
  /\ request # NoRequest
  /\ request.pc = "milestone"
  /\ \/ /\ request.does = "trigger"
        /\ milestone' = [milestone EXCEPT ![request.m] = "TRIGGERED"]
        /\ splitRequest' = [splitRequest EXCEPT ![q] = NoRequest]
        /\ UNCHANGED completed
     \/ /\ request.does = "complete"
        /\ milestone' = [milestone EXCEPT ![request.m] = "COMPLETED"]
        /\ completed' = completed \cup {request.m}
        /\ splitRequest' = [splitRequest EXCEPT ![q].pc = "milestones"]
  /\ UNCHANGED <<split, distribution, confirmed, splitCalls>>

ReadMilestones(q) ==
  /\ splitRequest[q] # NoRequest
  /\ splitRequest[q].pc = "milestones"
  /\ splitRequest' =
       IF \A m \in Milestones : milestone[m] = "COMPLETED"
       THEN [splitRequest EXCEPT ![q].pc = "split", ![q].copy.status = "COMPLETED"]
       ELSE [splitRequest EXCEPT ![q] = NoRequest]
  /\ UNCHANGED <<split, distribution, milestone, confirmed, completed, splitCalls>>

(* A request throws at an await. *)
Throw(q) ==
  /\ splitRequest[q] # NoRequest
  /\ splitRequest' = [splitRequest EXCEPT ![q] = NoRequest]
  /\ UNCHANGED <<split, distribution, milestone, confirmed, completed, splitCalls>>

Next ==
  \E q \in SplitRequests :
    \/ ExecuteSplit(q) \/ CancelSplit(q) \/ RetryFailedDistributions(q)
    \/ RefundSplit(q) \/ HandlePartialPayment(q)
    \/ \E d \in Distributions :
         \/ \E r \in Recipients : DistributeToRecipient(q, d, r)
         \/ ConfirmDistribution(q, d) \/ FailDistribution(q, d)
         \/ RefundSpecificDistribution(q, d)
    \/ \E m \in Milestones : TriggerMilestone(q, m) \/ CompleteMilestone(q, m)
    \/ SaveDistribution(q) \/ ReadSplit(q) \/ SaveSplit(q)
    \/ SaveMilestone(q) \/ ReadMilestones(q) \/ Throw(q)

-----------------------------------------------------------------------------
(* The rows are well formed, and a stored distribution keeps its recipient. *)
TypeOK ==
  /\ split \in Split
  /\ distribution \in [Distributions -> Distribution]
  /\ milestone \in [Milestones -> MilestoneStatus]
  /\ \A q \in SplitRequests : splitRequest[q] # NoRequest => splitRequest[q].copy \in Split
  /\ \A d \in confirmed : distribution[d] # NotStored

StoredFor(r) == {d \in Distributions : distribution[d] # NotStored /\ distribution[d].to = r}

(* A split is only COMPLETED when every recipient had a distribution that   *)
(* was confirmed, or every milestone was completed.  Stale saves take       *)
(* statuses back, but never make up one.                                    *)
CompletedMeansConfirmed ==
  split.status = "COMPLETED" =>
    \/ \A r \in Recipients : StoredFor(r) \cap confirmed # {}
    \/ Milestones # {} /\ completed = Milestones

(* What the row says was distributed to a recipient never exceeds the       *)
(* distributions stored for him, whatever is lost between the two saves.    *)
AmountsAreBacked ==
  \A r \in Recipients : split.amount[r] <= Cardinality(StoredFor(r))

(* A split only executes within its retries: no stale save and no failure   *)
(* that is counted in between lets it go on after they are used up.         *)
ExecutesWithinRetries == split.status = "EXECUTING" => split.retries <= SplitMaxRetries
=============================================================================
