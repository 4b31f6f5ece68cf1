------------------------------ MODULE Refunds ------------------------------
(***************************************************************************)
(* The refund service of one merchant: refunds, a dispute with its         *)
(* evidence, the merchant's policy, and the reconciliation with what the   *)
(* payment processor reports.  Requests overlap at every await, save the   *)
(* row they read whole, and may throw at any await.  Of the audit trail    *)
(* the entries that name a transaction are kept.  Amounts, fees and the    *)
(* refund window are left out.                                             *)
(***************************************************************************)
EXTENDS FiniteSets, Integers

CONSTANTS
  RefundIds, EvidenceIds,
  RefundRequests,     \* bound: requests in progress
  MaxRefundCalls      \* bound: requests, and the transactions they make

VARIABLES
  refund,         \* rows of table refunds
  dispute,        \* row of table disputes
  evidence,       \* ids in table evidence
  policies,       \* active rows of table refund_policies
  trail,          \* refund and transaction of the REFUND_PROCESSED entries
  refundRequest,  \* the requests
  report,         \* the last reconciliation: what it compared, what it found
  refundCalls, transactions

refundVars == <<refund, dispute, evidence, policies, trail, refundRequest, report,
                refundCalls, transactions>>

RefundStatus == {"PENDING", "PROCESSING", "COMPLETED", "FAILED", "REVERSED"}
NoHash == 0
NoRefund == [status |-> "none", hash |-> NoHash]
Refund == [status : RefundStatus, hash : Nat] \cup {NoRefund}
Resolved == {"RESOLVED", "WON", "LOST", "CLOSED"}
DisputeStatus == {"OPEN", "UNDER_REVIEW", "EVIDENCE_REQUIRED", "RESPONDING"} \cup Resolved
NoDispute == [status |-> "none", resolvedAt |-> FALSE, evidenceCount |-> 0]
Dispute == [status : DisputeStatus, resolvedAt : BOOLEAN, evidenceCount : Nat] \cup {NoDispute}
NoRefundRequest == [does |-> "nothing"]
NoReport == [completed |-> {}, reported |-> {}, unmatched |-> {}, discrepancies |-> {}]

Init ==
  /\ refund = [f \in RefundIds |-> NoRefund]
  /\ dispute = NoDispute
  /\ evidence = {}
  /\ policies = 0
  /\ trail = {}
  /\ refundRequest = [q \in RefundRequests |-> NoRefundRequest]
  /\ report = NoReport
  /\ refundCalls = 0 /\ transactions = 0

-----------------------------------------------------------------------------
Begin(q, request) ==
  /\ refundRequest[q] = NoRefundRequest
  /\ refundCalls < MaxRefundCalls
  /\ refundCalls' = refundCalls + 1
  /\ refundRequest' = [refundRequest EXCEPT ![q] = request]

At(q, pc) == refundRequest[q] # NoRefundRequest /\ refundRequest[q].pc = pc
Goto(q, pc) == refundRequest' = [refundRequest EXCEPT ![q].pc = pc]
Done(q) == refundRequest' = [refundRequest EXCEPT ![q] = NoRefundRequest]

(* getMerchantPolicy reads the active policy; createRefund and              *)
(* createDispute begin with it.                                             *)
AfterPolicy == IF policies = 0 THEN "newPolicy" ELSE "store"

CreateRefund(q, f, auto) ==
  /\ refund[f] = NoRefund
  /\ ~ \E p \in RefundRequests : refundRequest[p].does = "create" /\ refundRequest[p].f = f
  /\ Begin(q, [does |-> "create", pc |-> AfterPolicy, f |-> f, auto |-> auto])
  /\ UNCHANGED <<refund, dispute, evidence, policies, trail, report, transactions>>

CreateDispute(q) ==
  /\ dispute = NoDispute
  /\ ~ \E p \in RefundRequests : refundRequest[p].does = "dispute"
  /\ Begin(q, [does |-> "dispute", pc |-> AfterPolicy])
  /\ UNCHANGED <<refund, dispute, evidence, policies, trail, report, transactions>>

(* The default policy is saved. *)
SavePolicy(q) ==
  /\ At(q, "newPolicy")
  /\ policies' = policies + 1
  /\ Goto(q, "store")
  /\ UNCHANGED <<refund, dispute, evidence, trail, report, refundCalls, transactions>>

(* A refund under the threshold is processed in the same request.           *)
Store(q) ==
  /\ At(q, "store")
  /\ \/ /\ refundRequest[q].does = "create"
        /\ refund' = [refund EXCEPT ![refundRequest[q].f] = [status |-> "PENDING", hash |-> NoHash]]
        /\ IF refundRequest[q].auto THEN Goto(q, "process") ELSE Done(q)
        /\ UNCHANGED dispute
     \/ /\ refundRequest[q].does = "dispute"
        /\ dispute' = [NoDispute EXCEPT !.status = "OPEN"]
        /\ Done(q)
        /\ UNCHANGED refund
  /\ UNCHANGED <<evidence, policies, trail, report, refundCalls, transactions>>

-----------------------------------------------------------------------------
Processing(f) ==
  [does |-> "process", pc |-> "submit", f |-> f, copy |-> refund[f], hash |-> transactions + 1]

(* Slip: a refund that is being processed is processed once more. *)
ProcessRefund_Again(q, f) ==
  /\ refund[f].status \in {"PENDING", "PROCESSING"}
  /\ Begin(q, Processing(f))
  /\ transactions' = transactions + 1
  /\ UNCHANGED <<refund, dispute, evidence, policies, trail, report>>

(* processRefund reads a pending refund and makes a transaction.            *)
ProcessRefund(q, f) ==
  /\ refund[f].status = "PENDING"
  /\ Begin(q, Processing(f))
  /\ transactions' = transactions + 1
  /\ UNCHANGED <<refund, dispute, evidence, policies, trail, report>>

AutoProcess(q) ==
  /\ At(q, "process")
  /\ IF refund[refundRequest[q].f].status = "PENDING"
     THEN /\ refundRequest' = [refundRequest EXCEPT ![q] = Processing(refundRequest[q].f)]
          /\ transactions' = transactions + 1
     ELSE Done(q) /\ UNCHANGED transactions
  /\ UNCHANGED <<refund, dispute, evidence, policies, trail, report, refundCalls>>

SaveProcessing(q) ==
  LET request == refundRequest[q] IN
  /\ At(q, "submit")
  /\ refund' = [refund EXCEPT ![request.f] = [request.copy EXCEPT !.status = "PROCESSING"]]
  /\ Goto(q, "audit")
  /\ UNCHANGED <<dispute, evidence, policies, trail, report, refundCalls, transactions>>

(* Slip: the transaction is not written to the trail. *)
AuditTransaction_Not(q) ==
  /\ At(q, "audit")
  /\ Goto(q, "complete")
  /\ UNCHANGED <<refund, dispute, evidence, policies, trail, report, refundCalls, transactions>>

AuditTransaction(q) ==
  /\ At(q, "audit")
  /\ trail' = trail \cup {<<refundRequest[q].f, refundRequest[q].hash>>}
  /\ Goto(q, "complete")
  /\ UNCHANGED <<refund, dispute, evidence, policies, report, refundCalls, transactions>>

SaveCompleted(q) ==
  LET request == refundRequest[q] IN
  /\ At(q, "complete")
  /\ refund' = [refund EXCEPT ![request.f] = [status |-> "COMPLETED", hash |-> request.hash]]
  /\ Done(q)
  /\ UNCHANGED <<dispute, evidence, policies, trail, report, refundCalls, transactions>>

(* failRefund takes a refund in any status, reverseRefund a completed one.  *)
Change(q, f, status) ==
  /\ Begin(q, [does |-> "change", pc |-> "save", f |-> f,
               copy |-> [refund[f] EXCEPT !.status = status]])
  /\ UNCHANGED <<refund, dispute, evidence, policies, trail, report, transactions>>

FailRefund(q, f) == refund[f] # NoRefund /\ Change(q, f, "FAILED")
ReverseRefund(q, f) == refund[f].status = "COMPLETED" /\ Change(q, f, "REVERSED")

SaveRefund(q) ==
  /\ At(q, "save")
  /\ refund' = [refund EXCEPT ![refundRequest[q].f] = refundRequest[q].copy]
  /\ Done(q)
  /\ UNCHANGED <<dispute, evidence, policies, trail, report, refundCalls, transactions>>

-----------------------------------------------------------------------------
(* updateDispute sets any status, and the date with the resolving ones.     *)
UpdateDispute(q, status) ==
  /\ dispute # NoDispute
  /\ Begin(q, [does |-> "update", pc |-> "saveDispute",
               copy |-> [dispute EXCEPT !.status = status,
                                        !.resolvedAt = @ \/ status \in Resolved]])
  /\ UNCHANGED <<refund, dispute, evidence, policies, trail, report, transactions>>

(* Slip: the evidence is counted and not stored. *)
UploadEvidence_CountOnly(q, e) ==
  /\ e \notin evidence
  /\ Begin(q, [does |-> "upload", pc |-> "count"])
  /\ UNCHANGED <<refund, dispute, evidence, policies, trail, report, transactions>>

(* uploadEvidence stores the evidence, for a dispute that may not exist, and *)
(* then counts it on the dispute's row.                                      *)
UploadEvidence(q, e) ==
  /\ e \notin evidence
  /\ Begin(q, [does |-> "upload", pc |-> "count"])
  /\ evidence' = evidence \cup {e}
  /\ UNCHANGED <<refund, dispute, policies, trail, report, transactions>>

CountEvidence(q) ==
  /\ At(q, "count")
  /\ IF dispute = NoDispute THEN Done(q)
     ELSE refundRequest' = [refundRequest EXCEPT ![q] =
            [does |-> "upload", pc |-> "saveDispute",
             copy |-> [dispute EXCEPT !.evidenceCount = @ + 1]]]
  /\ UNCHANGED <<refund, dispute, evidence, policies, trail, report, refundCalls, transactions>>

SaveDispute(q) ==
  /\ At(q, "saveDispute")
  /\ dispute' = refundRequest[q].copy
  /\ Done(q)
  /\ UNCHANGED <<refund, evidence, policies, trail, report, refundCalls, transactions>>

Throw(q) ==
  /\ refundRequest[q] # NoRefundRequest
  /\ Done(q)
  /\ UNCHANGED <<refund, dispute, evidence, policies, trail, report, refundCalls, transactions>>

-----------------------------------------------------------------------------
(* reconcileWithProcessor looks up every completed refund in a map from     *)
(* refund to the last transaction the processor reported for it, and every  *)
(* reported transaction among the completed refunds.  A transaction is      *)
(* given as its refund and whether it succeeded with the amount expected.   *)
Unmatched(completed, reported) == {f \in completed : \A t \in reported : t[1] # f}
Mismatched(completed, last) == {f \in completed \cap DOMAIN last : ~last[f]}
Unrecorded(completed, reported) == {t[1] : t \in {u \in reported : u[1] \notin completed}}

(* Slip: what the processor reported is not looked up. *)
Reconcile_OneWay(completed, reported, last) ==
  [completed |-> completed, reported |-> reported,
   unmatched |-> Unmatched(completed, reported),
   discrepancies |-> Mismatched(completed, last)]

Reconcile(completed, reported, last) ==
  [completed |-> completed, reported |-> reported,
   unmatched |-> Unmatched(completed, reported),
   discrepancies |-> Mismatched(completed, last) \cup Unrecorded(completed, reported)]

Completed == {f \in RefundIds : refund[f].status = "COMPLETED"}
Lasts(reported) ==
  {last \in [{t[1] : t \in reported} -> BOOLEAN] :
     \A f \in DOMAIN last : <<f, last[f]>> \in reported}

(* The processor may not know a transaction yet, or report it as failed.    *)
ReconcileWithProcessor ==
  /\ report = NoReport
  /\ \E reported \in SUBSET {<<t[1], ok>> : t \in trail, ok \in BOOLEAN} :
       \E last \in Lasts(reported) : report' = Reconcile(Completed, reported, last)
  /\ UNCHANGED <<refund, dispute, evidence, policies, trail, refundRequest, refundCalls,
                 transactions>>

Next ==
  \/ \E q \in RefundRequests :
       \/ \E f \in RefundIds :
            \/ \E auto \in BOOLEAN : CreateRefund(q, f, auto)
            \/ ProcessRefund(q, f) \/ FailRefund(q, f) \/ ReverseRefund(q, f)
       \/ CreateDispute(q) \/ SavePolicy(q) \/ Store(q)
       \/ AutoProcess(q) \/ SaveProcessing(q) \/ AuditTransaction(q) \/ SaveCompleted(q)
       \/ SaveRefund(q)
       \/ \E status \in {"RESPONDING", "WON"} : UpdateDispute(q, status)
       \/ \E e \in EvidenceIds : UploadEvidence(q, e)
       \/ CountEvidence(q) \/ SaveDispute(q) \/ Throw(q)
  \/ ReconcileWithProcessor

-----------------------------------------------------------------------------
(* The rows are well formed. *)
TypeOK ==
  /\ refund \in [RefundIds -> Refund]
  /\ dispute \in Dispute
  /\ evidence \subseteq EvidenceIds
  /\ policies \in Nat /\ transactions \in Nat
  /\ trail \subseteq RefundIds \X (1..transactions)

(* The transaction that a refund's row names is in the audit trail for this *)
(* refund, whatever throws and whatever stale row is saved.                 *)
HashesAreAudited ==
  \A f \in RefundIds : refund[f].hash # NoHash => <<f, refund[f].hash>> \in trail

(* Only requests that overlap pay a refund twice or make a second policy:   *)
(* once it is stored that one of them was there, later ones are refused.    *)
OnlyOverlapsDuplicate ==
  /\ \A f \in RefundIds :
       Cardinality({t \in trail : t[1] = f}) <= Cardinality(RefundRequests)
  /\ policies <= Cardinality(RefundRequests)

(* A dispute never counts more evidence than is stored. *)
EvidenceIsStored == dispute.evidenceCount <= Cardinality(evidence)

(* A reconciliation without discrepancies has seen the same refunds on both *)
(* sides; it does not see a refund that was paid twice.                     *)
CleanReportsAgree ==
  report.unmatched \cup report.discrepancies = {} =>
    report.completed = {t[1] : t \in report.reported}
=============================================================================
