------------------------------- MODULE Plans -------------------------------
(***************************************************************************)
(* Plans, the change of a subscription's plan with its prorated invoice,    *)
(* and what a merchant does to an invoice.  Every call reads a row, awaits, *)
(* and saves the row it read whole.  Amounts are decimal columns, which the *)
(* driver returns as text: they compare as text and subtract as numbers.    *)
(***************************************************************************)
EXTENDS Integers, FiniteSets

CONSTANTS
  PlanIds,         \* bound: plans
  PlanAmounts,     \* bound: amounts of plans, below 1000
  PlanCalls,       \* bound: calls under way at once
  InvoiceIds,      \* bound: invoices 1..n
  DaysInPeriod,    \* days of a billing period
  MaxPlanCalls     \* bound: calls

VARIABLES
  plans,        \* subscription_plans: status, amount
  subscriber,   \* the subscription's plan and currentAmount
  invoices,     \* subscription_invoices
  planCalls,    \* calls under way, with the row they read
  today,        \* days since the period began
  plansMade,    \* calls made so far
  planNotes     \* for the properties: amounts plans had, changes saved, what crossed

plansVars == <<plans, subscriber, invoices, planCalls, today, plansMade, planNotes>>

NoInvoice == [status |-> "none"]
NoPlanCall == [pc |-> "none"]

(* How "20.00000000" compares: digit by digit from the left. *)
Digits(n) == IF n < 10 THEN n * 100 ELSE IF n < 100 THEN n * 10 ELSE n
TextAbove(a, b) == Digits(a) > Digits(b) \/ (Digits(a) = Digits(b) /\ a > b)

Init ==
  /\ plans \in [PlanIds -> [status : {"ACTIVE"}, amount : PlanAmounts]]
  /\ \E p \in PlanIds : subscriber = [plan |-> p, amount |-> plans[p].amount]
  /\ invoices = [i \in InvoiceIds |-> NoInvoice]
  /\ planCalls = [c \in PlanCalls |-> NoPlanCall]
  /\ today = 0
  /\ plansMade = 0
  /\ planNotes = [amounts |-> [p \in PlanIds |-> {plans[p].amount}], changes |-> 0, crossed |-> {}]

(* getDaysBetween takes the absolute difference: after the period has ended *)
(* the days since then remain.                                              *)
DaysRemaining == IF today <= DaysInPeriod THEN DaysInPeriod - today ELSE today - DaysInPeriod

(* calculateProration for the whole period: its sign is all that is kept.   *)
Prorated(old, new) ==
  IF TextAbove(new, old) THEN (new - old) * DaysRemaining ELSE (old - new) * DaysRemaining

-----------------------------------------------------------------------------
Begin(c, call) ==
  /\ planCalls[c] = NoPlanCall /\ plansMade < MaxPlanCalls
  /\ planCalls' = [planCalls EXCEPT ![c] = call]
  /\ plansMade' = plansMade + 1
  /\ planNotes' = [planNotes EXCEPT !.crossed = @ \cup
                     IF \E d \in PlanCalls : planCalls[d] # NoPlanCall THEN {"overlap"} ELSE {}]

End(c) == planCalls' = [planCalls EXCEPT ![c] = NoPlanCall]

(* updatePlan, archivePlan, activatePlan, deactivatePlan.                   *)
EditPlan(c, p) ==
  /\ \E status \in {"ACTIVE", "ARCHIVED"}, amount \in PlanAmounts :
       /\ \/ status = plans[p].status /\ amount # plans[p].amount
          \/ status # plans[p].status /\ amount = plans[p].amount
       /\ Begin(c, [pc |-> "plan", plan |-> p, row |-> [status |-> status, amount |-> amount]])
  /\ UNCHANGED <<plans, subscriber, invoices, today>>

SavePlan(c) ==
  /\ planCalls[c].pc = "plan"
  /\ plans' = [plans EXCEPT ![planCalls[c].plan] = planCalls[c].row]
  /\ planNotes' = [planNotes EXCEPT !.amounts[planCalls[c].plan] = @ \cup {planCalls[c].row.amount}]
  /\ End(c)
  /\ UNCHANGED <<subscriber, invoices, today, plansMade>>

(* getSubscription reads the plan with the row; a plan may be archived, or  *)
(* another merchant's: changePlan does not look.                            *)
UpdateSubscription(c, p) ==
  /\ p # subscriber.plan
  /\ Begin(c, [pc |-> "loaded", new |-> p, old |-> plans[subscriber.plan].amount])
  /\ UNCHANGED <<plans, subscriber, invoices, today>>

(* Slip: the amount of the old plan is kept. *)
ChangePlan_KeepAmount(c) ==
  /\ planCalls[c].pc = "loaded"
  /\ LET call == planCalls[c]  new == plans[call.new].amount IN
       /\ planCalls' = [planCalls EXCEPT ![c] =
                          [pc |-> "changed", row |-> [plan |-> call.new, amount |-> call.old]]]
       /\ IF Prorated(call.old, new) > 0
            THEN \E i \in InvoiceIds :
                   /\ invoices[i] = NoInvoice /\ \A j \in InvoiceIds : j < i => invoices[j] # NoInvoice
                   /\ invoices' = [invoices EXCEPT ![i] = [status |-> "PENDING", old |-> call.old, new |-> new]]
            ELSE UNCHANGED invoices
  /\ UNCHANGED <<plans, subscriber, today, plansMade, planNotes>>

(* Slip: the invoice is made again when its answer is slow. *)
ChangePlan_Twice(c) ==
  /\ planCalls[c].pc = "loaded"
  /\ LET call == planCalls[c]  new == plans[call.new].amount IN
       /\ \/ planCalls' = [planCalls EXCEPT ![c] =
                             [pc |-> "changed", row |-> [plan |-> call.new, amount |-> new]]]
          \/ UNCHANGED planCalls
       /\ IF Prorated(call.old, new) > 0
            THEN \E i \in InvoiceIds :
                   /\ invoices[i] = NoInvoice /\ \A j \in InvoiceIds : j < i => invoices[j] # NoInvoice
                   /\ invoices' = [invoices EXCEPT ![i] = [status |-> "PENDING", old |-> call.old, new |-> new]]
            ELSE UNCHANGED invoices
  /\ UNCHANGED <<plans, subscriber, today, plansMade, planNotes>>

(* A positive proration is an invoice, up or down; both flags are on, their *)
(* default.  The change itself is not saved yet.                            *)
ChangePlan(c) ==
  /\ planCalls[c].pc = "loaded"
  /\ LET call == planCalls[c]  new == plans[call.new].amount IN
       /\ planCalls' = [planCalls EXCEPT ![c] =
                          [pc |-> "changed", row |-> [plan |-> call.new, amount |-> new]]]
       /\ IF Prorated(call.old, new) > 0
            THEN \E i \in InvoiceIds :
                   /\ invoices[i] = NoInvoice /\ \A j \in InvoiceIds : j < i => invoices[j] # NoInvoice
                   /\ invoices' = [invoices EXCEPT ![i] = [status |-> "PENDING", old |-> call.old, new |-> new]]
            ELSE UNCHANGED invoices
  /\ UNCHANGED <<plans, subscriber, today, plansMade, planNotes>>

SaveChange(c) ==
  /\ planCalls[c].pc = "changed"
  /\ subscriber' = planCalls[c].row
  /\ planNotes' = [planNotes EXCEPT !.changes = @ + 1]
  /\ End(c)
  /\ UNCHANGED <<plans, invoices, today, plansMade>>

(* Slip: an invoice is retried in any status. *)
EditInvoice_AnyRetry(c, i, to) ==
  /\ invoices[i] # NoInvoice
  /\ \/ to = "PROCESSING"
     \/ to = "VOID" /\ invoices[i].status \notin {"PAID", "REFUNDED"}
  /\ Begin(c, [pc |-> "invoice", id |-> i, row |-> [invoices[i] EXCEPT !.status = to]])
  /\ UNCHANGED <<plans, subscriber, invoices, today>>

(* markInvoiceAsProcessing, for a retry, and voidInvoice.  Nothing calls    *)
(* markInvoiceAsPaid, so none is PAID, and refundInvoice always refuses.    *)
EditInvoice(c, i, to) ==
  /\ invoices[i] # NoInvoice
  /\ \/ to = "PROCESSING" /\ invoices[i].status = "PENDING"
     \/ to = "VOID" /\ invoices[i].status \notin {"PAID", "REFUNDED"}
  /\ Begin(c, [pc |-> "invoice", id |-> i, row |-> [invoices[i] EXCEPT !.status = to]])
  /\ UNCHANGED <<plans, subscriber, invoices, today>>

SaveInvoice(c) ==
  /\ planCalls[c].pc = "invoice"
  /\ invoices' = [invoices EXCEPT ![planCalls[c].id] = planCalls[c].row]
  /\ End(c)
  /\ UNCHANGED <<plans, subscriber, today, plansMade, planNotes>>

(* The database fails: the call ends where it is. *)
Throw(c) ==
  /\ planCalls[c] # NoPlanCall
  /\ planNotes' = [planNotes EXCEPT !.crossed = @ \cup {"thrown"}]
  /\ End(c)
  /\ UNCHANGED <<plans, subscriber, invoices, today, plansMade>>

Day ==
  /\ today < DaysInPeriod + 1
  /\ today' = today + 1
  /\ UNCHANGED <<plans, subscriber, invoices, planCalls, plansMade, planNotes>>

Next ==
  \/ Day
  \/ \E c \in PlanCalls :
       \/ SavePlan(c) \/ ChangePlan(c) \/ SaveChange(c) \/ SaveInvoice(c) \/ Throw(c)
       \/ \E p \in PlanIds : EditPlan(c, p) \/ UpdateSubscription(c, p)
       \/ \E i \in InvoiceIds, to \in {"PROCESSING", "VOID"} : EditInvoice(c, i, to)

-----------------------------------------------------------------------------
Prorations == {i \in InvoiceIds : invoices[i] # NoInvoice}

(* Plans, the subscription and its invoices are well formed. *)
TypeOK ==
  /\ plans \in [PlanIds -> [status : {"ACTIVE", "ARCHIVED"}, amount : PlanAmounts]]
  /\ subscriber \in [plan : PlanIds, amount : PlanAmounts]
  /\ \A i \in Prorations : invoices[i].status \in {"PENDING", "PROCESSING", "VOID"}
  /\ today \in 0..DaysInPeriod + 1

(* What a subscription is billed is an amount that its plan had, however    *)
(* changes of the plan and edits of its price overlap.                      *)
AmountIsOfPlan == subscriber.amount \in planNotes.amounts[subscriber.plan]

(* No change of plan is billed twice, and none that was not made, unless    *)
(* calls overlapped or one threw after its invoice.                         *)
ChangesAreBilledOnce ==
  planNotes.crossed = {} =>
    Cardinality(Prorations) <=
      planNotes.changes + Cardinality({c \in PlanCalls : planCalls[c].pc = "changed"})

(* A voided invoice is open again only when a retry had read it before.     *)
VoidIsFinalAlone ==
  [][\A i \in InvoiceIds :
       invoices[i].status = "VOID" /\ invoices'[i].status # "VOID" =>
         "overlap" \in planNotes.crossed]_plansVars
=============================================================================
