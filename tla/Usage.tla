------------------------------- MODULE Usage -------------------------------
(***************************************************************************)
(* Metered usage of a subscription: a client asks whether a quantity is     *)
(* within the plan's limit, and records it if so; recording does not look.  *)
(* Quantities are decimal columns, which the driver returns as text, and    *)
(* adding text to a number appends it.                                      *)
(***************************************************************************)
EXTENDS Integers, FiniteSets, FiniteSetsExt

CONSTANTS
  UsageIds,       \* bound: usage records
  Meters,         \* bound: clients
  Quantities,     \* quantities a client may record
  UsageLimit,     \* plan.limits[metricId], above 0
  LastPeriod      \* bound: billing periods

VARIABLES
  usage,      \* subscription_usage: period and quantity of each record
  meters,     \* clients: what they have been told of a quantity
  period,     \* the subscription's current period
  checksMet   \* for the properties: a client asked while another was to record

usageVars == <<usage, meters, period, checksMet>>

NoUsage == [quantity |-> 0, period |-> 0]
Init ==
  /\ usage = [u \in UsageIds |-> NoUsage]
  /\ meters = [m \in Meters |-> [pc |-> "idle"]]
  /\ period = 1
  /\ checksMet = FALSE

Recorded(p) == {u \in UsageIds : usage[u] # NoUsage /\ usage[u].period = p}
Total(p) == MapThenSumSet(LAMBDA u : usage[u].quantity, Recorded(p))

(* Slip: more than the limit is asked for instead of within it. *)
WithinLimit_NotAbove(q) ==
  LET records == Recorded(period) IN
  CASE Cardinality(records) = 0 -> q <= UsageLimit
    [] Cardinality(records) = 1 -> Total(period) < UsageLimit
    [] OTHER -> TRUE

(* currentUsage is 0, or the text "0" with each quantity appended: one      *)
(* record reads as its quantity, with what is asked for behind its last     *)
(* decimal; two have two points, are no number, and compare as FALSE.       *)
WithinLimit(q) ==
  LET records == Recorded(period) IN
  CASE Cardinality(records) = 0 -> q <= UsageLimit
    [] Cardinality(records) = 1 -> Total(period) < UsageLimit
    [] OTHER -> FALSE

CheckUsageLimits(m, q) ==
  /\ meters[m].pc = "idle"
  /\ WithinLimit(q)
  /\ meters' = [meters EXCEPT ![m] = [pc |-> "allowed", quantity |-> q, period |-> period]]
  /\ checksMet' = (checksMet \/ \E n \in Meters : meters[n].pc = "allowed")
  /\ UNCHANGED <<usage, period>>

(* The record is of the period the client names. *)
RecordUsage(m, u) ==
  /\ meters[m].pc = "allowed"
  /\ usage[u] = NoUsage
  /\ usage' = [usage EXCEPT ![u] = [quantity |-> meters[m].quantity, period |-> meters[m].period]]
  /\ meters' = [meters EXCEPT ![m] = [pc |-> "idle"]]
  /\ UNCHANGED <<period, checksMet>>

DeleteUsageRecord(u) ==
  /\ usage[u] # NoUsage
  /\ usage' = [usage EXCEPT ![u] = NoUsage]
  /\ UNCHANGED <<meters, period, checksMet>>

(* A payment starts the next period. *)
NextPeriod ==
  /\ period < LastPeriod
  /\ period' = period + 1
  /\ UNCHANGED <<usage, meters, checksMet>>

Next ==
  \/ NextPeriod
  \/ \E m \in Meters : \/ \E q \in Quantities : CheckUsageLimits(m, q)
                       \/ \E u \in UsageIds : RecordUsage(m, u)
  \/ \E u \in UsageIds : DeleteUsageRecord(u)

-----------------------------------------------------------------------------
(* Records have a quantity and a period that has begun. *)
TypeOK ==
  \A u \in UsageIds : usage[u] = NoUsage \/ (usage[u].quantity \in Quantities /\ usage[u].period \in 1..period)

(* Clients that ask one after another exceed the limit of a period by less  *)
(* than one quantity, records being deleted in between or not: the check is *)
(* lenient once, after the first record, and refuses from the second on.    *)
OvershootsByOneRecord ==
  ~checksMet =>
    \A p \in 1..period : \E q \in Quantities : Total(p) < UsageLimit + q
=============================================================================
