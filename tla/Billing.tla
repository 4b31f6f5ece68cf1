------------------------------ MODULE Billing ------------------------------
(***************************************************************************)
(* Subscription billing: the subscriptions and their Bull queues.  A       *)
(* handler reads the subscription's row, changes its copy and then runs a  *)
(* list of awaited steps; handlers overlap between the steps, each saves   *)
(* the whole copy it read, and a step may throw.  A period is one day      *)
(* long.  The module registers a processor for the payment queue only:     *)
(* TrialProcessor and ResumeProcessor are no providers, so the jobs that   *)
(* end trials and pauses are queued and never taken.                       *)
(***************************************************************************)
EXTENDS Integers, Sequences, FiniteSets

CONSTANTS
  Subscriptions,
  ApiCalls,       \* bound: API requests handled at a time
  JobIds, NoJob,  \* bound: jobs in the queues
  Attempts,       \* of a job: 3 in the code
  BillingLastDay, \* bound: days
  UpdateStatuses, \* bound: statuses updateSubscription is asked to set
  MaxApiCalls     \* bound: API requests made

VARIABLES
  subscription,  \* the rows of table subscriptions
  invoiced,      \* the cycles a subscription has a recurring invoice for
  job,           \* the jobs of queue subscription-payments
  parked,        \* <<queue, subscription>>: has jobs in a queue without processor
  handler,       \* the calls in progress
  today,
  calls          \* API requests made so far

billingVars == <<subscription, invoiced, job, parked, handler, today, calls>>

Processor == "processor"            \* runs a payment job at a time
Handlers == {Processor} \cup ApiCalls

SubscriptionStatus ==
  {"ACTIVE", "TRIALING", "PAST_DUE", "CANCELLED", "PAUSED", "COMPLETED"}

Row == [status : SubscriptionStatus \cup {"none"}, periodEnd : Int, trialEnd : Int, cancelAtPeriodEnd : BOOLEAN, cycles : Nat]

NoRow == [status |-> "none", periodEnd |-> 0, trialEnd |-> 0, cancelAtPeriodEnd |-> FALSE, cycles |-> 0]

Job == [of : Subscriptions, due : Int, tries : 0..Attempts - 1, active : BOOLEAN]

Steps == {"invoice", "save", "schedulePayment", "scheduleTrialEnd", "scheduleResume",
          "unschedule", "cancel"}

(* A call: what it is and which subscription it is about, the status it     *)
(* read, the copy of the row it saves, the steps it has left, the day it    *)
(* resumes a pause on and the job it runs.                                  *)
Idle == [op |-> "none", of |-> CHOOSE s \in Subscriptions : TRUE, seen |-> "none", copy |-> NoRow,
         todo |-> <<>>, resumeAt |-> 0, job |-> NoJob]

Call == [op : {"none", "update", "other"}, of : Subscriptions, seen : SubscriptionStatus \cup {"none"}, copy : Row,
         todo : Seq(Steps), resumeAt : Int, job : JobIds \cup {NoJob}]

BillingInit ==
  /\ subscription = [s \in Subscriptions |-> NoRow]
  /\ invoiced = [s \in Subscriptions |-> {}]
  /\ job = [j \in JobIds |-> NoJob]
  /\ parked = {}
  /\ handler = [h \in Handlers |-> Idle]
  /\ today = 1
  /\ calls = 0

-----------------------------------------------------------------------------
CalculateNextBillingDate(date) == date + 1

(* The call is accepted: its handler has read the row and goes on.          *)
Begin(op, h, s, copy, todo, resumeAt, j) ==
  /\ handler[h].todo = <<>>
  /\ handler' = [handler EXCEPT ![h] =
       [op |-> op, of |-> s, seen |-> subscription[s].status, copy |-> copy, todo |-> todo,
        resumeAt |-> resumeAt, job |-> j]]
  /\ job' = IF j = NoJob THEN job ELSE [job EXCEPT ![j].active = TRUE]
  /\ UNCHANGED <<subscription, invoiced, parked, today>>

CreateSubscription(h, s, trial) ==
  LET start == IF trial THEN CalculateNextBillingDate(today) ELSE today IN
  /\ subscription[s].status = "none"
  /\ \A other \in Handlers : handler[other].todo # <<>> => handler[other].of # s
  /\ Begin("other", h, s,
       [status |-> IF trial THEN "TRIALING" ELSE "ACTIVE",
        periodEnd |-> CalculateNextBillingDate(start), trialEnd |-> start,
        cancelAtPeriodEnd |-> FALSE, cycles |-> 0],
       <<"save", IF trial THEN "scheduleTrialEnd" ELSE "schedulePayment">>, 0, NoJob)

Stored(s) == subscription[s].status # "none"

(* updateSubscription, changePlan included: any status may be set, and the  *)
(* new plan has to exist.                                                   *)
UpdateSubscription(h, s, atEnd, status) ==
  /\ Stored(s)
  /\ Begin("update", h, s, [subscription[s] EXCEPT !.cancelAtPeriodEnd = atEnd,
                                         !.status = status], <<"save">>, 0, NoJob)

CancelSubscription(h, s, atEnd) ==
  /\ Stored(s)
  /\ subscription[s].status # "CANCELLED"
  /\ IF atEnd
     THEN Begin("other", h, s, [subscription[s] EXCEPT !.cancelAtPeriodEnd = TRUE], <<"save">>, 0, NoJob)
     ELSE Begin("other", h, s, [subscription[s] EXCEPT !.status = "CANCELLED"],
                <<"unschedule", "save">>, 0, NoJob)

(* Slip: a cancelled subscription may be paused. *)
PauseAny(h, s, resumeAt) ==
  /\ Stored(s)
  /\ subscription[s].status # "PAUSED"
  /\ Begin("other", h, s, [subscription[s] EXCEPT !.status = "PAUSED"],
       IF resumeAt = 0 THEN <<"unschedule", "save">>
                       ELSE <<"scheduleResume", "unschedule", "save">>, resumeAt, NoJob)

(* resumeAt 0 is a pause without an end. *)
PauseSubscription(h, s, resumeAt) ==
  /\ Stored(s)
  /\ subscription[s].status \notin {"PAUSED", "CANCELLED"}
  /\ Begin("other", h, s, [subscription[s] EXCEPT !.status = "PAUSED"],
       IF resumeAt = 0 THEN <<"unschedule", "save">>
                       ELSE <<"scheduleResume", "unschedule", "save">>, resumeAt, NoJob)

ResumeSubscription(h, s, resumeAt) ==
  /\ subscription[s].status = "PAUSED"
  /\ Begin("other", h, s, [subscription[s] EXCEPT !.status = "ACTIVE",
                    !.periodEnd = CalculateNextBillingDate(resumeAt)],
           <<"save", "schedulePayment">>, 0, NoJob)

(* Slip: the period is advanced before the invoice is made. *)
PayBeforeInvoice(row) ==
  IF row.cancelAtPeriodEnd THEN <<"save", "invoice", "cancel">>
                           ELSE <<"save", "invoice", "schedulePayment">>

PaySteps(row) ==
  IF row.cancelAtPeriodEnd THEN <<"invoice", "save", "cancel">>
                           ELSE <<"invoice", "save", "schedulePayment">>

ProcessSubscriptionPayment(h, s, j) ==
  /\ Stored(s)
  /\ subscription[s].status \notin {"CANCELLED", "PAUSED"}
  /\ Begin("other", h, s, [subscription[s] EXCEPT !.cycles = @ + 1,
                    !.periodEnd = CalculateNextBillingDate(@)],
           PaySteps(subscription[s]), 0, j)

-----------------------------------------------------------------------------
(* The next step of a call; a call whose last step is done is over, and so  *)
(* is its job.                                                              *)
Step(h, name) == handler[h].todo # <<>> /\ Head(handler[h].todo) = name

Over(h, jobs) ==
  IF handler[h].job = NoJob THEN jobs ELSE [jobs EXCEPT ![handler[h].job] = NoJob]

Continue(h, jobs) ==
  LET rest == Tail(handler[h].todo) IN
  IF rest = <<>>
  THEN job' = Over(h, jobs) /\ handler' = [handler EXCEPT ![h] = Idle]
  ELSE job' = jobs /\ handler' = [handler EXCEPT ![h].todo = rest]

(* createRecurringInvoice, for the cycle after the ones counted. *)
Invoice(h) ==
  /\ Step(h, "invoice")
  /\ invoiced' = [invoiced EXCEPT ![handler[h].of] = @ \cup {handler[h].copy.cycles}]
  /\ Continue(h, job)
  /\ UNCHANGED <<subscription, parked, today>>

Save(h) ==
  /\ Step(h, "save")
  /\ subscription' = [subscription EXCEPT ![handler[h].of] = handler[h].copy]
  /\ Continue(h, job)
  /\ UNCHANGED <<invoiced, parked, today>>

(* A date that is not in the future schedules nothing. *)
ScheduleNextPayment(h) ==
  LET due == handler[h].copy.periodEnd IN
  /\ Step(h, "schedulePayment")
  /\ IF due > today
     THEN \E j \in {i \in JobIds : job[i] = NoJob} :
            Continue(h, [job EXCEPT ![j] = [of |-> handler[h].of, due |-> due,
                                            tries |-> 0, active |-> FALSE]])
     ELSE Continue(h, job)
  /\ UNCHANGED <<subscription, invoiced, parked, today>>

Park(h, queue, due) ==
  /\ parked' = IF due > today THEN parked \cup {<<queue, handler[h].of>>} ELSE parked
  /\ Continue(h, job)
  /\ UNCHANGED <<subscription, invoiced, today>>

ScheduleTrialEnd(h) ==
  Step(h, "scheduleTrialEnd") /\ Park(h, "trial", handler[h].copy.trialEnd)
ScheduleResume(h) ==
  Step(h, "scheduleResume") /\ Park(h, "resume", handler[h].resumeAt)

(* The waiting and delayed payment jobs are removed one by one; an error    *)
(* ends that early and is swallowed.  A job being processed stays.          *)
CancelScheduledPayments(h) ==
  /\ Step(h, "unschedule")
  /\ \E removed \in SUBSET {j \in JobIds :
         job[j] # NoJob /\ job[j].of = handler[h].of /\ ~job[j].active} :
       Continue(h, [j \in JobIds |-> IF j \in removed THEN NoJob ELSE job[j]])
  /\ UNCHANGED <<subscription, invoiced, parked, today>>

(* cancelSubscription at the end of a period: it reads the row again and    *)
(* throws when that is cancelled by now.                                    *)
CancelAtPeriodEnd(h) ==
  LET s == handler[h].of IN
  /\ Step(h, "cancel")
  /\ subscription[s].status # "CANCELLED"
  /\ handler' = [handler EXCEPT ![h] = [@ EXCEPT !.seen = subscription[s].status,
       !.copy = [subscription[s] EXCEPT !.status = "CANCELLED"],
       !.todo = <<"unschedule", "save">>]]
  /\ UNCHANGED <<subscription, invoiced, job, parked, today>>

-----------------------------------------------------------------------------
(* Slip: a failed attempt is not counted. *)
RetryUncounted(jobs, j) == [jobs EXCEPT ![j].active = FALSE]

(* Bull retries a job that threw until its attempts are used up. *)
Retry(jobs, j) ==
  IF jobs[j].tries + 1 < Attempts
  THEN [jobs EXCEPT ![j].tries = @ + 1, ![j].active = FALSE]
  ELSE [jobs EXCEPT ![j] = NoJob]

(* An await of a call throws: what it did stays done. *)
Throw(h) ==
  /\ handler[h].todo # <<>>
  /\ job' = IF handler[h].job = NoJob THEN job ELSE Retry(job, handler[h].job)
  /\ handler' = [handler EXCEPT ![h] = Idle]
  /\ UNCHANGED <<subscription, invoiced, parked, today>>

(* The processor takes a due job; a subscription that is cancelled or       *)
(* paused by now makes the attempt fail at once.                            *)
HandlePaymentProcess(j) ==
  /\ handler[Processor].job = NoJob
  /\ job[j] # NoJob /\ job[j].due <= today
  /\ \/ ProcessSubscriptionPayment(Processor, job[j].of, j)
     \/ /\ subscription[job[j].of].status \in {"CANCELLED", "PAUSED"}
        /\ job' = Retry(job, j)
        /\ UNCHANGED <<subscription, invoiced, parked, handler, today>>

Tick ==
  /\ today < BillingLastDay
  /\ today' = today + 1
  /\ UNCHANGED <<subscription, invoiced, job, parked, handler, calls>>

-----------------------------------------------------------------------------
ApiCall(h) ==
  /\ calls < MaxApiCalls
  /\ calls' = calls + 1
  /\ \E s \in Subscriptions :
       \/ \E trial \in BOOLEAN : CreateSubscription(h, s, trial)
       \/ \E atEnd \in BOOLEAN, status \in UpdateStatuses \cup {subscription[s].status} :
            UpdateSubscription(h, s, atEnd, status)
       \/ \E atEnd \in BOOLEAN : CancelSubscription(h, s, atEnd)
       \/ \E at \in {0, today + 1} : PauseSubscription(h, s, at)
       \/ \E at \in {today, today + 1} : ResumeSubscription(h, s, at)
       \/ ProcessSubscriptionPayment(h, s, NoJob)

Progress(h) ==
  /\ UNCHANGED calls
  /\ \/ Invoice(h) \/ Save(h) \/ ScheduleNextPayment(h) \/ ScheduleTrialEnd(h)
     \/ ScheduleResume(h) \/ CancelScheduledPayments(h) \/ CancelAtPeriodEnd(h)
     \/ Throw(h)

RunJob == UNCHANGED calls /\ \E j \in JobIds : HandlePaymentProcess(j)

BillingNext ==
  \/ \E h \in ApiCalls : ApiCall(h)
  \/ \E h \in Handlers : Progress(h)
  \/ RunJob
  \/ Tick

BillingSpec == BillingInit /\ [][BillingNext]_billingVars

(* A call in progress goes on and the processor takes the jobs that are due. *)
BillingFair ==
  /\ \A h \in Handlers : WF_billingVars(Progress(h))
  /\ WF_billingVars(RunJob)

-----------------------------------------------------------------------------
(* Rows, jobs and calls are well formed, and a job is active exactly while  *)
(* the processor runs it.                                                   *)
BillingTypeOK ==
  /\ subscription \in [Subscriptions -> Row]
  /\ \A s \in Subscriptions : invoiced[s] \subseteq Nat
  /\ \A j \in JobIds : job[j] # NoJob => job[j] \in Job
  /\ parked \subseteq {"trial", "resume"} \X Subscriptions
  /\ handler \in [Handlers -> Call]
  /\ today \in 1..BillingLastDay
  /\ \A j \in JobIds : job[j] # NoJob =>
       (job[j].active <=> handler[Processor].job = j)

(* Every cycle a subscription counts as billed has an invoice, whatever     *)
(* calls overlap or throw: an invoice is made before the cycle is counted,  *)
(* and a stale copy never counts a cycle nobody invoiced.                   *)
CountedCyclesAreInvoiced ==
  \A s \in Subscriptions : 1..subscription[s].cycles \subseteq invoiced[s]

(* A cancelled subscription comes back only by the save of a call that read *)
(* the row before the cancellation was saved, or by an update that sets the *)
(* status: no call that sees CANCELLED revives it.                          *)
RevivedOnlyByStaleCalls ==
  [][\A s \in Subscriptions :
       subscription[s].status = "CANCELLED" /\ subscription'[s].status # "CANCELLED" =>
         \E h \in Handlers :
           /\ Step(h, "save") /\ handler[h].of = s
           /\ handler[h].seen # "CANCELLED" \/ handler[h].op = "update"]_subscription

(* A payment job that is due leaves its queue: it is processed, or its      *)
(* attempts run out.                                                        *)
DueJobsEnd ==
  \A j \in JobIds :
    (job[j] # NoJob /\ job[j].due <= today) ~> (job[j] = NoJob \/ job[j].due > today)
=============================================================================
