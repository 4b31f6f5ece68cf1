------------------------------- MODULE MCJobs -------------------------------
(***************************************************************************)
(* The parts that retry: the relayer, the watcher of the MVP, the queue of *)
(* payment jobs, the webhook queue and the two notification queues.  They  *)
(* share no state (the notification queues share the bound on what breaks, *)
(* and nothing else), so one run checks them side by side: "part" says,    *)
(* from the first state on, which of them moves.                           *)
(***************************************************************************)
EXTENDS Relayer, Sequences, FiniteSets

CONSTANTS
  Ids, Runs, NoAmount, NoMemo, DemoTx, Window, MaxTxs, MaxFailures,
  ManualFallback, MayCrash,
  Subscriptions, ApiCalls, JobIds, NoJob, Attempts, BillingLastDay,
  UpdateStatuses, MaxApiCalls,
  Events, HookJobIds, NoHookJob, HookRetries, HookAttempts, MaxFaults, MaxReplays,
  Notices, NoticeRetries, MailAttempts, MaxOperatorCalls, MaxBreaks

VARIABLES
  part,
  file, parsable, writers, overlaid, ledger, quoted, api, run, failures,
  subscription, invoiced, job, parked, handler, today, calls,
  hook, event, answers, hookJob, worker, trigger, faults, replays,
  endpoint, delivery, attempts, accepted, poster, operator, mail,
  operatorCalls, breaks

C == INSTANCE Checkout
B == INSTANCE Billing
W == INSTANCE Webhook WITH MaxRetries <- HookRetries
N == INSTANCE Notifications

ASSUME CheckoutAssumption == C!ConstantsAssumption
ASSUME BillingAssumption ==
  /\ Subscriptions # {}
  /\ B!Processor \notin ApiCalls
  /\ NoJob \notin JobIds /\ NoJob \notin B!Job
  /\ Attempts \in Nat \ {0} /\ BillingLastDay \in Nat \ {0}
  /\ UpdateStatuses \subseteq B!SubscriptionStatus
ASSUME WebhookAssumption ==
  /\ HookRetries \in Nat /\ HookAttempts \in Nat \ {0}
  /\ NoHookJob \notin [of : Events, tries : 0..HookAttempts - 1]
ASSUME NoticesAssumption == NoticeRetries \in Nat /\ MailAttempts \in Nat

Parts == {"relayer", "checkout", "billing", "webhook", "notices", "mails"}

relayerVars == vars
checkoutVars ==
  <<file, parsable, writers, overlaid, ledger, quoted, api, run, failures>>
billingVars == <<subscription, invoiced, job, parked, handler, today, calls>>
webhookVars == <<hook, event, answers, hookJob, worker, trigger, faults, replays>>
noticeVars ==
  <<endpoint, delivery, attempts, accepted, poster, operator, mail,
    operatorCalls, breaks>>
jobsVars == <<part, relayerVars, checkoutVars, billingVars, webhookVars, noticeVars>>

JobsInit ==
  /\ part \in Parts
  /\ Init /\ C!Init /\ B!BillingInit /\ W!Init /\ N!Init
  /\ part = "relayer" \/ now = 1

JobsNext ==
  /\ UNCHANGED part
  /\ \/ /\ part = "relayer" /\ Next
        /\ UNCHANGED <<checkoutVars, billingVars, webhookVars, noticeVars>>
     \/ /\ part = "checkout" /\ C!Next
        /\ UNCHANGED <<relayerVars, billingVars, webhookVars, noticeVars>>
     \/ /\ part = "billing" /\ B!BillingNext
        /\ UNCHANGED <<relayerVars, checkoutVars, webhookVars, noticeVars>>
     \/ /\ part = "webhook" /\ W!Next
        /\ UNCHANGED <<relayerVars, checkoutVars, billingVars, noticeVars>>
     \/ /\ part = "notices" /\ N!Next
        /\ UNCHANGED <<relayerVars, checkoutVars, billingVars, webhookVars, mail>>
     \/ /\ part = "mails" /\ N!Next
        /\ UNCHANGED <<relayerVars, checkoutVars, billingVars, webhookVars,
                       endpoint, delivery, attempts, accepted, poster, operator>>

(* The fairness of each module, asked of the part that moves. *)
JobsFair ==
  /\ \A r \in Requests : WF_relayerVars(part = "relayer" /\ Step(r))
  /\ \A r \in Runs : WF_checkoutVars(part = "checkout" /\ C!RunStep(r))
  /\ WF_checkoutVars(part = "checkout" /\ (C!CreateTruncate \/ C!CreateWrite))
  /\ \A h \in B!Handlers : WF_billingVars(part = "billing" /\ B!Progress(h))
  /\ WF_billingVars(part = "billing" /\ B!RunJob)
  /\ WF_webhookVars(part = "webhook" /\ W!Work)
  /\ WF_noticeVars(part = "notices" /\ N!Deliver)
  /\ WF_noticeVars(part = "mails" /\ N!HandleEmailDelivery)

JobsSpec == JobsInit /\ [][JobsNext]_jobsVars /\ JobsFair

-----------------------------------------------------------------------------
(* The rows, queues and handlers of all parts are well formed. *)
TypesOK ==
  /\ TypeOK
  /\ C!TypeOK
  /\ B!BillingTypeOK
  /\ W!TypeOK
  /\ N!TypeOK

(* Every recorded payment that Horizon shows is marked PAID in the end. *)
PaidEventually == C!PaidEventually

(* What is recorded as done was done: a cycle that was counted has its      *)
(* invoice, and a webhook event marked as delivered was answered.           *)
RecordedWasDone ==
  /\ B!CountedCyclesAreInvoiced
  /\ W!DeliveredMeansAnswered

(* A notification or a mail goes out twice only if something broke. *)
NothingSentTwiceUnlessBroken == N!NothingSentTwiceUnlessBroken

(* What was stopped, a cancelled subscription or a disabled endpoint, goes  *)
(* on by a request for it or by the save of a row read before it was        *)
(* stopped, and by nothing else.                                            *)
RevivedOnlyByStaleSaves ==
  /\ B!RevivedOnlyByStaleCalls
  /\ N!RevivedOnlyByStaleSave

(* All work ends, whatever fails and is retried: a relay request answers, a *)
(* payment job that is due leaves its queue, a queued webhook event and a   *)
(* notification are delivered or given up.                                  *)
WorkEnds ==
  /\ RequestsEnd
  /\ B!DueJobsEnd
  /\ W!QueuedEventsSettle
  /\ N!NoticesSettle
=============================================================================
