------------------------------ MODULE Webhook ------------------------------
(***************************************************************************)
(* Webhook delivery: an endpoint of a merchant, the events triggered for   *)
(* it, the Bull queue 'webhooks' and its processor.  The processor retries *)
(* an event by queueing it again, and Bull retries a job that threw, up to *)
(* its attempts.  Table webhook_deliveries is kept as the set of answers   *)
(* an event got.  No delivery carries its event's id, so the search for    *)
(* the delivery to move to the dead letter queue finds none.               *)
(***************************************************************************)
EXTENDS Integers

CONSTANTS
  Events,          \* bound: events triggered
  HookJobIds, NoHookJob,  \* bound: jobs in the queue
  MaxRetries,      \* of the endpoint
  HookAttempts,    \* of a job: 3 in the code
  MaxFaults,       \* bound: saves and queue operations that fail
  MaxReplays       \* bound: replays

VARIABLES
  hook,       \* the endpoint's status, "gone" once it is removed
  event,      \* the rows of table webhook_events
  answers,    \* what was delivered of an event: "2xx", or another "answer"
  hookJob,    \* the queue
  worker,     \* the processor
  trigger,    \* the triggers that read an active endpoint and go on
  faults, replays

webhookVars == <<hook, event, answers, hookJob, worker, trigger, faults, replays>>

EventStatus == {"PENDING", "SENDING", "SUCCESS", "RETRYING", "FAILED"}
HookStatus == {"ACTIVE", "INACTIVE", "gone"}
NoEvent == [status |-> "none", retries |-> 0]
Event == [status : EventStatus, retries : Nat] \cup {NoEvent}

Resting == [pc |-> "idle", job |-> NoHookJob, copy |-> NoEvent]
WorkerState ==
  [pc : {"idle", "sending", "delivering", "succeeded", "failed", "requeue"},
   job : HookJobIds \cup {NoHookJob}, copy : Event]

Init ==
  /\ hook = "ACTIVE"
  /\ event = [e \in Events |-> NoEvent]
  /\ answers = [e \in Events |-> {}]
  /\ hookJob = [j \in HookJobIds |-> NoHookJob]
  /\ worker = Resting
  /\ trigger = [e \in Events |-> "none"]
  /\ faults = 0 /\ replays = 0

Fault == faults < MaxFaults /\ faults' = faults + 1

-----------------------------------------------------------------------------
(* update, activate, deactivate and remove. *)
SetHook(status) ==
  /\ hook # "gone"
  /\ hook' = status
  /\ UNCHANGED <<event, answers, hookJob, worker, trigger, faults, replays>>

(* trigger reads the active endpoints. *)
Trigger(e) ==
  /\ hook = "ACTIVE"
  /\ trigger[e] = "none"
  /\ trigger' = [trigger EXCEPT ![e] = "read"]
  /\ UNCHANGED <<hook, event, answers, hookJob, worker, faults, replays>>

(* createWebhookEvent saves the endpoint it read and the event: the         *)
(* endpoint is active again, a removed one exists again.                    *)
CreateWebhookEvent(e) ==
  /\ trigger[e] = "read"
  /\ hook' = "ACTIVE"
  /\ event' = [event EXCEPT ![e] = [status |-> "PENDING", retries |-> 0]]
  /\ trigger' = [trigger EXCEPT ![e] = "stored"]
  /\ UNCHANGED <<answers, hookJob, worker, faults, replays>>

AddDeliveryJob(e) ==
  \E j \in HookJobIds :
    /\ hookJob[j] = NoHookJob
    /\ hookJob' = [hookJob EXCEPT ![j] = [of |-> e, tries |-> 0]]

(* The trigger queues its event, or throws and leaves it without a job. *)
QueueEvent(e) ==
  /\ trigger[e] = "stored"
  /\ (AddDeliveryJob(e) /\ UNCHANGED faults) \/ (Fault /\ UNCHANGED hookJob)
  /\ trigger' = [trigger EXCEPT ![e] = "done"]
  /\ UNCHANGED <<hook, event, answers, worker, replays>>

(* replay resets an event and queues it. *)
Replay(e) ==
  /\ replays < MaxReplays
  /\ replays' = replays + 1
  /\ event[e] # NoEvent
  /\ event' = [event EXCEPT ![e] = [status |-> "PENDING", retries |-> 0]]
  /\ AddDeliveryJob(e)
  /\ UNCHANGED <<hook, answers, worker, trigger, faults>>

-----------------------------------------------------------------------------
Current == hookJob[worker.job].of
Goto(pc) == worker' = [worker EXCEPT !.pc = pc]

JobDone(jobs) ==
  hookJob' = [jobs EXCEPT ![worker.job] = NoHookJob] /\ worker' = Resting

(* An await outside the try throws: Bull attempts the job again. *)
JobThrows ==
  /\ Fault
  /\ hookJob' = IF hookJob[worker.job].tries + 1 < HookAttempts
                THEN [hookJob EXCEPT ![worker.job].tries = @ + 1]
                ELSE [hookJob EXCEPT ![worker.job] = NoHookJob]
  /\ worker' = Resting

(* processDelivery reads the event and the endpoint; an endpoint that is    *)
(* not active ends the job, the event stays as it is.                       *)
ProcessDelivery(j) ==
  /\ worker = Resting
  /\ hookJob[j] # NoHookJob
  /\ IF hook = "ACTIVE"
     THEN /\ worker' = [pc |-> "sending", job |-> j, copy |-> event[hookJob[j].of]]
          /\ UNCHANGED hookJob
     ELSE hookJob' = [hookJob EXCEPT ![j] = NoHookJob] /\ UNCHANGED worker
  /\ UNCHANGED <<hook, event, answers, trigger, faults, replays>>

SaveCopy(changed) == event' = [event EXCEPT ![Current] = changed]

SaveSending ==
  /\ worker.pc = "sending"
  /\ \/ SaveCopy([worker.copy EXCEPT !.status = "SENDING"])
        /\ worker' = [worker EXCEPT !.pc = "delivering", !.copy.status = "SENDING"]
        /\ UNCHANGED <<hookJob, faults>>
     \/ JobThrows /\ UNCHANGED event
  /\ UNCHANGED <<hook, answers, trigger, replays>>

(* Slip: what is thrown is taken for an answer. *)
DeliverWebhookSwallowing ==
  /\ worker.pc = "delivering"
  /\ \/ \E answer \in {"2xx", "answer"} :
          answers' = [answers EXCEPT ![Current] = @ \cup {answer}]
     \/ UNCHANGED answers
  /\ Goto("succeeded")
  /\ UNCHANGED <<hook, event, hookJob, trigger, faults, replays>>

(* deliverWebhook: any answer of the endpoint is stored and returned; no    *)
(* answer, the rate limit or a failing save is thrown.                      *)
DeliverWebhook ==
  /\ worker.pc = "delivering"
  /\ \/ \E answer \in {"2xx", "answer"} :
          answers' = [answers EXCEPT ![Current] = @ \cup {answer}] /\ Goto("succeeded")
     \/ UNCHANGED answers /\ Goto("failed")
  /\ UNCHANGED <<hook, event, hookJob, trigger, faults, replays>>

SaveSuccess ==
  /\ worker.pc = "succeeded"
  /\ \/ SaveCopy([worker.copy EXCEPT !.status = "SUCCESS"]) /\ JobDone(hookJob)
        /\ UNCHANGED faults
     \/ Fault /\ Goto("failed") /\ UNCHANGED <<event, hookJob>>
  /\ UNCHANGED <<hook, answers, trigger, replays>>

(* The catch block: the event has failed, or is queued again.               *)
SaveFailure ==
  LET retries == worker.copy.retries + 1 IN
  /\ worker.pc = "failed"
  /\ \/ /\ retries >= MaxRetries
        /\ SaveCopy([status |-> "FAILED", retries |-> retries])
        /\ JobDone(hookJob) /\ UNCHANGED faults
     \/ /\ retries < MaxRetries
        /\ SaveCopy([status |-> "RETRYING", retries |-> retries])
        /\ Goto("requeue") /\ UNCHANGED <<hookJob, faults>>
     \/ JobThrows /\ UNCHANGED event
  /\ UNCHANGED <<hook, answers, trigger, replays>>

(* Slip: a retry is not queued. *)
RequeueNothing ==
  /\ worker.pc = "requeue"
  /\ JobDone(hookJob)
  /\ UNCHANGED <<hook, event, answers, trigger, faults, replays>>

Requeue ==
  /\ worker.pc = "requeue"
  /\ \/ \E j \in HookJobIds : /\ hookJob[j] = NoHookJob
                              /\ JobDone([hookJob EXCEPT ![j] = [of |-> Current, tries |-> 0]])
        /\ UNCHANGED faults
     \/ JobThrows
  /\ UNCHANGED <<hook, event, answers, trigger, replays>>

-----------------------------------------------------------------------------
Work == \/ \E j \in HookJobIds : ProcessDelivery(j)
        \/ SaveSending \/ DeliverWebhook \/ SaveSuccess \/ SaveFailure \/ Requeue

Next ==
  \/ \E status \in HookStatus : SetHook(status)
  \/ \E e \in Events : Trigger(e) \/ CreateWebhookEvent(e) \/ QueueEvent(e) \/ Replay(e)
  \/ Work

(* Bull hands jobs to the processor, and its awaits settle. *)
Fair == WF_webhookVars(Work)

-----------------------------------------------------------------------------
(* The rows, the queue and the processor are well formed, and the processor *)
(* works on a job that is in the queue.                                     *)
TypeOK ==
  /\ hook \in HookStatus
  /\ event \in [Events -> Event]
  /\ \A j \in HookJobIds : hookJob[j] # NoHookJob =>
       hookJob[j] \in [of : Events, tries : 0..HookAttempts - 1]
  /\ worker \in WorkerState
  /\ worker.pc # "idle" => hookJob[worker.job] # NoHookJob

(* An event recorded as delivered got an answer from its endpoint, if not   *)
(* always a welcome one: neither an overlap of the two kinds of retry nor a *)
(* replay in the middle of a delivery makes a success of a failure.         *)
DeliveredMeansAnswered ==
  \A e \in Events : event[e].status = "SUCCESS" => answers[e] # {}

(* An event that has a job is delivered or given up, or meets an endpoint   *)
(* that is not active; fewer faults than a job has attempts do not lose it, *)
(* and neither do replays in the middle of a delivery.                      *)
QueuedEventsSettle ==
  \A e \in Events :
    (\E j \in HookJobIds : hookJob[j] # NoHookJob /\ hookJob[j].of = e)
      ~> (event[e].status \in {"SUCCESS", "FAILED"} \/ hook # "ACTIVE")
=============================================================================
