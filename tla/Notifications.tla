--------------------------- MODULE Notifications ---------------------------
(***************************************************************************)
(* The notification service: deliveries to one endpoint through queue      *)
(* 'webhook-delivery', a mail through queue 'email-delivery', and the      *)
(* requests that change the endpoint.  The processor counts failures on    *)
(* the endpoint's row, which it and the requests read and later save       *)
(* whole; saving a row that was deleted inserts it again.                  *)
(***************************************************************************)
EXTENDS Integers

CONSTANTS
  Notices,          \* bound: events sent to the endpoint
  NoticeRetries,    \* maxRetries of the endpoint, the attempts of a job
  MailAttempts,     \* attempts of a mail's job: 3 in the code
  MaxOperatorCalls, \* bound: requests that change the endpoint
  MaxBreaks         \* bound: awaits that throw and answers that get lost

VARIABLES
  endpoint,   \* row of table webhooks, Gone once deleted
  delivery,   \* status of the rows of webhook_deliveries
  attempts,   \* attempts a delivery's job has left, 0 when there is no job
  accepted,   \* how often the endpoint accepted a delivery
  poster,     \* the webhook processor
  operator,   \* the request that is changing the endpoint
  mail,       \* the mail: its row, the attempts left, how often it was sent
  operatorCalls, breaks

noticeVars ==
  <<endpoint, delivery, attempts, accepted, poster, operator, mail, operatorCalls, breaks>>

Endpoint == [status : {"ACTIVE", "INACTIVE", "DISABLED"}, failures : 0..2 * NoticeRetries]
Gone == [status |-> "gone", failures |-> 0]
NoticeStatus == {"none", "PENDING", "RETRYING", "SUCCESS", "FAILED"}
Mail == [status : {"none", "PENDING", "SENT", "FAILED"}, left : 0..MailAttempts, sent : Nat]

PosterIdle == [pc |-> "idle", copy |-> Gone]
Poster == [pc : {"idle"}, copy : {Gone}] \cup
  [of : Notices, copy : Endpoint \cup {Gone},
   pc : {"post", "accepted", "succeeded", "resetCount", "failed", "addCount", "saveFailed"}]

NoCall == [wants |-> "nothing", copy |-> Gone]
Wants == {"enable", "disable", "activate", "regenerateSecret", "delete"}

Init ==
  /\ endpoint = [status |-> "ACTIVE", failures |-> 0]
  /\ delivery = [n \in Notices |-> "none"]
  /\ attempts = [n \in Notices |-> 0]
  /\ accepted = [n \in Notices |-> 0]
  /\ poster = PosterIdle
  /\ operator = NoCall
  /\ mail = [status |-> "none", left |-> 0, sent |-> 0]
  /\ operatorCalls = 0 /\ breaks = 0

Break == breaks < MaxBreaks /\ breaks' = breaks + 1

-----------------------------------------------------------------------------
(* sendWebhook and queueWebhookDelivery: the row is saved, then the job is  *)
(* added; a failing queue leaves a row without a job.                       *)
SendWebhook(n) ==
  /\ endpoint.status = "ACTIVE"
  /\ delivery[n] = "none"
  /\ delivery' = [delivery EXCEPT ![n] = "PENDING"]
  /\ \/ attempts' = [attempts EXCEPT ![n] = NoticeRetries] /\ UNCHANGED breaks
     \/ Break /\ UNCHANGED attempts
  /\ UNCHANGED <<endpoint, accepted, poster, operator, mail, operatorCalls>>

(* A request reads the endpoint ...                                         *)
ReadEndpoint(wants) ==
  /\ operator = NoCall
  /\ operatorCalls < MaxOperatorCalls
  /\ operatorCalls' = operatorCalls + 1
  /\ endpoint # Gone
  /\ operator' = [wants |-> wants, copy |-> endpoint]
  /\ UNCHANGED <<endpoint, delivery, attempts, accepted, poster, mail, breaks>>

(* ... and saves or removes what it read.  updateWebhook can set the status *)
(* too and leaves the count alone.                                          *)
SaveEndpoint ==
  /\ operator # NoCall
  /\ endpoint' =
       CASE operator.wants = "enable" -> [status |-> "ACTIVE", failures |-> 0]
         [] operator.wants = "disable" -> [operator.copy EXCEPT !.status = "DISABLED"]
         [] operator.wants = "activate" -> [operator.copy EXCEPT !.status = "ACTIVE"]
         [] operator.wants = "regenerateSecret" -> operator.copy
         [] operator.wants = "delete" -> Gone
  /\ operator' = NoCall
  /\ UNCHANGED <<delivery, attempts, accepted, poster, mail, operatorCalls, breaks>>

-----------------------------------------------------------------------------
Goto(pc) == poster' = [poster EXCEPT !.pc = pc]

(* Bull attempts a job that threw again, until its attempts are used up.    *)
JobThrew ==
  /\ attempts' = [attempts EXCEPT ![poster.of] = @ - 1]
  /\ poster' = PosterIdle

JobCompleted ==
  /\ attempts' = [attempts EXCEPT ![poster.of] = 0]
  /\ poster' = PosterIdle

(* handleWebhookDelivery saves the row as RETRYING.                         *)
HandleWebhookDelivery(n) ==
  /\ poster = PosterIdle
  /\ attempts[n] > 0
  /\ \/ /\ delivery' = [delivery EXCEPT ![n] = "RETRYING"]
        /\ poster' = [pc |-> "post", of |-> n, copy |-> Gone]
        /\ UNCHANGED <<attempts, breaks>>
     \/ /\ Break
        /\ attempts' = [attempts EXCEPT ![n] = @ - 1]
        /\ UNCHANGED <<delivery, poster>>
  /\ UNCHANGED <<endpoint, accepted, operator, mail, operatorCalls>>

(* Accepted, refused or out of reach, or accepted and the answer lost.      *)
Post ==
  /\ poster.pc = "post"
  /\ \/ /\ accepted' = [accepted EXCEPT ![poster.of] = @ + 1]
        /\ (Goto("accepted") /\ UNCHANGED breaks) \/ (Goto("failed") /\ Break)
     \/ Goto("failed") /\ UNCHANGED <<accepted, breaks>>
  /\ UNCHANGED <<endpoint, delivery, attempts, operator, mail, operatorCalls>>

SaveSuccess ==
  /\ poster.pc = "accepted"
  /\ \/ /\ delivery' = [delivery EXCEPT ![poster.of] = "SUCCESS"]
        /\ Goto("succeeded") /\ UNCHANGED breaks
     \/ Goto("failed") /\ Break /\ UNCHANGED delivery
  /\ UNCHANGED <<endpoint, attempts, accepted, operator, mail, operatorCalls>>

(* Slip: a deleted endpoint is an error here. *)
ReadForReset_NotFound ==
  /\ poster.pc = "succeeded"
  /\ IF endpoint = Gone THEN Goto("failed")
     ELSE poster' = [poster EXCEPT !.pc = "resetCount", !.copy = endpoint]
  /\ UNCHANGED <<endpoint, delivery, attempts, accepted, operator, mail, operatorCalls, breaks>>

(* The endpoint's row is read to reset its count; throwing here is caught   *)
(* and makes a failure of the success.                                      *)
ReadForReset ==
  /\ poster.pc = "succeeded"
  /\ \/ endpoint = Gone /\ JobCompleted /\ UNCHANGED breaks
     \/ /\ endpoint # Gone
        /\ poster' = [poster EXCEPT !.pc = "resetCount", !.copy = endpoint]
        /\ UNCHANGED <<attempts, breaks>>
     \/ Goto("failed") /\ Break /\ UNCHANGED attempts
  /\ UNCHANGED <<endpoint, delivery, accepted, operator, mail, operatorCalls>>

(* Slip: a success enables the endpoint. *)
ResetCount_Enable ==
  /\ poster.pc = "resetCount"
  /\ endpoint' = [status |-> "ACTIVE", failures |-> 0]
  /\ JobCompleted
  /\ UNCHANGED <<delivery, accepted, operator, mail, operatorCalls, breaks>>

ResetCount ==
  /\ poster.pc = "resetCount"
  /\ \/ endpoint' = [poster.copy EXCEPT !.failures = 0] /\ JobCompleted /\ UNCHANGED breaks
     \/ Goto("failed") /\ Break /\ UNCHANGED <<endpoint, attempts>>
  /\ UNCHANGED <<delivery, accepted, operator, mail, operatorCalls>>

(* The catch block; what throws in it leaves the row as it was.             *)
ReadForCount ==
  /\ poster.pc = "failed"
  /\ \/ endpoint = Gone /\ Goto("saveFailed") /\ UNCHANGED <<attempts, breaks>>
     \/ /\ endpoint # Gone
        /\ poster' = [poster EXCEPT !.pc = "addCount", !.copy = endpoint]
        /\ UNCHANGED <<attempts, breaks>>
     \/ Break /\ JobThrew
  /\ UNCHANGED <<endpoint, delivery, accepted, operator, mail, operatorCalls>>

(* Failures beyond the limit only repeat what the limit did: the count is   *)
(* kept up to it.                                                           *)
CountFailure(row) ==
  IF row.failures + 1 >= 2 * NoticeRetries
  THEN [status |-> "DISABLED", failures |-> 2 * NoticeRetries]
  ELSE [row EXCEPT !.failures = @ + 1]

AddCount ==
  /\ poster.pc = "addCount"
  /\ \/ /\ endpoint' = CountFailure(poster.copy)
        /\ Goto("saveFailed") /\ UNCHANGED <<attempts, breaks>>
     \/ Break /\ JobThrew /\ UNCHANGED endpoint
  /\ UNCHANGED <<delivery, accepted, operator, mail, operatorCalls>>

(* Slip: the failure is saved and not thrown. *)
SaveFailed_Swallow ==
  /\ poster.pc = "saveFailed"
  /\ delivery' = [delivery EXCEPT ![poster.of] = "RETRYING"] /\ JobCompleted
  /\ UNCHANGED <<endpoint, accepted, operator, mail, operatorCalls, breaks>>

SaveFailed ==
  /\ poster.pc = "saveFailed"
  /\ \/ delivery' = [delivery EXCEPT ![poster.of] = "FAILED"] /\ UNCHANGED breaks
     \/ Break /\ UNCHANGED delivery
  /\ JobThrew
  /\ UNCHANGED <<endpoint, accepted, operator, mail, operatorCalls>>

-----------------------------------------------------------------------------
SendEmail ==
  /\ mail.status = "none"
  /\ \/ mail' = [mail EXCEPT !.status = "PENDING", !.left = MailAttempts] /\ UNCHANGED breaks
     \/ mail' = [mail EXCEPT !.status = "PENDING"] /\ Break
  /\ UNCHANGED <<endpoint, delivery, attempts, accepted, poster, operator, operatorCalls>>

(* handleEmailDelivery: the template is unknown or the provider fails; the  *)
(* mail is sent and marked; it is sent and marking it throws, so that it is *)
(* marked as failed and sent again.  Only this job writes the row.          *)
HandleEmailDelivery ==
  /\ mail.left > 0
  /\ \/ /\ mail' = [mail EXCEPT !.status = "FAILED", !.left = @ - 1]
        /\ UNCHANGED breaks
     \/ mail' = [status |-> "SENT", left |-> 0, sent |-> mail.sent + 1] /\ UNCHANGED breaks
     \/ \E status \in {"FAILED", mail.status} :
          /\ mail' = [status |-> status, left |-> mail.left - 1, sent |-> mail.sent + 1]
          /\ Break
  /\ UNCHANGED <<endpoint, delivery, attempts, accepted, poster, operator, operatorCalls>>

-----------------------------------------------------------------------------
Deliver ==
  \/ \E n \in Notices : HandleWebhookDelivery(n)
  \/ Post \/ SaveSuccess \/ ReadForReset \/ ResetCount
  \/ ReadForCount \/ AddCount \/ SaveFailed

Next ==
  \/ \E n \in Notices : SendWebhook(n)
  \/ \E wants \in Wants : ReadEndpoint(wants)
  \/ SaveEndpoint
  \/ SendEmail \/ HandleEmailDelivery \/ Deliver

(* Bull hands jobs to the processors, and their awaits settle. *)
Fair == WF_noticeVars(Deliver) /\ WF_noticeVars(HandleEmailDelivery)

-----------------------------------------------------------------------------
(* The rows and the processor are well formed, and the processor works on a *)
(* delivery that has a job.                                                 *)
TypeOK ==
  /\ endpoint \in Endpoint \cup {Gone}
  /\ delivery \in [Notices -> NoticeStatus]
  /\ attempts \in [Notices -> 0..NoticeRetries]
  /\ accepted \in [Notices -> Nat]
  /\ poster \in Poster
  /\ mail \in Mail
  /\ poster # PosterIdle => attempts[poster.of] > 0

(* A delivery is accepted again, and a mail sent again, only because an     *)
(* await threw or an answer was lost; one of either is enough for it.       *)
NothingSentTwiceUnlessBroken ==
  /\ \A n \in Notices : accepted[n] <= 1 + breaks
  /\ mail.sent <= 1 + breaks

(* An endpoint that is disabled or deleted is active again only by a        *)
(* request, or because the processor had read it before and saved it after. *)
RevivedOnlyByStaleSave ==
  [][(endpoint.status # "ACTIVE" /\ endpoint'.status = "ACTIVE")
       => (operator # NoCall /\ operator' = NoCall) \/ poster.copy.status = "ACTIVE"]_noticeVars

(* Every queued delivery ends as a success or a failure, unless an await    *)
(* threw: then the last attempt may leave it RETRYING.                      *)
NoticesSettle ==
  \A n \in Notices :
    attempts[n] > 0 ~> (attempts[n] = 0 /\ (delivery[n] \in {"SUCCESS", "FAILED"} \/ breaks > 0))
=============================================================================
