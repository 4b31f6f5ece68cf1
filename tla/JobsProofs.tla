----------------------------- MODULE JobsProofs -----------------------------
(***************************************************************************)
(* Proofs about the parts that retry, for any number of swaps, requests,   *)
(* payments, subscriptions, events, notifications, jobs and attempts.      *)
(*                                                                         *)
(* Relayer: a row is saved from what its request did on the chain a while  *)
(* ago; what makes that safe is that no step of anybody unsettles a        *)
(* settled swap.  Billing: every copy in flight, not only the row, counts  *)
(* no cycle without an invoice, but for the one its call makes next.       *)
(* Webhook: the delivery at hand was answered before it is marked.         *)
(* Notifications: what can still be posted or sent was so at most once for *)
(* every break.                                                            *)
(***************************************************************************)
EXTENDS MCJobs, TLAPS

(* What is proved of the contract holds of the chain that is relayed to.   *)
Proofs == INSTANCE AtomicSwapProofs

(* The contract is the one AtomicSwapProofs is about: its assumption holds, *)
(* and its types, first states and steps are the same.                      *)
LEMMA SameAssumption == Proofs!ConstantsAssumption
  BY ConstantsAssumption DEF Chain!ConstantsAssumption, Proofs!ConstantsAssumption

(* The two names of the type invariant mean the same, primed as well. *)
LEMMA SameType == /\ Chain!TypeOK <=> Proofs!TypeOK
                  /\ Chain!TypeOK' <=> Proofs!TypeOK'
  BY DEF Chain!TypeOK, Proofs!TypeOK, Chain!Swap, Proofs!Swap,
         Chain!NoSwap, Proofs!NoSwap, Chain!Never, Proofs!Never

(* So do those of the first states ... *)
LEMMA SameInit == Chain!Init <=> Proofs!Init
  BY DEF Chain!Init, Proofs!Init, Chain!NoSwap, Proofs!NoSwap, Chain!Never, Proofs!Never

(* ... and those of the steps. *)
LEMMA SameNext == Chain!Next <=> Proofs!Next
  BY DEF Chain!Next, Proofs!Next, Chain!Initialize, Proofs!Initialize,
         Chain!SetFee, Proofs!SetFee, Chain!Pause, Proofs!Pause,
         Chain!Unpause, Proofs!Unpause, Chain!InitiateSwap, Proofs!InitiateSwap,
         Chain!AfterFee, Proofs!AfterFee, Chain!Truncated, Proofs!Truncated,
         Chain!CompleteSwap, Proofs!CompleteSwap, Chain!RefundSwap,
         Proofs!RefundSwap, Chain!Tick, Proofs!Tick,
         Chain!NoSwap, Proofs!NoSwap, Chain!Never, Proofs!Never

(* The chain stays well typed, whoever moves it. *)
LEMMA ChainTypeOK == Chain!TypeOK /\ [Chain!Next]_chain => Chain!TypeOK'
  BY Proofs!NextTypeOK, SameAssumption, SameType, SameNext DEF chain, Proofs!vars

(* The chain starts well typed. *)
LEMMA ChainInit == Chain!Init => Chain!TypeOK
  BY Proofs!InitIInv, SameAssumption, SameInit, SameType DEF Proofs!IInv

-----------------------------------------------------------------------------
Settled == {"completed", "refunded"}

(* Whoever moves the chain: a settled swap keeps its status. *)
LEMMA SettledStays ==
  ASSUME Chain!TypeOK, [Chain!Next]_chain, NEW x \in SwapIds, swaps[x].status \in Settled
  PROVE  swaps'[x].status = swaps[x].status
<1>0. swaps[x] # Chain!NoSwap
  BY DEF Chain!NoSwap, Settled
<1>1. ASSUME NEW id \in SwapIds, NEW i, NEW r, NEW amount, NEW d, NEW t,
             Chain!InitiateSwap(id, i, r, amount, d, t)
      PROVE  swaps'[x] = swaps[x]
  BY <1>0, <1>1 DEF Chain!InitiateSwap, Chain!TypeOK
<1>2. ASSUME NEW id \in SwapIds, NEW s, Chain!CompleteSwap(id, s)
      PROVE  swaps'[x] = swaps[x]
  BY <1>2 DEF Chain!CompleteSwap, Chain!TypeOK, Settled
<1>3. ASSUME NEW id \in SwapIds, Chain!RefundSwap(id)
      PROVE  swaps'[x] = swaps[x]
  BY <1>3 DEF Chain!RefundSwap, Chain!TypeOK, Settled
<1>4. ASSUME NEW a, \/ \E bps \in Fees : Chain!Initialize(a, bps) \/ Chain!SetFee(a, bps)
                    \/ Chain!Pause(a) \/ Chain!Unpause(a)
      PROVE  swaps' = swaps
  BY <1>4 DEF Chain!Initialize, Chain!SetFee, Chain!Pause, Chain!Unpause
<1>5. Chain!Tick => swaps' = swaps
  BY DEF Chain!Tick
<1>6. UNCHANGED chain => swaps' = swaps
  BY DEF chain
<1> QED BY <1>1, <1>2, <1>3, <1>4, <1>5, <1>6 DEF Chain!Next

(* A transaction of the relayer settles its swap. *)
LEMMA CompletionSettles ==
  ASSUME Chain!TypeOK, NEW id \in SwapIds, NEW s, Chain!CompleteSwap(id, s)
  PROVE  swaps'[id].status = "completed"
<1>1. swaps[id] \in Chain!Swap
  BY DEF Chain!TypeOK, Chain!CompleteSwap
<1> QED BY <1>1 DEF Chain!TypeOK, Chain!CompleteSwap, Chain!Swap

(* So does a refund by it. *)
LEMMA RefundSettles ==
  ASSUME Chain!TypeOK, NEW id \in SwapIds, Chain!RefundSwap(id)
  PROVE  swaps'[id].status = "refunded"
<1>1. swaps[id] \in Chain!Swap
  BY DEF Chain!TypeOK, Chain!RefundSwap
<1> QED BY <1>1 DEF Chain!TypeOK, Chain!RefundSwap, Chain!Swap

-----------------------------------------------------------------------------
(* The retries that handleFailedRelay has left.                             *)
TriesLeft == \A r \in Requests : request[r].op = "retry" => request[r].tries < MaxRetries

(* What a request is about to save has happened. *)
Outcome(op) == IF op = "completion" THEN "completed" ELSE "refunded"
SavesAreBacked ==
  \A r \in Requests :
    request[r].pc = "saving" => swaps[request[r].id].status = Outcome(request[r].op)

(* A completion was given a secret. *)
SecretsGiven ==
  \A r \in Requests : request[r].op = "completion" => request[r].secret \in Secrets

RequestsOK == TriesLeft /\ SecretsGiven
IInv == TypeOK /\ RequestsOK /\ SavesAreBacked /\ RowsAreBacked

(* No request is under way at first, and no row is stored. *)
LEMMA InitIInv == Init => IInv
<1> SUFFICES ASSUME Init PROVE IInv
  OBVIOUS
<1>1. Idle \in Request
  BY ConstantsAssumption DEF Idle, Request
<1>2. TypeOK
  BY <1>1, ChainInit DEF Init, TypeOK
<1> QED BY <1>2 DEF Init, IInv, RequestsOK, TriesLeft, SecretsGiven, SavesAreBacked,
                     RowsAreBacked, Idle

(* Every step is one of the chain, taken by a party or by the relayer, or   *)
(* leaves it alone.                                                         *)
LEMMA ChainSteps == IInv /\ [Next]_vars => [Chain!Next]_chain
<1> SUFFICES ASSUME IInv, [Next]_vars PROVE [Chain!Next]_chain
  OBVIOUS
<1>1. ASSUME NEW r \in Requests, ExecuteSwapCompletion(r) PROVE [Chain!Next]_chain
  <2>1. request[r].id \in SwapIds /\ request[r].secret \in Secrets
    BY <1>1 DEF ExecuteSwapCompletion, At, IInv, RequestsOK, SecretsGiven, TypeOK, Request
  <2> QED BY <1>1, <2>1 DEF ExecuteSwapCompletion, Chain!Next
<1>2. ASSUME NEW r \in Requests, ExecuteSwapRefund(r) PROVE [Chain!Next]_chain
  <2>1. request[r].id \in SwapIds
    BY <1>2 DEF IInv, TypeOK, Request
  <2> QED BY <1>2, <2>1 DEF ExecuteSwapRefund, Chain!Next
<1>3. ASSUME NEW r \in Requests,
             \/ SaveCompleted(r) \/ SaveExpired(r) \/ SaveRefunded(r)
             \/ Attempt(r) \/ Retry(r) \/ Answer(r)
      PROVE  UNCHANGED chain
  BY <1>3 DEF SaveCompleted, SaveExpired, SaveRefunded, Attempt, Retry, Answer
<1>4. ASSUME NEW r \in Requests, NEW id \in SwapIds,
             \/ \E s \in Secrets : RelaySwapCompletion(r, id, s)
             \/ RelaySwapRefund(r, id) \/ HandleFailedRelay(r, id)
      PROVE  UNCHANGED chain
  BY <1>4 DEF RelaySwapCompletion, RelaySwapRefund, Relay, HandleFailedRelay
<1>5. ASSUME NEW id \in SwapIds, StoreSwap(id) PROVE UNCHANGED chain
  BY <1>5 DEF StoreSwap
<1>6. Crash \/ UNCHANGED vars => UNCHANGED chain
  BY DEF Crash, chain, vars
<1> QED BY <1>1, <1>2, <1>3, <1>4, <1>5, <1>6 DEF Next

-----------------------------------------------------------------------------
(* A step keeps the requests in order when it changes one of them, to idle, *)
(* to a new request or to another place with no more tries than are left.   *)
LEMMA NextRequests == IInv /\ [Next]_vars => request' \in [Requests -> Request] /\ RequestsOK'
<1> SUFFICES ASSUME IInv, [Next]_vars
             PROVE  request' \in [Requests -> Request] /\ RequestsOK'
  OBVIOUS
<1> USE ConstantsAssumption DEF IInv, TypeOK, RequestsOK, TriesLeft, SecretsGiven, Request
<1>0. Idle \in Request
  BY DEF Idle
<1>1. ASSUME NEW r \in Requests, End(r) PROVE request' \in [Requests -> Request] /\ RequestsOK'
  BY <1>0, <1>1 DEF End, Idle
<1>2. ASSUME NEW r \in Requests, NEW pc \in {"relaying", "sending", "saving", "failing", "backoff", "answered"},
             Goto(r, pc)
      PROVE  request' \in [Requests -> Request] /\ RequestsOK'
  BY <1>2 DEF Goto
<1>3. ASSUME NEW r \in Requests, NEW id \in SwapIds, NEW s \in Secrets, RelaySwapCompletion(r, id, s)
      PROVE  request' \in [Requests -> Request] /\ RequestsOK'
  BY <1>3 DEF RelaySwapCompletion, Relay
<1>4. ASSUME NEW r \in Requests, NEW id \in SwapIds, RelaySwapRefund(r, id)
      PROVE  request' \in [Requests -> Request] /\ RequestsOK'
  BY <1>4 DEF RelaySwapRefund, Relay
<1>5. ASSUME NEW r \in Requests, NEW id \in SwapIds, HandleFailedRelay(r, id)
      PROVE  request' \in [Requests -> Request] /\ RequestsOK'
  BY <1>5 DEF HandleFailedRelay
<1>6. ASSUME NEW r \in Requests, Retry(r)
      PROVE  request' \in [Requests -> Request] /\ RequestsOK'
  BY <1>1, <1>6 DEF Retry, At
<1>7. ASSUME NEW r \in Requests, ExecuteSwapCompletion(r) \/ SaveCompleted(r) \/ SaveExpired(r)
      PROVE  request' \in [Requests -> Request] /\ RequestsOK'
  BY <1>1, <1>2, <1>7 DEF ExecuteSwapCompletion, SaveCompleted, SaveExpired
<1>8. ASSUME NEW r \in Requests, ExecuteSwapRefund(r) \/ SaveRefunded(r)
      PROVE  request' \in [Requests -> Request] /\ RequestsOK'
  BY <1>1, <1>2, <1>8 DEF ExecuteSwapRefund, SaveRefunded, RefundThrows
<1>9. ASSUME NEW r \in Requests, Attempt(r) \/ Answer(r)
      PROVE  request' \in [Requests -> Request] /\ RequestsOK'
  BY <1>1, <1>2, <1>9 DEF Attempt, Answer
<1>10. CASE Crash
  BY <1>0, <1>10 DEF Crash, Idle
<1>11. CASE UNCHANGED request
  BY <1>11
<1>12. ASSUME NEW id \in SwapIds, StoreSwap(id) PROVE UNCHANGED request
  BY <1>12 DEF StoreSwap
<1>13. UNCHANGED vars => UNCHANGED request
  BY DEF vars
<1> QED BY <1>3, <1>4, <1>5, <1>6, <1>7, <1>8, <1>9, <1>10, <1>11, <1>12, <1>13 DEF Next

-----------------------------------------------------------------------------
(* A step that takes a request to another place than the save, or ends it,   *)
(* leaves every request that is about to save as it was.                    *)
LEMMA NotSaving ==
  ASSUME request \in [Requests -> Request], NEW r \in Requests, NEW x \in Requests,
         NEW pc, pc # "saving", Goto(r, pc) \/ End(r), request'[x].pc = "saving"
  PROVE  request'[x] = request[x]
<1>1. CASE r # x
  BY <1>1 DEF Goto, End
<1>2. CASE r = x
  <2>1. request[r] \in Request
    OBVIOUS
  <2>2. ASSUME Goto(r, pc) PROVE FALSE
    <3>1. request'[r] = [request[r] EXCEPT !.pc = pc]
      BY <2>2 DEF Goto
    <3>2. request'[r].pc = pc
      BY <2>1, <3>1 DEF Request
    <3> QED BY <1>2, <3>2
  <2>3. ASSUME End(r) PROVE FALSE
    <3>1. request'[r] = Idle
      BY <2>3 DEF End
    <3> QED BY <1>2, <3>1 DEF Idle
  <2> QED BY <2>2, <2>3
<1> QED BY <1>1, <1>2

(* A request is about to save what it has just done, or was about to save   *)
(* it before and its swap is settled for good.                              *)
LEMMA NextSaves == IInv /\ [Next]_vars => SavesAreBacked'
<1> SUFFICES ASSUME IInv, [Next]_vars, NEW x \in Requests, request'[x].pc = "saving"
             PROVE  swaps'[request'[x].id].status = Outcome(request'[x].op)
  BY DEF SavesAreBacked
<1>0. Chain!TypeOK /\ [Chain!Next]_chain /\ request \in [Requests -> Request]
  BY ChainSteps DEF IInv, TypeOK
<1>1. CASE request'[x] = request[x]
  <2>1. request[x].id \in SwapIds
    BY <1>0 DEF Request
  <2>2. /\ swaps[request[x].id].status = Outcome(request[x].op)
        /\ swaps[request[x].id].status \in Settled
    BY <1>1 DEF IInv, SavesAreBacked, Outcome, Settled
  <2> QED BY <1>0, <1>1, <2>1, <2>2, SettledStays
<1>2. ASSUME ExecuteSwapCompletion(x), request'[x] # request[x]
      PROVE  swaps'[request'[x].id].status = Outcome(request'[x].op)
  <2>1. request[x].id \in SwapIds /\ request[x].op = "completion"
    BY <1>0, <1>2 DEF ExecuteSwapCompletion, At, Request
  <2>2. request' = [request EXCEPT ![x].pc = "saving"] /\ Chain!CompleteSwap(request[x].id, request[x].secret)
    <3>1. ~Goto(x, "failing")
      BY <1>0, <1>2, NotSaving
    <3> QED BY <1>2, <3>1 DEF ExecuteSwapCompletion, Goto
  <2>3. swaps'[request[x].id].status = "completed"
    BY <1>0, <2>1, <2>2, CompletionSettles
  <2> QED BY <1>0, <2>1, <2>2, <2>3 DEF Outcome, Request
<1>3. ASSUME ExecuteSwapRefund(x), request'[x] # request[x]
      PROVE  swaps'[request'[x].id].status = Outcome(request'[x].op)
  <2>1. request[x].id \in SwapIds /\ request[x].op # "completion"
    BY <1>0, <1>3 DEF ExecuteSwapRefund, Request
  <2>2. request' = [request EXCEPT ![x].pc = "saving"] /\ Chain!RefundSwap(request[x].id)
    <3>1. ~RefundThrows(x)
      BY <1>0, <1>3, NotSaving DEF RefundThrows
    <3> QED BY <1>3, <3>1 DEF ExecuteSwapRefund, Goto
  <2>3. swaps'[request[x].id].status = "refunded"
    BY <1>0, <2>1, <2>2, RefundSettles
  <2> QED BY <1>0, <2>1, <2>2, <2>3 DEF Outcome, Request
<1>4. ASSUME NEW r \in Requests, r # x,
             \/ ExecuteSwapCompletion(r) \/ ExecuteSwapRefund(r)
      PROVE  request'[x] = request[x]
  BY <1>0, <1>4 DEF ExecuteSwapCompletion, ExecuteSwapRefund, RefundThrows, Goto, End
<1>5. ASSUME NEW r \in Requests,
             \/ SaveCompleted(r) \/ SaveExpired(r) \/ SaveRefunded(r)
             \/ Attempt(r) \/ Retry(r) \/ Answer(r)
      PROVE  request'[x] = request[x]
  <2>1. ASSUME NEW pc \in {"failing", "backoff", "answered", "relaying", "sending"}, Goto(r, pc)
        PROVE  request'[x] = request[x]
    BY <1>0, <2>1, NotSaving
  <2>2. ASSUME End(r) PROVE request'[x] = request[x]
    BY <1>0, <2>2, NotSaving, "failing" # "saving"
  <2>3. CASE SaveCompleted(r) \/ SaveExpired(r) \/ Answer(r)
    BY <2>1, <2>2, <2>3 DEF SaveCompleted, SaveExpired, Answer
  <2>4. CASE SaveRefunded(r)
    BY <2>1, <2>2, <2>4 DEF SaveRefunded, RefundThrows
  <2>5. CASE Attempt(r)
    BY <2>1, <2>5 DEF Attempt
  <2>6. ASSUME request' = [request EXCEPT ![r].tries = request[r].tries + 1,
                                          ![r].pc = "relaying"]
        PROVE  request'[x] = request[x]
    <3>1. r # x
      <4>1. request[r] \in Request
        BY <1>0
      <4>2. request'[r] = [request[r] EXCEPT !.tries = request[r].tries + 1, !.pc = "relaying"]
        BY <1>0, <2>6
      <4> QED BY <4>1, <4>2 DEF Request
    <3> QED BY <1>0, <2>6, <3>1
  <2>7. CASE Retry(r)
    BY <2>2, <2>6, <2>7 DEF Retry
  <2> QED BY <1>5, <2>3, <2>4, <2>5, <2>7
<1>6. ASSUME NEW r \in Requests, NEW id \in SwapIds,
             \/ \E s \in Secrets : RelaySwapCompletion(r, id, s)
             \/ RelaySwapRefund(r, id) \/ HandleFailedRelay(r, id)
      PROVE  request'[x] = request[x]
  BY <1>0, <1>6 DEF RelaySwapCompletion, RelaySwapRefund, Relay, HandleFailedRelay
<1>7. ASSUME NEW id \in SwapIds, StoreSwap(id) PROVE request'[x] = request[x]
  BY <1>7 DEF StoreSwap
<1>8. ~Crash
  BY DEF Crash, Idle
<1>9. (Chain!Next /\ UNCHANGED <<row, request>>) \/ UNCHANGED vars => request'[x] = request[x]
  BY DEF vars
<1> QED BY <1>1, <1>2, <1>3, <1>4, <1>5, <1>6, <1>7, <1>8, <1>9 DEF Next

(* A row that is saved was backed when its request left the chain, and is   *)
(* still; every other row's swap is settled for good.                       *)
LEMMA NextRows ==
  IInv /\ [Next]_vars => row' \in [SwapIds -> RowStatus \cup {"none"}] /\ RowsAreBacked'
<1> SUFFICES ASSUME IInv, [Next]_vars
             PROVE  row' \in [SwapIds -> RowStatus \cup {"none"}] /\ RowsAreBacked'
  OBVIOUS
<1>0. Chain!TypeOK /\ [Chain!Next]_chain /\ request \in [Requests -> Request]
      /\ row \in [SwapIds -> RowStatus \cup {"none"}]
  BY ChainSteps DEF IInv, TypeOK
<1>a. \A x \in SwapIds : swaps[x].status \in Settled => swaps'[x].status = swaps[x].status
  BY <1>0, SettledStays
<1>b. \A x \in SwapIds : row[x] \in {"COMPLETED", "REFUNDED"} =>
        swaps'[x].status = IF row[x] = "COMPLETED" THEN "completed" ELSE "refunded"
  BY <1>a DEF IInv, RowsAreBacked, Settled
<1> DEFINE Kept == row' = row
<1>1. CASE Kept
  BY <1>0, <1>1, <1>b DEF RowsAreBacked
<1>2. ASSUME NEW id \in SwapIds, NEW status \in {"INITIATED", "EXPIRED"},
             row' = [row EXCEPT ![id] = status]
      PROVE  row' \in [SwapIds -> RowStatus \cup {"none"}] /\ RowsAreBacked'
  BY <1>0, <1>2, <1>b DEF RowsAreBacked, RowStatus
<1>3. ASSUME NEW r \in Requests, SaveCompleted(r)
      PROVE  row' \in [SwapIds -> RowStatus \cup {"none"}] /\ RowsAreBacked'
  <2>1. request[r].id \in SwapIds /\ swaps[request[r].id].status = "completed"
    BY <1>0, <1>3 DEF SaveCompleted, At, IInv, SavesAreBacked, Outcome, Request
  <2>2. swaps'[request[r].id].status = "completed"
    BY <1>a, <2>1 DEF Settled
  <2> QED BY <1>0, <1>1, <1>3, <1>b, <2>1, <2>2 DEF SaveCompleted, RowsAreBacked, RowStatus
<1>4. ASSUME NEW r \in Requests, SaveRefunded(r)
      PROVE  row' \in [SwapIds -> RowStatus \cup {"none"}] /\ RowsAreBacked'
  <2>1. request[r].id \in SwapIds /\ swaps[request[r].id].status = "refunded"
    BY <1>0, <1>4 DEF SaveRefunded, IInv, SavesAreBacked, Outcome, Request
  <2>2. swaps'[request[r].id].status = "refunded"
    BY <1>a, <2>1 DEF Settled
  <2> QED BY <1>0, <1>1, <1>4, <1>b, <2>1, <2>2 DEF SaveRefunded, RowsAreBacked, RowStatus
<1>5. ASSUME NEW r \in Requests, SaveExpired(r)
      PROVE  row' \in [SwapIds -> RowStatus \cup {"none"}] /\ RowsAreBacked'
  <2>1. request[r].id \in SwapIds
    BY <1>0 DEF Request
  <2> QED BY <1>1, <1>2, <1>5, <2>1 DEF SaveExpired
<1>6. ASSUME NEW id \in SwapIds, StoreSwap(id)
      PROVE  row' \in [SwapIds -> RowStatus \cup {"none"}] /\ RowsAreBacked'
  BY <1>2, <1>6 DEF StoreSwap
<1>7. ASSUME NEW r \in Requests,
             \/ ExecuteSwapCompletion(r) \/ ExecuteSwapRefund(r)
             \/ Attempt(r) \/ Retry(r) \/ Answer(r)
      PROVE  Kept
  BY <1>7 DEF ExecuteSwapCompletion, ExecuteSwapRefund, Attempt, Retry, Answer
<1>8. ASSUME NEW r \in Requests, NEW id \in SwapIds,
             \/ \E s \in Secrets : RelaySwapCompletion(r, id, s)
             \/ RelaySwapRefund(r, id) \/ HandleFailedRelay(r, id)
      PROVE  Kept
  BY <1>8 DEF RelaySwapCompletion, RelaySwapRefund, Relay, HandleFailedRelay
<1>9. Crash \/ (Chain!Next /\ UNCHANGED <<row, request>>) \/ UNCHANGED vars => Kept
  BY DEF Crash, vars
<1> QED BY <1>1, <1>3, <1>4, <1>5, <1>6, <1>7, <1>8, <1>9 DEF Next

-----------------------------------------------------------------------------
(***************************************************************************)
(* However many relays of a swap overlap, fail halfway, lose receipts or   *)
(* are killed, cross_chain_swaps is well typed and says COMPLETED or       *)
(* REFUNDED only of what the chain settled that way                        *)
(* (relaySwapCompletion, relaySwapRefund, handleFailedRelay).              *)
(***************************************************************************)
THEOREM RelayerInvariant == Spec => [](TypeOK /\ RowsAreBacked)
<1>1. IInv /\ [Next]_vars => IInv'
  BY ChainSteps, ChainTypeOK, NextRequests, NextSaves, NextRows DEF IInv, TypeOK
<1>2. IInv => TypeOK /\ RowsAreBacked
  BY DEF IInv
<1> QED BY InitIInv, <1>1, <1>2, PTL DEF Spec

-----------------------------------------------------------------------------
QueuedHook == [of : Events, tries : 0..HookAttempts - 1]

(* The delivery at hand was answered once the processor goes on to mark it. *)
HookInv ==
  /\ W!TypeOK
  /\ hookJob \in [HookJobIds -> QueuedHook \cup {NoHookJob}]
  /\ answers \in [Events -> SUBSET {"2xx", "answer"}]
  /\ W!DeliveredMeansAnswered
  /\ worker.pc # "idle" => worker.job \in HookJobIds
  /\ worker.pc = "succeeded" => answers[hookJob[worker.job].of] # {}

(* No event has a job at first. *)
LEMMA HookInit == W!Init => HookInv
<1> SUFFICES ASSUME W!Init PROVE HookInv
  OBVIOUS
<1>1. W!TypeOK
  BY DEF W!Init, W!TypeOK, W!HookStatus, W!Event, W!NoEvent, W!Resting, W!WorkerState
<1> QED BY <1>1 DEF W!Init, HookInv, W!DeliveredMeansAnswered, W!NoEvent, W!Resting

(* The processor's job is an event's, and no other action touches it. *)
LEMMA HookAtWork ==
  ASSUME HookInv, worker.pc # "idle"
  PROVE  /\ hookJob[worker.job] \in QueuedHook
         /\ worker.job \in HookJobIds
         /\ W!Current \in Events
         /\ worker.copy \in W!Event
BY DEF HookInv, W!TypeOK, W!Current, QueuedHook, W!WorkerState

(* A job is added to a free slot, which is not the processor's. *)
LEMMA HookAdded ==
  ASSUME HookInv, NEW e \in Events, W!AddDeliveryJob(e)
  PROVE  /\ hookJob' \in [HookJobIds -> QueuedHook \cup {NoHookJob}]
         /\ worker.pc # "idle" => hookJob'[worker.job] = hookJob[worker.job]
<1>1. PICK j \in HookJobIds : /\ hookJob[j] = NoHookJob
                              /\ hookJob' = [hookJob EXCEPT ![j] = [of |-> e, tries |-> 0]]
  BY DEF W!AddDeliveryJob
<1>2. [of |-> e, tries |-> 0] \in QueuedHook
  BY WebhookAssumption DEF QueuedHook
<1> QED BY <1>1, <1>2 DEF HookInv, W!TypeOK

(* What the parts of the invariant need of the next state. *)
LEMMA HookKeeps ==
  ASSUME HookInv,
         hook' \in W!HookStatus, event' \in [Events -> W!Event],
         hookJob' \in [HookJobIds -> QueuedHook \cup {NoHookJob}],
         answers' \in [Events -> SUBSET {"2xx", "answer"}],
         W!DeliveredMeansAnswered',
         worker' \in W!WorkerState,
         worker'.pc # "idle" => worker'.job \in HookJobIds /\ hookJob'[worker'.job] # NoHookJob,
         worker'.pc = "succeeded" => answers'[hookJob'[worker'.job].of] # {}
  PROVE  HookInv'
BY DEF HookInv, W!TypeOK, QueuedHook

(* Every step keeps the queue, the events and the processor in order. *)
LEMMA HookNext == HookInv /\ [W!Next]_webhookVars => HookInv'
<1> SUFFICES ASSUME HookInv, [W!Next]_webhookVars PROVE HookInv'
  OBVIOUS
<1>0. /\ hook \in W!HookStatus /\ event \in [Events -> W!Event]
      /\ hookJob \in [HookJobIds -> QueuedHook \cup {NoHookJob}]
      /\ answers \in [Events -> SUBSET {"2xx", "answer"}]
      /\ W!DeliveredMeansAnswered
      /\ worker \in W!WorkerState
      /\ worker.pc # "idle" => worker.job \in HookJobIds /\ hookJob[worker.job] # NoHookJob
      /\ worker.pc = "succeeded" => answers[hookJob[worker.job].of] # {}
  BY DEF HookInv, W!TypeOK
<1>a. NoHookJob \notin QueuedHook
  BY WebhookAssumption DEF QueuedHook
<1>b. W!Resting \in W!WorkerState /\ W!Resting.pc = "idle"
  BY DEF W!Resting, W!WorkerState, W!Event
<1>1. ASSUME NEW status \in W!HookStatus, W!SetHook(status) PROVE HookInv'
  BY <1>0, <1>1, HookKeeps DEF W!SetHook, W!DeliveredMeansAnswered
<1>2. ASSUME NEW e \in Events, W!Trigger(e) PROVE HookInv'
  BY <1>0, <1>2, HookKeeps DEF W!Trigger, W!DeliveredMeansAnswered
<1>3. ASSUME NEW e \in Events, W!CreateWebhookEvent(e) PROVE HookInv'
  <2>1. event' \in [Events -> W!Event]
    BY <1>0, <1>3 DEF W!CreateWebhookEvent, W!Event, W!EventStatus
  <2>2. W!DeliveredMeansAnswered'
    BY <1>0, <1>3 DEF W!CreateWebhookEvent, W!DeliveredMeansAnswered
  <2> QED BY <1>0, <1>3, <2>1, <2>2, HookKeeps DEF W!CreateWebhookEvent, W!HookStatus
<1>4. ASSUME NEW e \in Events, W!QueueEvent(e) PROVE HookInv'
  <2>1. /\ hookJob' \in [HookJobIds -> QueuedHook \cup {NoHookJob}]
        /\ worker.pc # "idle" => hookJob'[worker.job] = hookJob[worker.job]
    BY <1>0, <1>4, HookAdded DEF W!QueueEvent
  <2>2. UNCHANGED <<hook, event, answers, worker>>
    BY <1>4 DEF W!QueueEvent
  <2> QED BY <1>0, <2>1, <2>2, HookKeeps DEF W!DeliveredMeansAnswered
<1>5. ASSUME NEW e \in Events, W!Replay(e) PROVE HookInv'
  <2>1. /\ hookJob' \in [HookJobIds -> QueuedHook \cup {NoHookJob}]
        /\ worker.pc # "idle" => hookJob'[worker.job] = hookJob[worker.job]
    BY <1>0, <1>5, HookAdded DEF W!Replay
  <2>2. event' \in [Events -> W!Event]
    BY <1>0, <1>5 DEF W!Replay, W!Event, W!EventStatus
  <2>3. W!DeliveredMeansAnswered'
    BY <1>0, <1>5 DEF W!Replay, W!DeliveredMeansAnswered
  <2>4. UNCHANGED <<hook, answers, worker>>
    BY <1>5 DEF W!Replay
  <2> QED BY <1>0, <2>1, <2>2, <2>3, <2>4, HookKeeps
<1>6. ASSUME NEW j \in HookJobIds, W!ProcessDelivery(j) PROVE HookInv'
  <2>1. worker.pc = "idle" /\ hookJob[j] \in QueuedHook
    BY <1>0, <1>6, <1>b DEF W!ProcessDelivery
  <2>2. UNCHANGED <<hook, event, answers>>
    BY <1>6 DEF W!ProcessDelivery
  <2>3. CASE hook = "ACTIVE"
    <3>1. worker' = [pc |-> "sending", job |-> j, copy |-> event[hookJob[j].of]] /\ hookJob' = hookJob
      BY <1>6, <2>3 DEF W!ProcessDelivery
    <3>2. worker' \in W!WorkerState
      BY <1>0, <2>1, <3>1 DEF W!WorkerState, QueuedHook
    <3>3. worker'.pc = "sending" /\ worker'.job = j
      BY <3>1
    <3> QED BY <1>0, <1>a, <2>1, <2>2, <3>1, <3>2, <3>3, HookKeeps DEF W!DeliveredMeansAnswered
  <2>4. CASE hook # "ACTIVE"
    <3>1. hookJob' = [hookJob EXCEPT ![j] = NoHookJob] /\ worker' = worker
      BY <1>6, <2>4 DEF W!ProcessDelivery
    <3>2. hookJob' \in [HookJobIds -> QueuedHook \cup {NoHookJob}]
      BY <1>0, <3>1
    <3> QED BY <1>0, <2>1, <2>2, <3>1, <3>2, HookKeeps DEF W!DeliveredMeansAnswered
  <2> QED BY <2>3, <2>4
\* the ways a job ends or is put back
<1>7. ASSUME worker.pc # "idle", NEW jobs, jobs \in [HookJobIds -> QueuedHook \cup {NoHookJob}],
             W!JobDone(jobs), UNCHANGED <<hook, answers>>,
             event' \in [Events -> W!Event], W!DeliveredMeansAnswered'
      PROVE  HookInv'
  <2>1. hookJob' \in [HookJobIds -> QueuedHook \cup {NoHookJob}] /\ worker' = W!Resting
    BY <1>7, HookAtWork DEF W!JobDone
  <2> QED BY <1>0, <1>7, <1>b, <2>1, HookKeeps
<1>8. ASSUME worker.pc # "idle", W!JobThrows, UNCHANGED <<hook, event, answers>>
      PROVE  HookInv'
  <2>1. hookJob[worker.job] \in QueuedHook /\ worker.job \in HookJobIds
    BY <1>8, HookAtWork
  <2>2. hookJob' \in [HookJobIds -> QueuedHook \cup {NoHookJob}]
    <3>1. CASE hookJob[worker.job].tries + 1 < HookAttempts
      <4>1. [hookJob[worker.job] EXCEPT !.tries = @ + 1] \in QueuedHook
        BY <2>1, <3>1, WebhookAssumption DEF QueuedHook
      <4>2. hookJob' = [hookJob EXCEPT ![worker.job] = [hookJob[worker.job] EXCEPT !.tries = @ + 1]]
        BY <1>8, <3>1 DEF W!JobThrows
      <4> QED BY <1>0, <2>1, <4>1, <4>2
    <3>2. CASE ~(hookJob[worker.job].tries + 1 < HookAttempts)
      BY <1>0, <1>8, <2>1, <3>2 DEF W!JobThrows
    <3> QED BY <3>1, <3>2
  <2>3. worker' = W!Resting
    BY <1>8 DEF W!JobThrows
  <2> QED BY <1>0, <1>8, <1>b, <2>2, <2>3, HookKeeps DEF W!DeliveredMeansAnswered
<1>9. ASSUME worker.pc # "idle", NEW pc \in {"delivering", "failed", "requeue"}, W!Goto(pc),
             UNCHANGED <<hook, answers, hookJob>>,
             event' \in [Events -> W!Event], W!DeliveredMeansAnswered'
      PROVE  HookInv'
  <2>1. worker' \in W!WorkerState /\ worker'.pc = pc /\ worker'.job = worker.job
    BY <1>0, <1>9 DEF W!Goto, W!WorkerState
  <2> QED BY <1>0, <1>9, <2>1, HookKeeps
\* a save of the copy that is no success
<1>10. ASSUME worker.pc # "idle", NEW kept \in W!Event, W!SaveCopy(kept),
              kept.status = "SUCCESS" => answers[W!Current] # {},
              UNCHANGED answers
       PROVE  event' \in [Events -> W!Event] /\ W!DeliveredMeansAnswered'
  <2>1. W!Current \in Events
    BY <1>10, HookAtWork
  <2> QED BY <1>0, <1>10, <2>1 DEF W!SaveCopy, W!DeliveredMeansAnswered
<1>c. ASSUME worker.pc # "idle", NEW status \in {"SENDING", "SUCCESS"}
      PROVE  /\ [worker.copy EXCEPT !.status = status] \in W!Event
             /\ [worker.copy EXCEPT !.status = status].status = status
  BY <1>0, <1>c DEF W!WorkerState, W!Event, W!EventStatus, W!NoEvent
<1>d. worker.copy.retries \in Nat
  BY <1>0 DEF W!WorkerState, W!Event, W!NoEvent
<1>11. CASE W!SaveSending
  <2>0. worker.pc = "sending"
    BY <1>11 DEF W!SaveSending
  <2>1. CASE W!JobThrows /\ UNCHANGED event
    BY <1>8, <1>11, <2>0, <2>1 DEF W!SaveSending
  <2>2. CASE /\ W!SaveCopy([worker.copy EXCEPT !.status = "SENDING"])
             /\ worker' = [worker EXCEPT !.pc = "delivering", !.copy.status = "SENDING"]
             /\ UNCHANGED <<hookJob, faults>>
    <3>1. event' \in [Events -> W!Event] /\ W!DeliveredMeansAnswered'
      BY <1>10, <1>11, <1>c, <2>0, <2>2 DEF W!SaveSending
    <3>2. worker' = [pc |-> "delivering", job |-> worker.job,
                     copy |-> [worker.copy EXCEPT !.status = "SENDING"]]
      BY <1>0, <2>2 DEF W!WorkerState
    <3>3. worker' \in W!WorkerState /\ worker'.pc = "delivering" /\ worker'.job = worker.job
      BY <1>0, <1>c, <2>0, <3>2 DEF W!WorkerState
    <3> QED BY <1>0, <1>11, <2>0, <2>2, <3>1, <3>3, HookKeeps DEF W!SaveSending
  <2> QED BY <1>11, <2>1, <2>2 DEF W!SaveSending
<1>12. CASE W!DeliverWebhook
  <2>0. worker.pc = "delivering" /\ UNCHANGED <<hook, event, hookJob>>
    BY <1>12 DEF W!DeliverWebhook
  <2>1. CASE UNCHANGED answers /\ W!Goto("failed")
    BY <1>0, <1>9, <2>0, <2>1 DEF W!DeliveredMeansAnswered
  <2>2. ASSUME NEW answer \in {"2xx", "answer"},
               answers' = [answers EXCEPT ![W!Current] = @ \cup {answer}], W!Goto("succeeded")
        PROVE  HookInv'
    <3>1. W!Current \in Events
      BY <2>0, HookAtWork
    <3>2. answers' \in [Events -> SUBSET {"2xx", "answer"}] /\ answers'[W!Current] # {}
          /\ W!DeliveredMeansAnswered'
      BY <1>0, <2>0, <2>2, <3>1 DEF W!DeliveredMeansAnswered
    <3>3. worker' \in W!WorkerState /\ worker'.pc = "succeeded" /\ worker'.job = worker.job
      BY <1>0, <2>2 DEF W!Goto, W!WorkerState
    <3> QED BY <1>0, <2>0, <3>2, <3>3, HookKeeps DEF W!Current
  <2> QED BY <1>12, <2>1, <2>2 DEF W!DeliverWebhook
<1>13. CASE W!SaveSuccess
  <2>0. worker.pc = "succeeded" /\ UNCHANGED <<hook, answers>> /\ answers[W!Current] # {}
    BY <1>0, <1>13 DEF W!SaveSuccess, W!Current
  <2>1. CASE W!SaveCopy([worker.copy EXCEPT !.status = "SUCCESS"]) /\ W!JobDone(hookJob)
    <3>1. event' \in [Events -> W!Event] /\ W!DeliveredMeansAnswered'
      BY <1>10, <1>c, <2>0, <2>1
    <3> QED BY <1>0, <1>7, <2>0, <2>1, <3>1
  <2>2. CASE W!Goto("failed") /\ UNCHANGED <<event, hookJob>>
    BY <1>0, <1>9, <2>0, <2>2 DEF W!DeliveredMeansAnswered
  <2> QED BY <1>13, <2>1, <2>2 DEF W!SaveSuccess
<1>14. CASE W!SaveFailure
  <2> DEFINE again == worker.copy.retries + 1
  <2>0. worker.pc = "failed" /\ UNCHANGED <<hook, answers>>
    BY <1>14 DEF W!SaveFailure
  <2>a. ASSUME NEW status \in {"FAILED", "RETRYING"}
        PROVE  [status |-> status, retries |-> again] \in W!Event
    BY <1>d DEF W!Event, W!EventStatus
  <2>1. CASE W!JobThrows /\ UNCHANGED event
    BY <1>8, <2>0, <2>1
  <2>2. CASE W!SaveCopy([status |-> "FAILED", retries |-> again]) /\ W!JobDone(hookJob)
    <3>1. event' \in [Events -> W!Event] /\ W!DeliveredMeansAnswered'
      BY <1>10, <2>0, <2>a, <2>2
    <3> QED BY <1>0, <1>7, <2>0, <2>2, <3>1
  <2>3. CASE /\ W!SaveCopy([status |-> "RETRYING", retries |-> again])
             /\ W!Goto("requeue") /\ UNCHANGED <<hookJob, faults>>
    <3>1. event' \in [Events -> W!Event] /\ W!DeliveredMeansAnswered'
      BY <1>10, <2>0, <2>a, <2>3
    <3> QED BY <1>9, <2>0, <2>3, <3>1
  <2> QED BY <1>14, <2>1, <2>2, <2>3 DEF W!SaveFailure
<1>15. CASE W!Requeue
  <2>0. worker.pc = "requeue" /\ UNCHANGED <<hook, event, answers>> /\ W!Current \in Events
    BY <1>15, HookAtWork DEF W!Requeue
  <2>1. CASE W!JobThrows
    BY <1>8, <2>0, <2>1
  <2>2. ASSUME NEW j \in HookJobIds,
               W!JobDone([hookJob EXCEPT ![j] = [of |-> W!Current, tries |-> 0]])
        PROVE  HookInv'
    <3>1. [of |-> W!Current, tries |-> 0] \in QueuedHook
      BY <2>0, WebhookAssumption DEF QueuedHook
    <3>2. [hookJob EXCEPT ![j] = [of |-> W!Current, tries |-> 0]]
            \in [HookJobIds -> QueuedHook \cup {NoHookJob}]
      BY <1>0, <3>1
    <3> QED BY <1>0, <1>7, <2>0, <2>2, <3>2 DEF W!DeliveredMeansAnswered
  <2> QED BY <1>15, <2>1, <2>2 DEF W!Requeue
<1>16. CASE UNCHANGED webhookVars
  BY <1>0, <1>16, HookKeeps DEF webhookVars, W!DeliveredMeansAnswered
<1> QED BY <1>1, <1>2, <1>3, <1>4, <1>5, <1>6, <1>11, <1>12, <1>13, <1>14, <1>15, <1>16
       DEF W!Next, W!Work

-----------------------------------------------------------------------------
(* A delivery that can still be posted was accepted at most once for every  *)
(* break; one whose acceptance is being recorded, once more.  A mail that   *)
(* can still be sent, likewise.                                             *)
Accepting == {"accepted", "succeeded", "resetCount"}
Recording(n) == poster.pc \in Accepting /\ poster.of = n

Repeats(n) ==
  /\ accepted[n] <= 1 + breaks
  /\ attempts[n] > 0 /\ ~Recording(n) => accepted[n] <= breaks
  /\ delivery[n] = "none" => accepted[n] = 0 /\ attempts[n] = 0

MailRepeats ==
  /\ mail.sent <= 1 + breaks
  /\ mail.left > 0 => mail.sent <= breaks
  /\ mail.status = "none" => mail.sent = 0 /\ mail.left = 0


NoticeInv ==
  /\ N!TypeOK
  /\ breaks \in Nat
  /\ operator \in [wants : N!Wants, copy : N!Endpoint] \cup {N!NoCall}
  /\ \A n \in Notices : Repeats(n)
  /\ MailRepeats
  /\ poster.pc = "resetCount" => poster.copy \in N!Endpoint
  /\ poster.pc = "addCount" => poster.copy \in N!Endpoint

AtWork == {"post", "accepted", "succeeded", "resetCount", "failed", "addCount", "saveFailed"}

(* Nothing was sent at first. *)
LEMMA NoticeInit == N!Init => NoticeInv
<1> SUFFICES ASSUME N!Init PROVE NoticeInv
  OBVIOUS
<1>1. N!TypeOK
  <2>1. endpoint \in N!Endpoint /\ poster \in N!Poster /\ mail \in N!Mail
    BY NoticesAssumption DEF N!Init, N!Endpoint, N!Poster, N!PosterIdle, N!Gone, N!Mail
  <2> QED BY <2>1, NoticesAssumption DEF N!Init, N!TypeOK, N!NoticeStatus
<1> QED BY <1>1 DEF N!Init, NoticeInv, Repeats, MailRepeats, Recording, Accepting,
                    N!PosterIdle, N!NoCall

(* The processor at work is on a delivery that has a job.                   *)
LEMMA PosterAtWork ==
  ASSUME NoticeInv, poster # N!PosterIdle
  PROVE  /\ poster = [of |-> poster.of, copy |-> poster.copy, pc |-> poster.pc]
         /\ poster.of \in Notices /\ poster.copy \in N!Endpoint \cup {N!Gone}
         /\ poster.pc \in AtWork
         /\ attempts[poster.of] \in 1..NoticeRetries
<1>1. poster \in [of : Notices, copy : N!Endpoint \cup {N!Gone}, pc : AtWork]
  BY DEF NoticeInv, N!TypeOK, N!Poster, N!PosterIdle, AtWork
<1>2. attempts[poster.of] \in 0..NoticeRetries /\ attempts[poster.of] > 0
  BY <1>1 DEF NoticeInv, N!TypeOK
<1> QED BY <1>1, <1>2, NoticesAssumption

(* A processor that is at work is not idle. *)
LEMMA PosterIdles == ASSUME NoticeInv, poster.pc \in AtWork PROVE poster # N!PosterIdle
BY DEF N!PosterIdle, AtWork

(* What a step needs to keep the invariant.                                 *)
LEMMA NoticeKeeps ==
  ASSUME NoticeInv,
         endpoint' \in N!Endpoint \cup {N!Gone},
         delivery' \in [Notices -> N!NoticeStatus],
         attempts' \in [Notices -> 0..NoticeRetries],
         accepted' \in [Notices -> Nat],
         \/ poster' = N!PosterIdle
         \/ /\ poster' \in [of : Notices, copy : N!Endpoint \cup {N!Gone}, pc : AtWork]
            /\ attempts'[poster'.of] > 0
            /\ poster'.pc \in {"resetCount", "addCount"} => poster'.copy \in N!Endpoint,
         mail' \in N!Mail, breaks' \in Nat,
         operator' \in [wants : N!Wants, copy : N!Endpoint] \cup {N!NoCall},
         \A n \in Notices : Repeats(n)', MailRepeats'
  PROVE  NoticeInv'
<1>1. poster' \in N!Poster
  BY DEF N!Poster, N!PosterIdle, AtWork
<1>2. poster' # N!PosterIdle => attempts'[poster'.of] > 0
  OBVIOUS
<1>3. poster'.pc \in {"resetCount", "addCount"} => poster'.copy \in N!Endpoint
  BY DEF N!PosterIdle
<1> QED BY <1>1, <1>2, <1>3 DEF NoticeInv, N!TypeOK

(* Counting a failure, or resetting the count, leaves a row of an endpoint. *)
LEMMA CountedRows ==
  ASSUME NEW kept \in N!Endpoint
  PROVE  /\ N!CountFailure(kept) \in N!Endpoint
         /\ [kept EXCEPT !.failures = 0] \in N!Endpoint
         /\ \A status \in {"ACTIVE", "DISABLED"} : [kept EXCEPT !.status = status] \in N!Endpoint
<1>1. kept.failures \in 0..2 * NoticeRetries /\ 2 * NoticeRetries \in Nat
  BY NoticesAssumption DEF N!Endpoint
<1> QED BY <1>1 DEF N!CountFailure, N!Endpoint

\* a step of the processor that takes it from work on n to elsewhere
(* The processor goes on with its delivery.                                 *)
LEMMA PosterGoesOn ==
  ASSUME NoticeInv, poster.pc \in AtWork, NEW pc \in AtWork, N!Goto(pc)
  PROVE  /\ poster' \in [of : Notices, copy : N!Endpoint \cup {N!Gone}, pc : AtWork]
         /\ poster'.of = poster.of /\ poster'.pc = pc /\ poster'.copy = poster.copy
<1>1. /\ poster = [of |-> poster.of, copy |-> poster.copy, pc |-> poster.pc]
      /\ poster.of \in Notices /\ poster.copy \in N!Endpoint \cup {N!Gone}
  BY PosterAtWork, PosterIdles
<1>2. poster' = [of |-> poster.of, copy |-> poster.copy, pc |-> pc]
  BY <1>1 DEF N!Goto
<1> QED BY <1>1, <1>2

(* Every step keeps the count of what was sent within what broke. *)
LEMMA NoticeNext == NoticeInv /\ [N!Next]_noticeVars => NoticeInv'
<1> SUFFICES ASSUME NoticeInv, [N!Next]_noticeVars PROVE NoticeInv'
  OBVIOUS
<1>0. /\ endpoint \in N!Endpoint \cup {N!Gone}
      /\ delivery \in [Notices -> N!NoticeStatus]
      /\ attempts \in [Notices -> 0..NoticeRetries]
      /\ accepted \in [Notices -> Nat]
      /\ mail \in N!Mail /\ breaks \in Nat
      /\ operator \in [wants : N!Wants, copy : N!Endpoint] \cup {N!NoCall}
      /\ NoticeRetries \in Nat /\ MailAttempts \in Nat
  BY NoticesAssumption DEF NoticeInv, N!TypeOK
<1>p. \/ poster = N!PosterIdle
      \/ /\ poster \in [of : Notices, copy : N!Endpoint \cup {N!Gone}, pc : AtWork]
         /\ attempts[poster.of] > 0
         /\ poster.pc \in {"resetCount", "addCount"} => poster.copy \in N!Endpoint
  BY DEF NoticeInv, N!TypeOK, N!Poster, N!PosterIdle, AtWork
<1>q. (\A n \in Notices : Repeats(n)) /\ MailRepeats
  BY DEF NoticeInv
<1>m. UNCHANGED mail /\ (breaks' = breaks \/ breaks' = breaks + 1) => MailRepeats' /\ mail' \in N!Mail
  <2>1. mail.sent \in Nat
    BY <1>0 DEF N!Mail
  <2> QED BY <1>0, <1>q, <2>1 DEF MailRepeats
<1>n. N!PosterIdle.pc = "idle"
  BY DEF N!PosterIdle
<1>1. ASSUME NEW n \in Notices, N!SendWebhook(n) PROVE NoticeInv'
  <2>1. poster # N!PosterIdle => poster.of # n
    BY <1>1, <1>p, <1>q DEF N!SendWebhook, Repeats
  <2>2. /\ delivery' \in [Notices -> N!NoticeStatus]
        /\ attempts' \in [Notices -> 0..NoticeRetries]
        /\ breaks' = breaks \/ breaks' = breaks + 1
        /\ \A x \in Notices : x # n => attempts'[x] = attempts[x] /\ delivery'[x] = delivery[x]
    BY <1>0, <1>1 DEF N!SendWebhook, N!NoticeStatus, N!Break
  <2>3. UNCHANGED <<endpoint, accepted, poster, operator, mail>>
    BY <1>1 DEF N!SendWebhook
  <2>4. accepted[n] = 0 /\ delivery'[n] = "PENDING"
    BY <1>0, <1>1, <1>q DEF N!SendWebhook, Repeats
  <2>5. ASSUME NEW x \in Notices PROVE Repeats(x)'
    BY <1>0, <1>q, <2>2, <2>3, <2>4 DEF Repeats, Recording
  <2> QED BY <1>0, <1>p, <1>m, <2>1, <2>2, <2>3, <2>5, NoticeKeeps
<1>2. ASSUME NEW wants \in N!Wants, N!ReadEndpoint(wants) PROVE NoticeInv'
  <2>1. operator' \in [wants : N!Wants, copy : N!Endpoint]
    BY <1>0, <1>2 DEF N!ReadEndpoint
  <2>2. UNCHANGED <<endpoint, delivery, attempts, accepted, poster, mail, breaks>>
    BY <1>2 DEF N!ReadEndpoint
  <2>3. \A x \in Notices : Repeats(x)'
    BY <1>q, <2>2 DEF Repeats, Recording
  <2> QED BY <1>0, <1>p, <1>m, <2>1, <2>2, <2>3, NoticeKeeps
<1>3. CASE N!SaveEndpoint
  <2>1. endpoint' \in N!Endpoint \cup {N!Gone}
    <3>1. operator.copy \in N!Endpoint /\ operator.wants \in N!Wants
      BY <1>0, <1>3 DEF N!SaveEndpoint
    <3>2. [status |-> "ACTIVE", failures |-> 0] \in N!Endpoint
      BY <1>0 DEF N!Endpoint
    <3> QED BY <1>3, <3>1, <3>2, CountedRows DEF N!SaveEndpoint, N!Wants
  <2>2. UNCHANGED <<delivery, attempts, accepted, poster, mail, breaks>> /\ operator' = N!NoCall
    BY <1>3 DEF N!SaveEndpoint
  <2>3. \A x \in Notices : Repeats(x)'
    BY <1>q, <2>2 DEF Repeats, Recording
  <2> QED BY <1>0, <1>p, <1>m, <2>1, <2>2, <2>3, NoticeKeeps
<1>4. CASE N!SendEmail
  <2>1. UNCHANGED <<endpoint, delivery, attempts, accepted, poster, operator>>
        /\ (breaks' = breaks \/ breaks' = breaks + 1)
    BY <1>4 DEF N!SendEmail, N!Break
  <2>2. mail' \in N!Mail /\ MailRepeats'
    <3>1. mail.sent = 0 /\ mail.left = 0
      BY <1>4, <1>q DEF N!SendEmail, MailRepeats
    <3>2. ASSUME NEW left \in 0..MailAttempts, mail' = [mail EXCEPT !.status = "PENDING", !.left = left]
          PROVE  mail'.sent = 0 /\ mail'.status = "PENDING" /\ mail' \in N!Mail
      BY <1>0, <3>1, <3>2 DEF N!Mail
    <3>a. ASSUME mail' = [mail EXCEPT !.status = "PENDING"]
          PROVE  mail'.sent = 0 /\ mail'.status = "PENDING" /\ mail' \in N!Mail
      BY <1>0, <3>1, <3>a DEF N!Mail
    <3>b. MailAttempts \in 0..MailAttempts
      BY <1>0
    <3>3. mail'.sent = 0 /\ mail'.status = "PENDING" /\ mail' \in N!Mail
      BY <1>4, <3>2, <3>a, <3>b DEF N!SendEmail
    <3> QED BY <1>0, <2>1, <3>3 DEF MailRepeats
  <2>3. \A x \in Notices : Repeats(x)'
    BY <1>0, <1>q, <2>1 DEF Repeats, Recording
  <2> QED BY <1>0, <1>p, <2>1, <2>2, <2>3, NoticeKeeps
<1>5. CASE N!HandleEmailDelivery
  <2>1. UNCHANGED <<endpoint, delivery, attempts, accepted, poster, operator>>
        /\ (breaks' = breaks \/ breaks' = breaks + 1)
    BY <1>5 DEF N!HandleEmailDelivery, N!Break
  <2>2. mail.sent \in Nat /\ mail.sent <= breaks /\ mail.left \in 1..MailAttempts /\ mail.status # "none"
    BY <1>0, <1>5, <1>q DEF N!HandleEmailDelivery, MailRepeats, N!Mail
  <2>3. CASE mail' = [mail EXCEPT !.status = "FAILED", !.left = @ - 1]
    <3>1. mail' \in N!Mail /\ mail'.sent = mail.sent /\ mail'.status = "FAILED"
      <4>1. mail.left - 1 \in 0..MailAttempts
        BY <1>0, <2>2
      <4> DEFINE left == mail.left - 1
      <4>2. mail' = [mail EXCEPT !.status = "FAILED", !.left = left]
        BY <1>0, <2>3
      <4> HIDE DEF left
      <4> QED BY <1>0, <4>1, <4>2 DEF N!Mail, left
    <3>2. MailRepeats'
      BY <1>0, <2>1, <2>2, <3>1 DEF MailRepeats
    <3>3. \A x \in Notices : Repeats(x)'
      BY <1>0, <1>q, <2>1 DEF Repeats, Recording
    <3> QED BY <1>0, <1>p, <2>1, <3>1, <3>2, <3>3, NoticeKeeps
  <2>4. ASSUME NEW status \in {"SENT", "FAILED", mail.status}, NEW left \in 0..MailAttempts,
               mail' = [status |-> status, left |-> left, sent |-> mail.sent + 1],
               left = 0 \/ breaks' = breaks + 1
        PROVE  NoticeInv'
    <3>1. mail' \in N!Mail
      BY <1>0, <2>2, <2>4 DEF N!Mail
    <3>2. MailRepeats'
      BY <1>0, <2>1, <2>2, <2>4 DEF MailRepeats
    <3>3. \A x \in Notices : Repeats(x)'
      BY <1>0, <1>q, <2>1 DEF Repeats, Recording
    <3> QED BY <1>0, <1>p, <2>1, <3>1, <3>2, <3>3, NoticeKeeps
  <2>5. mail.left - 1 \in 0..MailAttempts /\ 0 \in 0..MailAttempts
    BY <1>0, <2>2
  <2> QED BY <1>5, <2>3, <2>4, <2>5 DEF N!HandleEmailDelivery, N!Break
<1>6. ASSUME NEW n \in Notices, N!HandleWebhookDelivery(n) PROVE NoticeInv'
  <2>0. poster = N!PosterIdle /\ attempts[n] \in 1..NoticeRetries
        /\ UNCHANGED <<endpoint, accepted, operator, mail>>
    BY <1>0, <1>6 DEF N!HandleWebhookDelivery
  <2>a. accepted[n] <= breaks /\ delivery[n] # "none" /\ \A x \in Notices : ~Recording(x)
    BY <1>n, <1>q, <2>0 DEF Repeats, Recording, Accepting
  <2>1. CASE /\ delivery' = [delivery EXCEPT ![n] = "RETRYING"]
             /\ poster' = [pc |-> "post", of |-> n, copy |-> N!Gone]
             /\ UNCHANGED <<attempts, breaks>>
    <3>1. /\ poster' \in [of : Notices, copy : N!Endpoint \cup {N!Gone}, pc : AtWork]
          /\ poster'.of = n /\ poster'.pc = "post"
      BY <2>1 DEF AtWork
    <3>2. \A x \in Notices : Repeats(x)'
      BY <1>0, <1>q, <2>0, <2>a, <2>1, <3>1 DEF Repeats, Recording, Accepting
    <3>3. delivery' \in [Notices -> N!NoticeStatus]
      BY <1>0, <2>1 DEF N!NoticeStatus
    <3> QED BY <1>0, <1>m, <2>0, <2>1, <3>1, <3>2, <3>3, NoticeKeeps
  <2>2. CASE /\ N!Break
             /\ attempts' = [attempts EXCEPT ![n] = @ - 1]
             /\ UNCHANGED <<delivery, poster>>
    <3>1. breaks' = breaks + 1
      BY <2>2 DEF N!Break
    <3>2. \A x \in Notices : Repeats(x)'
      BY <1>0, <1>q, <2>0, <2>a, <2>2, <3>1 DEF Repeats, Recording, Accepting
    <3>3. attempts' \in [Notices -> 0..NoticeRetries]
      BY <1>0, <2>0, <2>2
    <3> QED BY <1>0, <1>m, <2>0, <2>2, <3>1, <3>2, <3>3, NoticeKeeps
  <2> QED BY <1>6, <2>1, <2>2 DEF N!HandleWebhookDelivery
\* the processor goes on: nobody's attempts change, and what leaves the
\* record of an acceptance was broken
<1>7. ASSUME poster.pc \in AtWork, NEW pc \in AtWork, N!Goto(pc),
             endpoint' \in N!Endpoint \cup {N!Gone},
             delivery' \in [Notices -> N!NoticeStatus],
             \A x \in Notices : delivery'[x] = "none" => delivery[x] = "none",
             UNCHANGED <<accepted, attempts, operator, mail>>,
             \/ /\ breaks' = breaks
                /\ poster.pc \in Accepting => pc \in Accepting
             \/ breaks' = breaks + 1,
             pc \notin {"resetCount", "addCount"}
      PROVE  NoticeInv'
  <2>1. /\ poster' \in [of : Notices, copy : N!Endpoint \cup {N!Gone}, pc : AtWork]
        /\ poster'.of = poster.of /\ poster'.pc = pc /\ poster'.copy = poster.copy
    BY <1>7, PosterGoesOn
  <2>2. attempts'[poster'.of] > 0 /\ poster.of \in Notices
    BY <1>7, <2>1, PosterAtWork, PosterIdles
  <2>3. ASSUME NEW x \in Notices PROVE Repeats(x)'
    BY <1>0, <1>q, <1>7, <2>1 DEF Repeats, Recording
  <2> QED BY <1>0, <1>m, <1>7, <2>1, <2>2, <2>3, NoticeKeeps
<1>8. ASSUME poster.pc \in AtWork, (N!JobThrew /\ poster.pc \notin Accepting) \/ N!JobCompleted,
             endpoint' \in N!Endpoint \cup {N!Gone},
             delivery' \in [Notices -> N!NoticeStatus],
             \A x \in Notices : delivery'[x] = "none" => delivery[x] = "none",
             UNCHANGED <<accepted, operator, mail>>,
             breaks' = breaks \/ breaks' = breaks + 1
      PROVE  NoticeInv'
  <2>1. attempts[poster.of] \in 1..NoticeRetries /\ poster.of \in Notices
    BY <1>8, PosterAtWork, PosterIdles
  <2>2. /\ attempts' \in [Notices -> 0..NoticeRetries]
        /\ poster' = N!PosterIdle
        /\ \A x \in Notices : x # poster.of => attempts'[x] = attempts[x]
    BY <1>0, <1>8, <2>1 DEF N!JobThrew, N!JobCompleted
  <2>3. attempts'[poster.of] = 0 \/ poster.pc \notin Accepting
    BY <1>0, <1>8, <2>1 DEF N!JobCompleted
  <2>4. \A x \in Notices : ~Recording(x)'
    BY <1>n, <2>2 DEF Recording, Accepting
  <2>5. ASSUME NEW x \in Notices PROVE Repeats(x)'
    <3>1. CASE x # poster.of
      BY <1>0, <1>q, <1>8, <2>2, <2>4, <3>1 DEF Repeats, Recording
    <3>2. CASE x = poster.of
      BY <1>0, <1>q, <1>8, <2>1, <2>2, <2>3, <2>4, <3>2 DEF Repeats, Recording
    <3> QED BY <3>1, <3>2
  <2> QED BY <1>0, <1>m, <1>8, <2>2, <2>5, NoticeKeeps
\* the endpoint's row is read for a save
<1>9. ASSUME poster.pc \in AtWork, NEW pc \in {"resetCount", "addCount"},
             poster' = [poster EXCEPT !.pc = pc, !.copy = endpoint],
             poster.pc \in Accepting => pc \in Accepting,
             endpoint # N!Gone,
             UNCHANGED <<endpoint, delivery, accepted, attempts, operator, mail, breaks>>
      PROVE  NoticeInv'
  <2>1. /\ poster = [of |-> poster.of, copy |-> poster.copy, pc |-> poster.pc]
        /\ poster.of \in Notices /\ attempts[poster.of] > 0
    BY <1>9, PosterAtWork, PosterIdles
  <2>2. poster' = [of |-> poster.of, copy |-> endpoint, pc |-> pc]
    BY <1>9, <2>1
  <2>3. /\ poster' \in [of : Notices, copy : N!Endpoint \cup {N!Gone}, pc : AtWork]
        /\ poster'.of = poster.of /\ poster'.pc = pc /\ poster'.copy \in N!Endpoint
    BY <1>0, <1>9, <2>1, <2>2 DEF AtWork
  <2>4. ASSUME NEW x \in Notices PROVE Repeats(x)'
    BY <1>0, <1>q, <1>9, <2>3 DEF Repeats, Recording
  <2> QED BY <1>0, <1>m, <1>9, <2>1, <2>3, <2>4, NoticeKeeps
<1>10. CASE N!Post
  <2>0. poster.pc = "post" /\ "post" \in AtWork /\ "accepted" \in AtWork /\ "failed" \in AtWork
        /\ UNCHANGED <<endpoint, delivery, attempts, operator, mail>>
    BY <1>10 DEF N!Post, AtWork
  <2>a. poster.of \in Notices /\ attempts[poster.of] > 0
    BY <2>0, PosterAtWork, PosterIdles
  <2>1. CASE N!Goto("failed") /\ UNCHANGED <<accepted, breaks>>
    BY <1>0, <1>7, <2>0, <2>1 DEF Accepting
  <2>2. ASSUME accepted' = [accepted EXCEPT ![poster.of] = @ + 1], NEW pc \in {"accepted", "failed"},
               N!Goto(pc), \/ pc = "accepted" /\ breaks' = breaks
                           \/ breaks' = breaks + 1
        PROVE  NoticeInv'
    <3>1. /\ poster' \in [of : Notices, copy : N!Endpoint \cup {N!Gone}, pc : AtWork]
          /\ poster'.of = poster.of /\ poster'.pc = pc
      BY <2>0, <2>2, PosterGoesOn
    <3>2. accepted[poster.of] <= breaks /\ delivery[poster.of] # "none"
      BY <1>q, <2>0, <2>a DEF Repeats, Recording, Accepting
    <3>3. ASSUME NEW x \in Notices PROVE Repeats(x)'
      <4>1. CASE x # poster.of
        BY <1>0, <1>q, <2>0, <2>2, <3>1, <4>1 DEF Repeats, Recording
      <4>2. CASE x = poster.of
        BY <1>0, <2>0, <2>2, <3>1, <3>2, <4>2 DEF Repeats, Recording, Accepting
      <4> QED BY <4>1, <4>2
    <3>4. accepted' \in [Notices -> Nat]
      BY <1>0, <2>2, <2>a
    <3> QED BY <1>0, <1>m, <2>0, <2>a, <2>2, <3>1, <3>3, <3>4, NoticeKeeps
  <2> QED BY <1>10, <2>1, <2>2 DEF N!Post, N!Break
<1>11. CASE N!SaveSuccess
  <2>0. poster.pc = "accepted" /\ "accepted" \in AtWork /\ "succeeded" \in AtWork /\ "failed" \in AtWork
        /\ UNCHANGED <<endpoint, accepted, attempts, operator, mail>>
    BY <1>11 DEF N!SaveSuccess, AtWork
  <2>1. CASE N!Goto("succeeded") /\ UNCHANGED breaks
             /\ delivery' = [delivery EXCEPT ![poster.of] = "SUCCESS"]
    <3>1. /\ delivery' \in [Notices -> N!NoticeStatus]
          /\ \A x \in Notices : delivery'[x] = "none" => delivery[x] = "none"
      BY <1>0, <2>1 DEF N!NoticeStatus
    <3> QED BY <1>0, <1>7, <2>0, <2>1, <3>1 DEF Accepting
  <2>2. CASE N!Goto("failed") /\ N!Break /\ UNCHANGED delivery
    BY <1>0, <1>7, <2>0, <2>2 DEF N!Break
  <2> QED BY <1>11, <2>1, <2>2 DEF N!SaveSuccess
<1>12. CASE N!ReadForReset
  <2>0. poster.pc = "succeeded" /\ "succeeded" \in AtWork /\ "failed" \in AtWork
        /\ UNCHANGED <<endpoint, delivery, accepted, operator, mail>>
    BY <1>12 DEF N!ReadForReset, AtWork
  <2>1. CASE endpoint = N!Gone /\ N!JobCompleted /\ UNCHANGED breaks
    BY <1>0, <1>8, <2>0, <2>1
  <2>2. CASE /\ endpoint # N!Gone
             /\ poster' = [poster EXCEPT !.pc = "resetCount", !.copy = endpoint]
             /\ UNCHANGED <<attempts, breaks>>
    BY <1>9, <2>0, <2>2 DEF Accepting
  <2>3. CASE N!Goto("failed") /\ N!Break /\ UNCHANGED attempts
    BY <1>0, <1>7, <2>0, <2>3 DEF N!Break
  <2> QED BY <1>12, <2>1, <2>2, <2>3 DEF N!ReadForReset
<1>13. CASE N!ResetCount
  <2>0. poster.pc = "resetCount" /\ "resetCount" \in AtWork /\ "failed" \in AtWork
        /\ poster.copy \in N!Endpoint
        /\ UNCHANGED <<delivery, accepted, operator, mail>>
    BY <1>13 DEF N!ResetCount, AtWork, NoticeInv
  <2>1. CASE endpoint' = [poster.copy EXCEPT !.failures = 0] /\ N!JobCompleted /\ UNCHANGED breaks
    BY <1>0, <1>8, <2>0, <2>1, CountedRows
  <2>2. CASE N!Goto("failed") /\ N!Break /\ UNCHANGED <<endpoint, attempts>>
    BY <1>0, <1>7, <2>0, <2>2 DEF N!Break
  <2> QED BY <1>13, <2>1, <2>2 DEF N!ResetCount
<1>14. CASE N!ReadForCount
  <2>0. poster.pc = "failed" /\ "failed" \in AtWork /\ "saveFailed" \in AtWork
        /\ "failed" \notin Accepting
        /\ UNCHANGED <<endpoint, delivery, accepted, operator, mail>>
    BY <1>14 DEF N!ReadForCount, AtWork, Accepting
  <2>1. CASE endpoint = N!Gone /\ N!Goto("saveFailed") /\ UNCHANGED <<attempts, breaks>>
    BY <1>0, <1>7, <2>0, <2>1
  <2>2. CASE /\ endpoint # N!Gone
             /\ poster' = [poster EXCEPT !.pc = "addCount", !.copy = endpoint]
             /\ UNCHANGED <<attempts, breaks>>
    BY <1>9, <2>0, <2>2
  <2>3. CASE N!Break /\ N!JobThrew
    BY <1>0, <1>8, <2>0, <2>3 DEF N!Break
  <2> QED BY <1>14, <2>1, <2>2, <2>3 DEF N!ReadForCount
<1>15. CASE N!AddCount
  <2>0. poster.pc = "addCount" /\ "addCount" \in AtWork /\ "saveFailed" \in AtWork
        /\ "addCount" \notin Accepting /\ poster.copy \in N!Endpoint
        /\ UNCHANGED <<delivery, accepted, operator, mail>>
    BY <1>15 DEF N!AddCount, AtWork, Accepting, NoticeInv
  <2>1. CASE endpoint' = N!CountFailure(poster.copy) /\ N!Goto("saveFailed")
             /\ UNCHANGED <<attempts, breaks>>
    BY <1>0, <1>7, <2>0, <2>1, CountedRows
  <2>2. CASE N!Break /\ N!JobThrew /\ UNCHANGED endpoint
    BY <1>0, <1>8, <2>0, <2>2 DEF N!Break
  <2> QED BY <1>15, <2>1, <2>2 DEF N!AddCount
<1>16. CASE N!SaveFailed
  <2>0. poster.pc = "saveFailed" /\ "saveFailed" \in AtWork /\ "saveFailed" \notin Accepting
        /\ N!JobThrew /\ UNCHANGED <<endpoint, accepted, operator, mail>>
    BY <1>16 DEF N!SaveFailed, AtWork, Accepting
  <2>1. breaks' = breaks \/ breaks' = breaks + 1
    BY <1>16 DEF N!SaveFailed, N!Break
  <2>2. /\ delivery' \in [Notices -> N!NoticeStatus]
        /\ \A x \in Notices : delivery'[x] = "none" => delivery[x] = "none"
    BY <1>0, <1>16 DEF N!SaveFailed, N!NoticeStatus
  <2> QED BY <1>0, <1>8, <2>0, <2>1, <2>2
<1>17. CASE UNCHANGED noticeVars
  <2>1. UNCHANGED <<endpoint, delivery, attempts, accepted, poster, operator, mail, breaks>>
    BY <1>17 DEF noticeVars
  <2>2. \A x \in Notices : Repeats(x)'
    BY <1>q, <2>1 DEF Repeats, Recording
  <2> QED BY <1>0, <1>p, <1>m, <2>1, <2>2, NoticeKeeps
<1> QED BY <1>1, <1>2, <1>3, <1>4, <1>5, <1>6, <1>10, <1>11, <1>12, <1>13, <1>14, <1>15,
           <1>16, <1>17 DEF N!Next, N!Deliver

(* The step that makes the endpoint active is a request's save, or the      *)
(* processor's save of a row it read as active.                             *)
LEMMA NoticeRevives ==
  ASSUME NoticeInv, [N!Next]_noticeVars, endpoint.status # "ACTIVE", endpoint'.status = "ACTIVE"
  PROVE  (operator # N!NoCall /\ operator' = N!NoCall) \/ poster.copy.status = "ACTIVE"
<1>1. CASE N!SaveEndpoint
  BY <1>1 DEF N!SaveEndpoint
<1>2. ASSUME poster.copy \in N!Endpoint,
             \/ endpoint' = [poster.copy EXCEPT !.failures = 0]
             \/ endpoint' = N!CountFailure(poster.copy)
      PROVE  poster.copy.status = "ACTIVE"
  BY <1>2 DEF N!CountFailure, N!Endpoint
<1>3. CASE N!ResetCount
  BY <1>2, <1>3 DEF N!ResetCount, NoticeInv
<1>4. CASE N!AddCount
  BY <1>2, <1>4 DEF N!AddCount, NoticeInv
<1>5. CASE UNCHANGED endpoint
  BY <1>5
<1>6. ASSUME NEW n \in Notices, N!SendWebhook(n) \/ N!HandleWebhookDelivery(n) PROVE UNCHANGED endpoint
  BY <1>6 DEF N!SendWebhook, N!HandleWebhookDelivery
<1>7. ASSUME NEW wants, N!ReadEndpoint(wants) PROVE UNCHANGED endpoint
  BY <1>7 DEF N!ReadEndpoint
<1>8. ASSUME \/ N!SendEmail \/ N!HandleEmailDelivery \/ N!Post \/ N!SaveSuccess
             \/ N!ReadForReset \/ N!ReadForCount \/ N!SaveFailed
      PROVE  UNCHANGED endpoint
  BY <1>8 DEF N!SendEmail, N!HandleEmailDelivery, N!Post, N!SaveSuccess, N!ReadForReset,
              N!ReadForCount, N!SaveFailed
<1>9. UNCHANGED noticeVars => UNCHANGED endpoint
  BY DEF noticeVars
<1> QED BY <1>1, <1>3, <1>4, <1>5, <1>6, <1>7, <1>8, <1>9 DEF N!Next, N!Deliver

-----------------------------------------------------------------------------
(* A list of steps that makes its invoice first, if it makes one.           *)
InvoiceFirst(todo) == \A i \in 2..Len(todo) : todo[i] # "invoice"
StartsWithInvoice(todo) == todo # <<>> /\ Head(todo) = "invoice"

(* The cycles a call's copy counts have their invoices among made, but for  *)
(* the cycle whose invoice is the call's next step; and a call that saw the *)
(* subscription cancelled keeps it so, unless it is an update.              *)
CallOK(c, made) ==
  /\ c \in B!Call
  /\ c.todo = <<>> => c = B!Idle
  /\ InvoiceFirst(c.todo)
  /\ 1..(IF StartsWithInvoice(c.todo) THEN c.copy.cycles - 1 ELSE c.copy.cycles) \subseteq made[c.of]
  /\ c.op # "update" /\ c.seen = "CANCELLED" => c.copy.status = "CANCELLED"

(* The processor runs a job of the queue, no request runs any, and a job is *)
(* active exactly while it is run.                                          *)
QueueOK(jobs, calling) ==
  /\ jobs \in [JobIds -> B!Job \cup {NoJob}]
  /\ \A h \in ApiCalls : calling[h].job = NoJob
  /\ calling[B!Processor].job # NoJob => jobs[calling[B!Processor].job] # NoJob
  /\ \A j \in JobIds : jobs[j] # NoJob => (jobs[j].active <=> calling[B!Processor].job = j)

BillInv ==
  /\ B!BillingTypeOK
  /\ invoiced \in [Subscriptions -> SUBSET Nat]
  /\ B!CountedCyclesAreInvoiced
  /\ QueueOK(job, handler)
  /\ \A h \in B!Handlers : CallOK(handler[h], invoiced)

-----------------------------------------------------------------------------
(* A list of steps that makes no invoice. *)
Plain(todo) ==
  todo \in Seq(B!Steps) /\ todo # <<>> /\ InvoiceFirst(todo) /\ ~StartsWithInvoice(todo)

(* The steps of every kind of call. *)
LEMMA Lists ==
  /\ Plain(<<"save">>)
  /\ Plain(<<"unschedule", "save">>)
  /\ Plain(<<"save", "schedulePayment">>)
  /\ Plain(<<"save", "scheduleTrialEnd">>)
  /\ Plain(<<"scheduleResume", "unschedule", "save">>)
  /\ \A y \in {"cancel", "schedulePayment"} :
       LET q == <<"invoice", "save", y>> IN
       q \in Seq(B!Steps) /\ InvoiceFirst(q) /\ StartsWithInvoice(q) /\ q # <<>>
BY DEF B!Steps, InvoiceFirst, StartsWithInvoice, Plain

(* What is left of a list after its first step starts no other invoice.     *)
LEMMA RestOfList ==
  ASSUME NEW todo \in Seq(B!Steps), todo # <<>>, InvoiceFirst(todo)
  PROVE  /\ Tail(todo) \in Seq(B!Steps)
         /\ InvoiceFirst(Tail(todo)) /\ ~StartsWithInvoice(Tail(todo))
<1>1. /\ Tail(todo) \in Seq(B!Steps) /\ Len(Tail(todo)) = Len(todo) - 1 /\ Len(todo) \in Nat
      /\ \A i \in 1..Len(todo) - 1 : Tail(todo)[i] = todo[i + 1]
  OBVIOUS
<1>2. ASSUME NEW i \in 1..Len(Tail(todo)) PROVE Tail(todo)[i] # "invoice"
  <2>1. i + 1 \in 2..Len(todo) /\ Tail(todo)[i] = todo[i + 1]
    BY <1>1
  <2> QED BY <2>1 DEF InvoiceFirst
<1>3. InvoiceFirst(Tail(todo))
  BY <1>1, <1>2 DEF InvoiceFirst
<1>4. Tail(todo) # <<>> => 1 \in 1..Len(Tail(todo)) /\ Head(Tail(todo)) = Tail(todo)[1]
  BY <1>1
<1> QED BY <1>1, <1>2, <1>3, <1>4 DEF StartsWithInvoice

(* A handler that rests is in order and runs no job. *)
LEMMA IdleOK == ASSUME NEW made PROVE CallOK(B!Idle, made) /\ B!Idle.job = NoJob
<1>1. B!Idle.todo = <<>> /\ B!Idle.copy.cycles = 0 /\ B!Idle.op = "none" /\ B!Idle.seen = "none"
  BY DEF B!Idle, B!NoRow
<1>2. B!Idle \in B!Call
  BY BillingAssumption DEF B!Idle, B!Call, B!NoRow, B!Row
<1>3. InvoiceFirst(<<>>) /\ ~StartsWithInvoice(<<>>)
  BY DEF InvoiceFirst, StartsWithInvoice
<1> QED BY <1>1, <1>2, <1>3 DEF CallOK, B!Idle

(* More invoices do no call any harm. *)
LEMMA MoreInvoices ==
  ASSUME NEW c, NEW made, NEW more, CallOK(c, made),
         \A s \in Subscriptions : made[s] \subseteq more[s]
  PROVE  CallOK(c, more)
<1>1. c.of \in Subscriptions
  BY DEF CallOK, B!Call
<1> QED BY <1>1 DEF CallOK

(* A call that is past its invoice goes on. *)
LEMMA RestOK ==
  ASSUME NEW c, NEW made, CallOK(c, made), c.todo # <<>>,
         1..c.copy.cycles \subseteq made[c.of]
  PROVE  CallOK([c EXCEPT !.todo = Tail(c.todo)], made) \/ Tail(c.todo) = <<>>
<1>1. c.todo \in Seq(B!Steps) /\ c \in B!Call
  BY DEF CallOK, B!Call
<1>2. /\ Tail(c.todo) \in Seq(B!Steps)
      /\ InvoiceFirst(Tail(c.todo)) /\ ~StartsWithInvoice(Tail(c.todo))
  BY <1>1, RestOfList DEF CallOK
<1> DEFINE d == [c EXCEPT !.todo = Tail(c.todo)]
<1>3. /\ d \in B!Call /\ d.todo = Tail(c.todo) /\ d.copy = c.copy /\ d.of = c.of
      /\ d.op = c.op /\ d.seen = c.seen
  BY <1>1, <1>2 DEF B!Call
<1> HIDE DEF d
<1>4. c.op # "update" /\ c.seen = "CANCELLED" => c.copy.status = "CANCELLED"
  BY DEF CallOK
<1>5. Tail(c.todo) # <<>> => CallOK(d, made)
  BY <1>2, <1>3, <1>4 DEF CallOK
<1> QED BY <1>5 DEF d

-----------------------------------------------------------------------------
(* What a step needs to keep the invariant.                                 *)
LEMMA BillKeeps ==
  ASSUME subscription' \in [Subscriptions -> B!Row],
         \A s \in Subscriptions : 1..subscription'[s].cycles \subseteq invoiced'[s],
         invoiced' \in [Subscriptions -> SUBSET Nat],
         parked' \subseteq {"trial", "resume"} \X Subscriptions,
         DOMAIN handler' = B!Handlers, handler' = [h \in B!Handlers |-> handler'[h]],
         today' \in 1..BillingLastDay,
         QueueOK(job', handler'),
         \A h \in B!Handlers : CallOK(handler'[h], invoiced')
  PROVE  BillInv'
<1>1. handler' \in [B!Handlers -> B!Call]
  BY DEF CallOK
<1>2. \A s \in Subscriptions : invoiced'[s] \subseteq Nat
  OBVIOUS
<1>3. /\ \A j \in JobIds : job'[j] # NoJob => job'[j] \in B!Job
      /\ \A j \in JobIds : job'[j] # NoJob => (job'[j].active <=> handler'[B!Processor].job = j)
  BY DEF QueueOK
<1>4. B!BillingTypeOK'
  BY <1>1, <1>2, <1>3 DEF B!BillingTypeOK
<1>5. B!CountedCyclesAreInvoiced' /\ QueueOK(job, handler)' /\ \A h \in B!Handlers : CallOK(handler[h], invoiced)'
  BY DEF B!CountedCyclesAreInvoiced
<1> QED BY <1>4, <1>5 DEF BillInv

(* The facts of the invariant, in the form the steps use.                   *)
LEMMA BillFacts ==
  ASSUME BillInv
  PROVE  /\ subscription \in [Subscriptions -> B!Row]
         /\ \A s \in Subscriptions : 1..subscription[s].cycles \subseteq invoiced[s]
         /\ invoiced \in [Subscriptions -> SUBSET Nat]
         /\ parked \subseteq {"trial", "resume"} \X Subscriptions
         /\ handler \in [B!Handlers -> B!Call]
         /\ today \in 1..BillingLastDay /\ today \in Nat
         /\ QueueOK(job, handler)
         /\ \A h \in B!Handlers : CallOK(handler[h], invoiced)
         /\ B!Processor \in B!Handlers /\ ApiCalls \subseteq B!Handlers
BY BillingAssumption DEF BillInv, B!BillingTypeOK, B!CountedCyclesAreInvoiced, B!Handlers

(* Nothing is subscribed or called at first. *)
LEMMA BillInit == B!BillingInit => BillInv
<1> SUFFICES ASSUME B!BillingInit PROVE BillInv
  OBVIOUS
<1>1. /\ subscription \in [Subscriptions -> B!Row]
      /\ \A s \in Subscriptions : 1..subscription[s].cycles \subseteq invoiced[s]
      /\ invoiced \in [Subscriptions -> SUBSET Nat]
  BY DEF B!BillingInit, B!NoRow, B!Row
<1>2. B!Processor \in B!Handlers /\ ApiCalls \subseteq B!Handlers
  BY DEF B!Handlers
<1>3. QueueOK(job, handler)
  BY <1>2, IdleOK DEF B!BillingInit, QueueOK
<1>4. \A h \in B!Handlers : CallOK(handler[h], invoiced)
  BY IdleOK DEF B!BillingInit
<1>5. handler \in [B!Handlers -> B!Call]
  BY <1>4 DEF B!BillingInit, CallOK
<1>6. B!BillingTypeOK
  BY <1>1, <1>3, <1>5, BillingAssumption DEF B!BillingInit, B!BillingTypeOK, QueueOK
<1> QED BY <1>1, <1>3, <1>4, <1>6 DEF BillInv, B!CountedCyclesAreInvoiced

(* A call is accepted: by a request, or by the processor for a job.         *)
LEMMA Begins ==
  ASSUME BillInv, NEW op \in {"update", "other"}, NEW h \in B!Handlers, NEW s \in Subscriptions,
         NEW copy \in B!Row, NEW todo \in Seq(B!Steps), NEW resumeAt \in Int, NEW j,
         B!Begin(op, h, s, copy, todo, resumeAt, j),
         todo # <<>>, InvoiceFirst(todo),
         1..(IF StartsWithInvoice(todo) THEN copy.cycles - 1 ELSE copy.cycles) \subseteq invoiced[s],
         op # "update" /\ subscription[s].status = "CANCELLED" => copy.status = "CANCELLED",
         \/ j = NoJob /\ h \in ApiCalls
         \/ /\ j \in JobIds /\ h = B!Processor
            /\ job[j] # NoJob /\ handler[B!Processor].job = NoJob
  PROVE  BillInv'
<1> DEFINE c == [op |-> op, of |-> s, seen |-> subscription[s].status, copy |-> copy, todo |-> todo,
                 resumeAt |-> resumeAt, job |-> j]
<1>0. /\ subscription \in [Subscriptions -> B!Row]
      /\ invoiced \in [Subscriptions -> SUBSET Nat]
      /\ handler \in [B!Handlers -> B!Call]
      /\ QueueOK(job, handler)
      /\ \A x \in B!Handlers : CallOK(handler[x], invoiced)
      /\ B!Processor \in B!Handlers /\ ApiCalls \subseteq B!Handlers
      /\ B!Processor \notin ApiCalls /\ NoJob \notin JobIds
  BY BillFacts, BillingAssumption
<1>1. c \in B!Call
  <2>1. subscription[s].status \in B!SubscriptionStatus \cup {"none"}
    BY <1>0 DEF B!Row
  <2> QED BY <2>1 DEF B!Call
<1>2. CallOK(c, invoiced)
  BY <1>1 DEF CallOK
<1>3. /\ handler' = [handler EXCEPT ![h] = c]
      /\ job' = IF j = NoJob THEN job ELSE [job EXCEPT ![j].active = TRUE]
      /\ UNCHANGED <<subscription, invoiced, parked, today>>
  BY DEF B!Begin
<1>c. c.job = j
  OBVIOUS
<1> HIDE DEF c
<1>4. \A x \in B!Handlers : CallOK(handler'[x], invoiced')
  BY <1>0, <1>2, <1>3
<1>5. QueueOK(job', handler')
  <2>1. CASE j = NoJob /\ h \in ApiCalls
    BY <1>0, <1>3, <1>c, <2>1 DEF QueueOK
  <2>2. CASE j \in JobIds /\ h = B!Processor
    <3>1. job[j] \in B!Job /\ handler[B!Processor].job = NoJob
      BY <1>0, <2>2 DEF QueueOK
    <3>2. [job[j] EXCEPT !.active = TRUE] \in B!Job /\ [job[j] EXCEPT !.active = TRUE].active = TRUE
      BY <3>1 DEF B!Job
    <3>3. job' = [job EXCEPT ![j] = [job[j] EXCEPT !.active = TRUE]]
      BY <1>0, <1>3, <2>2
    <3>4. job' \in [JobIds -> B!Job \cup {NoJob}] /\ job'[j] = [job[j] EXCEPT !.active = TRUE]
          /\ \A x \in JobIds : x # j => job'[x] = job[x]
      BY <1>0, <2>2, <3>2, <3>3 DEF QueueOK
    <3>5. handler'[B!Processor].job = j /\ \A x \in ApiCalls : handler'[x] = handler[x]
      BY <1>0, <1>3, <1>c, <2>2
    <3>6. \A x \in JobIds : x # j /\ job[x] # NoJob => ~job[x].active
      BY <1>0, <2>2, <3>1 DEF QueueOK
    <3>7. \A x \in JobIds : job'[x] # NoJob => (job'[x].active <=> j = x)
      BY <3>2, <3>4, <3>6
    <3>8. \A x \in ApiCalls : handler'[x].job = NoJob
      BY <1>0, <3>5 DEF QueueOK
    <3>9. job'[j] # NoJob
      BY <3>2, <3>4, BillingAssumption
    <3> QED BY <3>4, <3>5, <3>7, <3>8, <3>9 DEF QueueOK
  <2> QED BY <2>1, <2>2
<1>6. handler' = [x \in B!Handlers |-> handler'[x]] /\ DOMAIN handler' = B!Handlers
  BY <1>0, <1>3
<1> QED BY <1>3, <1>4, <1>5, <1>6, BillFacts, BillKeeps

(* A call is over, by its last step or by a throw: its job, if it has one,  *)
(* is put in its place or removed.                                          *)
LEMMA Ends ==
  ASSUME BillInv, NEW h \in B!Handlers, NEW jobs, QueueOK(jobs, handler),
         handler[h].job # NoJob =>
           \/ job' = [jobs EXCEPT ![handler[h].job] = NoJob]
           \/ \E q \in B!Job : job' = [jobs EXCEPT ![handler[h].job] = q] /\ ~q.active,
         handler[h].job = NoJob => job' = jobs,
         handler' = [handler EXCEPT ![h] = B!Idle]
  PROVE  QueueOK(job', handler')
<1>0. /\ handler \in [B!Handlers -> B!Call]
      /\ B!Processor \in B!Handlers /\ ApiCalls \subseteq B!Handlers
      /\ B!Processor \notin ApiCalls /\ NoJob \notin JobIds /\ B!Idle.job = NoJob
      /\ NoJob \notin B!Job
  BY BillFacts, BillingAssumption, IdleOK
<1>1. CASE handler[h].job = NoJob
  <2>1. \A x \in B!Handlers : handler'[x].job = handler[x].job
    BY <1>0, <1>1
  <2> QED BY <1>0, <1>1, <2>1 DEF QueueOK
<1>2. CASE handler[h].job # NoJob
  <2> DEFINE k == handler[h].job
  <2>1. h = B!Processor /\ k \in JobIds
    <3>1. h \notin ApiCalls
      BY <1>2 DEF QueueOK
    <3>2. handler[h] \in B!Call
      BY <1>0
    <3> QED BY <1>2, <3>1, <3>2 DEF B!Handlers, B!Call
  <2>2. handler'[B!Processor].job = NoJob /\ \A x \in ApiCalls : handler'[x].job = NoJob
    BY <1>0, <2>1 DEF QueueOK
  <2>3. /\ job' \in [JobIds -> B!Job \cup {NoJob}]
        /\ \A x \in JobIds : x # k => job'[x] = jobs[x]
        /\ job'[k] # NoJob => ~job'[k].active
    <3>1. CASE job' = [jobs EXCEPT ![k] = NoJob]
      BY <2>1, <3>1 DEF QueueOK
    <3>2. ASSUME NEW q \in B!Job, job' = [jobs EXCEPT ![k] = q], ~q.active
          PROVE  <2>3!1 /\ <2>3!2 /\ <2>3!3
      BY <2>1, <3>2 DEF QueueOK
    <3> QED BY <1>2, <3>1, <3>2
  <2>4. \A x \in JobIds : x # k /\ jobs[x] # NoJob => ~jobs[x].active
    BY <2>1 DEF QueueOK
  <2> HIDE DEF k
  <2>5. \A x \in JobIds : job'[x] # NoJob => ~job'[x].active
    BY <2>3, <2>4
  <2>6. \A x \in JobIds : x # NoJob
    BY <1>0
  <2> QED BY <2>2, <2>3, <2>5, <2>6 DEF QueueOK
<1> QED BY <1>1, <1>2

(* The step at hand of a call is done: the call goes on or is over.         *)
LEMMA Continues ==
  ASSUME BillInv, NEW h \in B!Handlers, NEW jobs, QueueOK(jobs, handler),
         handler[h].todo # <<>>, B!Continue(h, jobs),
         subscription' \in [Subscriptions -> B!Row],
         \A s \in Subscriptions : 1..subscription'[s].cycles \subseteq invoiced'[s],
         invoiced' \in [Subscriptions -> SUBSET Nat],
         \A s \in Subscriptions : invoiced[s] \subseteq invoiced'[s],
         1..handler[h].copy.cycles \subseteq invoiced'[handler[h].of],
         parked' \subseteq {"trial", "resume"} \X Subscriptions,
         today' = today
  PROVE  BillInv'
<1>0. /\ handler \in [B!Handlers -> B!Call]
      /\ \A x \in B!Handlers : CallOK(handler[x], invoiced)
      /\ today \in 1..BillingLastDay
      /\ B!Processor \in B!Handlers /\ ApiCalls \subseteq B!Handlers
  BY BillFacts
<1>1. \A x \in B!Handlers : CallOK(handler[x], invoiced')
  BY <1>0, MoreInvoices
<1>2. CASE Tail(handler[h].todo) = <<>>
  <2>1. handler' = [handler EXCEPT ![h] = B!Idle] /\ job' = B!Over(h, jobs)
    BY <1>2 DEF B!Continue
  <2>2. QueueOK(job', handler')
    BY <2>1, Ends DEF B!Over
  <2>3. \A x \in B!Handlers : CallOK(handler'[x], invoiced')
    BY <1>0, <1>1, <2>1, IdleOK
  <2>4. handler' = [x \in B!Handlers |-> handler'[x]] /\ DOMAIN handler' = B!Handlers
    BY <1>0, <2>1
  <2> QED BY <1>0, <2>2, <2>3, <2>4, BillKeeps
<1>3. CASE Tail(handler[h].todo) # <<>>
  <2> DEFINE c == [handler[h] EXCEPT !.todo = Tail(handler[h].todo)]
  <2>1. handler' = [handler EXCEPT ![h] = c] /\ job' = jobs
    BY <1>0, <1>3 DEF B!Continue
  <2>2. CallOK(c, invoiced')
    BY <1>1, <1>3, RestOK
  <2>3. c.job = handler[h].job
    BY <1>0 DEF B!Call
  <2> HIDE DEF c
  <2>4. \A x \in B!Handlers : handler'[x].job = handler[x].job
    BY <1>0, <2>1, <2>3
  <2>5. QueueOK(job', handler')
    BY <1>0, <2>1, <2>4 DEF QueueOK
  <2>6. \A x \in B!Handlers : CallOK(handler'[x], invoiced')
    BY <1>0, <1>1, <2>1, <2>2
  <2>7. handler' = [x \in B!Handlers |-> handler'[x]] /\ DOMAIN handler' = B!Handlers
    BY <1>0, <2>1
  <2> QED BY <1>0, <2>5, <2>6, <2>7, BillKeeps
<1> QED BY <1>2, <1>3

(* A request is accepted that makes no invoice. *)
LEMMA RequestBegins ==
  ASSUME BillInv, NEW op \in {"update", "other"}, NEW h \in ApiCalls, NEW s \in Subscriptions,
         NEW copy \in B!Row, NEW todo, Plain(todo), NEW resumeAt \in Int,
         B!Begin(op, h, s, copy, todo, resumeAt, NoJob),
         copy.cycles = 0 \/ copy.cycles = subscription[s].cycles,
         op = "update" \/ subscription[s].status # "CANCELLED"
  PROVE  BillInv'
<1>1. h \in B!Handlers /\ 1..subscription[s].cycles \subseteq invoiced[s]
  BY BillFacts
<1>2. 1..copy.cycles \subseteq invoiced[s]
  BY <1>1
<1>3. todo \in Seq(B!Steps) /\ todo # <<>> /\ InvoiceFirst(todo) /\ ~StartsWithInvoice(todo)
  BY DEF Plain
<1> QED BY <1>1, <1>2, <1>3, Begins

(* Every step keeps rows, jobs and calls in order. *)
LEMMA BillNext == BillInv /\ [B!BillingNext]_billingVars => BillInv'
<1> SUFFICES ASSUME BillInv, [B!BillingNext]_billingVars PROVE BillInv'
  OBVIOUS
<1>0. /\ subscription \in [Subscriptions -> B!Row]
      /\ \A s \in Subscriptions : 1..subscription[s].cycles \subseteq invoiced[s]
      /\ invoiced \in [Subscriptions -> SUBSET Nat]
      /\ parked \subseteq {"trial", "resume"} \X Subscriptions
      /\ handler \in [B!Handlers -> B!Call]
      /\ today \in 1..BillingLastDay /\ today \in Nat
      /\ QueueOK(job, handler)
      /\ \A h \in B!Handlers : CallOK(handler[h], invoiced)
      /\ B!Processor \in B!Handlers /\ ApiCalls \subseteq B!Handlers
  BY BillFacts
<1>a. /\ BillingLastDay \in Nat \ {0} /\ UpdateStatuses \subseteq B!SubscriptionStatus
      /\ NoJob \notin JobIds /\ NoJob \notin B!Job /\ Attempts \in Nat \ {0}
  BY BillingAssumption
\* a copy of a stored row
<1>f. ASSUME NEW s \in Subscriptions, NEW status \in B!SubscriptionStatus
      PROVE  LET copy == [subscription[s] EXCEPT !.status = status] IN
             copy \in B!Row /\ copy.cycles = subscription[s].cycles /\ copy.status = status
  BY <1>0, <1>f DEF B!Row
<1>g. ASSUME NEW s \in Subscriptions
      PROVE  LET copy == [subscription[s] EXCEPT !.cancelAtPeriodEnd = TRUE] IN
             copy \in B!Row /\ copy.cycles = subscription[s].cycles /\ copy.status = subscription[s].status
  BY <1>0, <1>g DEF B!Row
<1>h. ASSUME NEW s \in Subscriptions
      PROVE  /\ subscription[s].cycles \in Nat /\ subscription[s].periodEnd \in Int
             /\ subscription[s].status \in B!SubscriptionStatus \cup {"none"}
  BY <1>0, <1>h DEF B!Row
<1>1. ASSUME NEW h \in ApiCalls, NEW s \in Subscriptions, NEW trial \in BOOLEAN,
             B!CreateSubscription(h, s, trial)
      PROVE  BillInv'
  <2> DEFINE start == IF trial THEN B!CalculateNextBillingDate(today) ELSE today
             copy == [status |-> IF trial THEN "TRIALING" ELSE "ACTIVE",
                      periodEnd |-> B!CalculateNextBillingDate(start), trialEnd |-> start,
                      cancelAtPeriodEnd |-> FALSE, cycles |-> 0]
             q == <<"save", IF trial THEN "scheduleTrialEnd" ELSE "schedulePayment">>
  <2>1. copy \in B!Row /\ copy.cycles = 0
    BY <1>0, <1>1 DEF B!Row, B!SubscriptionStatus, B!CalculateNextBillingDate
  <2>2. B!Begin("other", h, s, copy, q, 0, NoJob) /\ subscription[s].status = "none"
    BY <1>1 DEF B!CreateSubscription
  <2>3. Plain(q)
    <3>1. CASE trial
      BY <3>1, Lists
    <3>2. CASE ~trial
      BY <3>2, Lists
    <3> QED BY <3>1, <3>2
  <2> HIDE DEF copy, q
  <2> QED BY <2>1, <2>2, <2>3, RequestBegins
<1>2. ASSUME NEW h \in ApiCalls, NEW s \in Subscriptions, NEW atEnd \in BOOLEAN,
             NEW status \in UpdateStatuses \cup {subscription[s].status},
             B!UpdateSubscription(h, s, atEnd, status)
      PROVE  BillInv'
  <2> DEFINE copy == [subscription[s] EXCEPT !.cancelAtPeriodEnd = atEnd, !.status = status]
             q == <<"save">>
  <2>1. copy \in B!Row /\ copy.cycles = subscription[s].cycles
    <3>1. status \in B!SubscriptionStatus \cup {"none"}
      BY <1>a, <1>h
    <3>2. subscription[s] \in B!Row
      BY <1>0
    <3> QED BY <3>1, <3>2 DEF B!Row
  <2>2. B!Begin("update", h, s, copy, q, 0, NoJob)
    BY <1>2 DEF B!UpdateSubscription
  <2>3. Plain(q)
    BY Lists
  <2> HIDE DEF copy, q
  <2> QED BY <2>1, <2>2, <2>3, RequestBegins
<1>3. ASSUME NEW h \in ApiCalls, NEW s \in Subscriptions, NEW atEnd \in BOOLEAN,
             B!CancelSubscription(h, s, atEnd)
      PROVE  BillInv'
  <2>0. subscription[s].status # "CANCELLED"
    BY <1>3 DEF B!CancelSubscription
  <2>1. CASE atEnd
    <3> DEFINE copy == [subscription[s] EXCEPT !.cancelAtPeriodEnd = TRUE]
               q == <<"save">>
    <3>1. copy \in B!Row /\ copy.cycles = subscription[s].cycles
      BY <1>g
    <3>2. B!Begin("other", h, s, copy, q, 0, NoJob)
      BY <1>3, <2>1 DEF B!CancelSubscription
    <3>3. Plain(q)
      BY Lists
    <3> HIDE DEF copy, q
    <3> QED BY <2>0, <3>1, <3>2, <3>3, RequestBegins
  <2>2. CASE ~atEnd
    <3> DEFINE copy == [subscription[s] EXCEPT !.status = "CANCELLED"]
               q == <<"unschedule", "save">>
    <3>1. copy \in B!Row /\ copy.cycles = subscription[s].cycles
      BY <1>f DEF B!SubscriptionStatus
    <3>2. B!Begin("other", h, s, copy, q, 0, NoJob)
      BY <1>3, <2>2 DEF B!CancelSubscription
    <3>3. Plain(q)
      BY Lists
    <3> HIDE DEF copy, q
    <3> QED BY <2>0, <3>1, <3>2, <3>3, RequestBegins
  <2> QED BY <2>1, <2>2
<1>4. ASSUME NEW h \in ApiCalls, NEW s \in Subscriptions, NEW at \in {0, today + 1},
             B!PauseSubscription(h, s, at)
      PROVE  BillInv'
  <2> DEFINE copy == [subscription[s] EXCEPT !.status = "PAUSED"]
             q == IF at = 0 THEN <<"unschedule", "save">>
                  ELSE <<"scheduleResume", "unschedule", "save">>
  <2>1. copy \in B!Row /\ copy.cycles = subscription[s].cycles
    BY <1>f DEF B!SubscriptionStatus
  <2>2. Plain(q)
    BY Lists
  <2>3. B!Begin("other", h, s, copy, q, at, NoJob) /\ subscription[s].status # "CANCELLED"
    BY <1>4 DEF B!PauseSubscription
  <2>4. at \in Int
    BY <1>0
  <2> HIDE DEF copy, q
  <2> QED BY <2>1, <2>2, <2>3, <2>4, RequestBegins
<1>5. ASSUME NEW h \in ApiCalls, NEW s \in Subscriptions, NEW at \in {today, today + 1},
             B!ResumeSubscription(h, s, at)
      PROVE  BillInv'
  <2> DEFINE end == B!CalculateNextBillingDate(at)
             copy == [subscription[s] EXCEPT !.status = "ACTIVE", !.periodEnd = end]
             q == <<"save", "schedulePayment">>
  <2>1. B!Begin("other", h, s, copy, q, 0, NoJob) /\ subscription[s].status # "CANCELLED"
    BY <1>5 DEF B!ResumeSubscription
  <2>2. end \in Int /\ subscription[s] \in B!Row
    BY <1>0 DEF B!CalculateNextBillingDate
  <2>3. Plain(q)
    BY Lists
  <2> HIDE DEF q, end
  <2>4. copy \in B!Row /\ copy.cycles = subscription[s].cycles
    BY <2>2 DEF B!SubscriptionStatus, B!Row
  <2> HIDE DEF copy
  <2> QED BY <2>1, <2>3, <2>4, RequestBegins
<1>6. ASSUME NEW h \in B!Handlers, NEW s \in Subscriptions, NEW j,
             B!ProcessSubscriptionPayment(h, s, j),
             \/ j = NoJob /\ h \in ApiCalls
             \/ /\ j \in JobIds /\ h = B!Processor
                /\ job[j] # NoJob /\ handler[B!Processor].job = NoJob
      PROVE  BillInv'
  <2> DEFINE copy == [subscription[s] EXCEPT !.cycles = @ + 1,
                        !.periodEnd = B!CalculateNextBillingDate(@)]
             q == B!PaySteps(subscription[s])
  <2>1. copy \in B!Row /\ copy.cycles = subscription[s].cycles + 1
    <3> DEFINE more == subscription[s].cycles + 1
               end == subscription[s].periodEnd + 1
    <3>1. subscription[s] \in B!Row /\ more \in Nat /\ end \in Int
      BY <1>0, <1>h
    <3>2. copy = [subscription[s] EXCEPT !.cycles = more, !.periodEnd = end]
      BY DEF B!CalculateNextBillingDate
    <3> HIDE DEF copy, more, end
    <3>3. copy \in B!Row /\ copy.cycles = more
      BY <3>1, <3>2 DEF B!Row
    <3> QED BY <3>3 DEF more
  <2>2. q \in Seq(B!Steps) /\ InvoiceFirst(q) /\ StartsWithInvoice(q) /\ q # <<>>
    <3>1. CASE subscription[s].cancelAtPeriodEnd
      BY <3>1, Lists DEF B!PaySteps
    <3>2. CASE ~subscription[s].cancelAtPeriodEnd
      BY <3>2, Lists DEF B!PaySteps
    <3> QED BY <3>1, <3>2
  <2>3. B!Begin("other", h, s, copy, q, 0, j) /\ subscription[s].status # "CANCELLED"
    BY <1>6 DEF B!ProcessSubscriptionPayment
  <2>4. 1..copy.cycles - 1 \subseteq invoiced[s]
    <3>1. copy.cycles - 1 = subscription[s].cycles
      BY <1>h, <2>1
    <3> QED BY <1>0, <3>1
  <2> HIDE DEF copy, q
  <2> QED BY <1>6, <2>1, <2>2, <2>3, <2>4, Begins
<1>7. ASSUME NEW h \in ApiCalls, B!ApiCall(h) PROVE BillInv'
  BY <1>0, <1>1, <1>2, <1>3, <1>4, <1>5, <1>6, <1>7 DEF B!ApiCall
\* the copy of a call past its invoice is backed
<1>c. ASSUME NEW h \in B!Handlers, NEW name, B!Step(h, name), name # "invoice"
      PROVE  /\ 1..handler[h].copy.cycles \subseteq invoiced[handler[h].of]
             /\ handler[h] \in B!Call /\ handler[h].todo # <<>>
  BY <1>0, <1>c DEF B!Step, CallOK, StartsWithInvoice
<1>8. ASSUME NEW h \in B!Handlers, B!Invoice(h) PROVE BillInv'
  <2> DEFINE c == handler[h]
  <2>1. /\ c \in B!Call /\ c.todo # <<>> /\ c.of \in Subscriptions /\ c.copy.cycles \in Nat
        /\ 1..c.copy.cycles - 1 \subseteq invoiced[c.of]
    <3>1. c \in B!Call /\ StartsWithInvoice(c.todo)
      BY <1>0, <1>8 DEF B!Invoice, B!Step, StartsWithInvoice
    <3>2. c.copy \in B!Row /\ c.of \in Subscriptions
      BY <3>1 DEF B!Call
    <3>3. 1..c.copy.cycles - 1 \subseteq invoiced[c.of]
      BY <1>0, <3>1 DEF CallOK
    <3> QED BY <3>1, <3>2, <3>3 DEF B!Row, StartsWithInvoice
  <2>2. invoiced' = [invoiced EXCEPT ![c.of] = @ \cup {c.copy.cycles}]
        /\ B!Continue(h, job) /\ UNCHANGED <<subscription, parked, today>>
    BY <1>8 DEF B!Invoice
  <2> HIDE DEF c
  <2>3. /\ invoiced' \in [Subscriptions -> SUBSET Nat]
        /\ \A s \in Subscriptions : invoiced[s] \subseteq invoiced'[s]
        /\ invoiced'[c.of] = invoiced[c.of] \cup {c.copy.cycles}
    BY <1>0, <2>1, <2>2
  <2>4. 1..c.copy.cycles \subseteq invoiced'[c.of]
    BY <2>1, <2>3
  <2>5. \A s \in Subscriptions : 1..subscription'[s].cycles \subseteq invoiced'[s]
    BY <1>0, <2>2, <2>3
  <2> QED BY <1>0, <2>1, <2>2, <2>3, <2>4, <2>5, Continues DEF c
<1>9. ASSUME NEW h \in B!Handlers, B!Save(h) PROVE BillInv'
  <2>1. /\ 1..handler[h].copy.cycles \subseteq invoiced[handler[h].of]
        /\ handler[h] \in B!Call /\ handler[h].todo # <<>>
    BY <1>9, <1>c DEF B!Save
  <2>2. subscription' = [subscription EXCEPT ![handler[h].of] = handler[h].copy]
        /\ B!Continue(h, job) /\ UNCHANGED <<invoiced, parked, today>>
    BY <1>9 DEF B!Save
  <2>3. handler[h].copy \in B!Row /\ handler[h].of \in Subscriptions
    BY <2>1 DEF B!Call
  <2>4. /\ subscription' \in [Subscriptions -> B!Row]
        /\ \A s \in Subscriptions : 1..subscription'[s].cycles \subseteq invoiced'[s]
    BY <1>0, <2>1, <2>2, <2>3
  <2> QED BY <1>0, <2>1, <2>2, <2>4, Continues
\* a step that changes neither rows nor invoices
<1>d. ASSUME NEW h \in B!Handlers, NEW name, B!Step(h, name), name # "invoice",
             NEW jobs, QueueOK(jobs, handler), B!Continue(h, jobs),
             UNCHANGED <<subscription, invoiced, today>>,
             parked' \subseteq {"trial", "resume"} \X Subscriptions
      PROVE  BillInv'
  <2>1. /\ 1..handler[h].copy.cycles \subseteq invoiced[handler[h].of] /\ handler[h].todo # <<>>
    BY <1>c, <1>d
  <2> QED BY <1>0, <1>d, <2>1, Continues
<1>10. ASSUME NEW h \in B!Handlers, B!ScheduleNextPayment(h) PROVE BillInv'
  <2> DEFINE due == handler[h].copy.periodEnd
  <2>0. B!Step(h, "schedulePayment") /\ UNCHANGED <<subscription, invoiced, parked, today>>
    BY <1>10 DEF B!ScheduleNextPayment
  <2>1. CASE B!Continue(h, job)
    BY <1>0, <1>d, <2>0, <2>1
  <2>2. ASSUME NEW j \in JobIds, job[j] = NoJob,
               B!Continue(h, [job EXCEPT ![j] = [of |-> handler[h].of, due |-> due,
                                                 tries |-> 0, active |-> FALSE]])
        PROVE  BillInv'
    <3> DEFINE new == [of |-> handler[h].of, due |-> due, tries |-> 0, active |-> FALSE]
    <3>1. new \in B!Job /\ ~new.active
      <4>1. handler[h] \in B!Call
        BY <1>0
      <4>2. handler[h].copy \in B!Row /\ handler[h].of \in Subscriptions
        BY <4>1 DEF B!Call
      <4> QED BY <1>a, <4>2 DEF B!Job, B!Row
    <3> HIDE DEF new
    <3>2. handler[B!Processor].job # j
      BY <1>0, <1>a, <2>2 DEF QueueOK
    <3>3. QueueOK([job EXCEPT ![j] = new], handler)
      BY <1>0, <1>a, <2>2, <3>1, <3>2 DEF QueueOK
    <3>4. B!Continue(h, [job EXCEPT ![j] = new])
      BY <2>2 DEF new
    <3> QED BY <1>0, <1>d, <2>0, <3>3, <3>4
  <2> QED BY <1>10, <2>1, <2>2 DEF B!ScheduleNextPayment
<1>11. ASSUME NEW h \in B!Handlers, NEW queue \in {"trial", "resume"}, NEW due, NEW name,
              B!Step(h, name), name # "invoice", B!Park(h, queue, due)
       PROVE  BillInv'
  <2>1. handler[h].of \in Subscriptions
    BY <1>0 DEF B!Call
  <2>2. /\ B!Continue(h, job) /\ UNCHANGED <<subscription, invoiced, today>>
        /\ parked' \subseteq {"trial", "resume"} \X Subscriptions
    BY <1>0, <1>11, <2>1 DEF B!Park
  <2> QED BY <1>0, <1>11, <1>d, <2>2
<1>12. ASSUME NEW h \in B!Handlers, B!ScheduleTrialEnd(h) \/ B!ScheduleResume(h) PROVE BillInv'
  BY <1>11, <1>12 DEF B!ScheduleTrialEnd, B!ScheduleResume
<1>13. ASSUME NEW h \in B!Handlers, B!CancelScheduledPayments(h) PROVE BillInv'
  <2>1. PICK removed \in SUBSET {j \in JobIds :
                             job[j] # NoJob /\ job[j].of = handler[h].of /\ ~job[j].active} :
          B!Continue(h, [j \in JobIds |-> IF j \in removed THEN NoJob ELSE job[j]])
    BY <1>13 DEF B!CancelScheduledPayments
  <2> DEFINE jobs == [j \in JobIds |-> IF j \in removed THEN NoJob ELSE job[j]]
  <2>2. /\ jobs \in [JobIds -> B!Job \cup {NoJob}]
        /\ \A j \in JobIds : jobs[j] # NoJob => jobs[j] = job[j]
        /\ \A j \in JobIds : job[j] # NoJob /\ job[j].active => jobs[j] = job[j]
    BY <1>0, <2>1 DEF QueueOK
  <2>3. handler[B!Processor].job # NoJob => handler[B!Processor].job \in JobIds
    BY <1>0 DEF B!Call
  <2> HIDE DEF jobs
  <2>4. QueueOK(jobs, handler)
    BY <1>0, <2>2, <2>3 DEF QueueOK
  <2>5. B!Step(h, "unschedule") /\ UNCHANGED <<subscription, invoiced, parked, today>>
        /\ B!Continue(h, jobs)
    BY <1>13, <2>1 DEF B!CancelScheduledPayments, jobs
  <2> QED BY <1>0, <1>d, <2>4, <2>5
<1>14. ASSUME NEW h \in B!Handlers, B!CancelAtPeriodEnd(h) PROVE BillInv'
  <2> DEFINE s == handler[h].of
             copy == [subscription[s] EXCEPT !.status = "CANCELLED"]
             c == [handler[h] EXCEPT !.seen = subscription[s].status, !.copy = copy,
                                     !.todo = <<"unschedule", "save">>]
  <2>1. handler[h] \in B!Call /\ s \in Subscriptions
    BY <1>0 DEF B!Call
  <2>2. copy \in B!Row /\ copy.cycles = subscription[s].cycles /\ copy.status = "CANCELLED"
    BY <1>f, <2>1 DEF B!SubscriptionStatus
  <2>3. /\ <<"unschedule", "save">> \in Seq(B!Steps) /\ <<"unschedule", "save">> # <<>>
        /\ InvoiceFirst(<<"unschedule", "save">>) /\ ~StartsWithInvoice(<<"unschedule", "save">>)
    BY Lists DEF Plain
  <2>4. UNCHANGED <<subscription, invoiced, job, parked, today>> /\ handler' = [handler EXCEPT ![h] = c]
    BY <1>14 DEF B!CancelAtPeriodEnd
  <2>s. subscription[s].status \in B!SubscriptionStatus \cup {"none"} /\ 1..subscription[s].cycles \subseteq invoiced[s]
    BY <1>0, <1>h, <2>1
  <2> HIDE DEF copy
  <2>5. /\ c \in B!Call /\ c.of = s /\ c.copy = copy /\ c.todo = <<"unschedule", "save">>
        /\ c.job = handler[h].job
    BY <2>1, <2>2, <2>3, <2>s DEF B!Call
  <2> HIDE DEF c, s
  <2>6. CallOK(c, invoiced)
    BY <2>2, <2>3, <2>5, <2>s DEF CallOK
  <2>7. \A x \in B!Handlers : CallOK(handler'[x], invoiced')
    BY <1>0, <2>4, <2>6
  <2>8. \A x \in B!Handlers : handler'[x].job = handler[x].job
    BY <1>0, <2>4, <2>5
  <2>9. QueueOK(job', handler')
    BY <1>0, <2>4, <2>8 DEF QueueOK
  <2>10. handler' = [x \in B!Handlers |-> handler'[x]] /\ DOMAIN handler' = B!Handlers
    BY <1>0, <2>4
  <2> QED BY <1>0, <2>4, <2>7, <2>9, <2>10, BillKeeps
\* a failed attempt puts the job back or drops it
<1>e. ASSUME NEW j \in JobIds, job[j] # NoJob, job' = B!Retry(job, j)
      PROVE  \/ job' = [job EXCEPT ![j] = NoJob]
             \/ \E q \in B!Job : job' = [job EXCEPT ![j] = q] /\ ~q.active
  <2>1. job[j] \in B!Job
    BY <1>0, <1>e DEF QueueOK
  <2>2. CASE job[j].tries + 1 < Attempts
    <3> DEFINE more == job[j].tries + 1
               q == [job[j] EXCEPT !.tries = more, !.active = FALSE]
    <3>1. more \in 0..Attempts - 1
      BY <1>a, <2>1, <2>2 DEF B!Job
    <3>2. job' = [job EXCEPT ![j] = q]
      BY <1>0, <1>e, <2>1, <2>2 DEF B!Retry, QueueOK, B!Job
    <3> HIDE DEF more
    <3>3. q \in B!Job /\ ~q.active
      BY <2>1, <3>1 DEF B!Job
    <3> QED BY <3>2, <3>3
  <2>3. CASE ~(job[j].tries + 1 < Attempts)
    BY <1>e, <2>3 DEF B!Retry
  <2> QED BY <2>2, <2>3
<1>15. ASSUME NEW h \in B!Handlers, B!Throw(h) PROVE BillInv'
  <2>1. handler' = [handler EXCEPT ![h] = B!Idle] /\ UNCHANGED <<subscription, invoiced, parked, today>>
    BY <1>15 DEF B!Throw
  <2>2. CASE handler[h].job = NoJob
    <3>1. job' = job
      BY <1>15, <2>2 DEF B!Throw
    <3>2. QueueOK(job', handler')
      BY <1>0, <2>1, <2>2, <3>1, Ends
    <3> QED BY <1>0, <2>1, <3>2, IdleOK, BillKeeps
  <2>3. CASE handler[h].job # NoJob
    <3>1. job' = B!Retry(job, handler[h].job)
      BY <1>15, <2>3 DEF B!Throw
    <3>2. handler[h].job \in JobIds /\ h = B!Processor
      <4>1. handler[h] \in B!Call
        BY <1>0
      <4> QED BY <1>0, <2>3, <4>1 DEF B!Call, QueueOK, B!Handlers
    <3>3. job[handler[h].job] # NoJob
      BY <1>0, <2>3, <3>2 DEF QueueOK
    <3>4. QueueOK(job', handler')
      BY <1>0, <1>e, <2>1, <2>3, <3>1, <3>2, <3>3, Ends
    <3> QED BY <1>0, <2>1, <3>4, IdleOK, BillKeeps
  <2> QED BY <2>2, <2>3
<1>16. ASSUME NEW j \in JobIds, B!HandlePaymentProcess(j) PROVE BillInv'
  <2>0. handler[B!Processor].job = NoJob /\ job[j] # NoJob
    BY <1>16 DEF B!HandlePaymentProcess
  <2>j. job[j] \in B!Job /\ ~job[j].active /\ job[j].of \in Subscriptions
    BY <1>0, <1>a, <2>0 DEF QueueOK, B!Job
  <2>1. CASE B!ProcessSubscriptionPayment(B!Processor, job[j].of, j)
    BY <1>0, <1>6, <2>0, <2>1, <2>j
  <2>2. CASE job' = B!Retry(job, j) /\ UNCHANGED <<subscription, invoiced, parked, handler, today>>
    <3>1. /\ job' \in [JobIds -> B!Job \cup {NoJob}]
          /\ \A x \in JobIds : x # j => job'[x] = job[x]
          /\ job'[j] # NoJob => ~job'[j].active
      <4>1. CASE job' = [job EXCEPT ![j] = NoJob]
        BY <1>0, <4>1 DEF QueueOK
      <4>2. ASSUME NEW q \in B!Job, job' = [job EXCEPT ![j] = q], ~q.active
            PROVE  <3>1!1 /\ <3>1!2 /\ <3>1!3
        BY <1>0, <4>2 DEF QueueOK
      <4> QED BY <1>e, <2>0, <2>2, <4>1, <4>2
    <3>2. QueueOK(job', handler')
      BY <1>0, <1>a, <2>0, <2>2, <2>j, <3>1 DEF QueueOK
    <3> QED BY <1>0, <2>2, <3>2, BillKeeps
  <2> QED BY <1>16, <2>1, <2>2 DEF B!HandlePaymentProcess
<1>17. CASE B!Tick
  <2>1. UNCHANGED <<subscription, invoiced, job, parked, handler>> /\ today' \in 1..BillingLastDay
    BY <1>0, <1>17, <1>a DEF B!Tick
  <2> QED BY <1>0, <2>1, BillKeeps
<1>18. CASE UNCHANGED billingVars
  BY <1>0, <1>18, BillKeeps DEF billingVars
<1> QED BY <1>7, <1>8, <1>9, <1>10, <1>12, <1>13, <1>14, <1>15, <1>16, <1>17, <1>18
       DEF B!BillingNext, B!Progress, B!RunJob

(* The step that takes a subscription out of CANCELLED is the save of a     *)
(* call that read it before, or of an update.                               *)
LEMMA BillRevives ==
  ASSUME BillInv, [B!BillingNext]_billingVars, NEW s \in Subscriptions,
         subscription[s].status = "CANCELLED", subscription'[s].status # "CANCELLED"
  PROVE  \E h \in B!Handlers :
           /\ B!Step(h, "save") /\ handler[h].of = s
           /\ handler[h].seen # "CANCELLED" \/ handler[h].op = "update"
<1>1. ASSUME NEW h \in B!Handlers, B!Save(h)
      PROVE  \E x \in B!Handlers :
               /\ B!Step(x, "save") /\ handler[x].of = s
               /\ handler[x].seen # "CANCELLED" \/ handler[x].op = "update"
  <2>1. B!Step(h, "save") /\ subscription' = [subscription EXCEPT ![handler[h].of] = handler[h].copy]
    BY <1>1 DEF B!Save
  <2>2. CallOK(handler[h], invoiced) /\ subscription \in [Subscriptions -> B!Row]
    BY BillFacts
  <2>3. handler[h].of = s /\ handler[h].copy.status # "CANCELLED"
    BY <2>1, <2>2
  <2> QED BY <2>1, <2>2, <2>3 DEF CallOK
<1>2. ~UNCHANGED subscription
  OBVIOUS
<1>3. ASSUME NEW h, B!ApiCall(h) PROVE UNCHANGED subscription
  BY <1>3 DEF B!ApiCall, B!Begin, B!CreateSubscription, B!UpdateSubscription, B!CancelSubscription,
              B!PauseSubscription, B!ResumeSubscription, B!ProcessSubscriptionPayment
<1>4. ASSUME NEW h, B!Progress(h) PROVE UNCHANGED subscription \/ B!Save(h)
  BY <1>4 DEF B!Progress, B!Invoice, B!ScheduleNextPayment, B!ScheduleTrialEnd, B!ScheduleResume,
              B!Park, B!CancelScheduledPayments, B!CancelAtPeriodEnd, B!Throw
<1>5. B!RunJob => UNCHANGED subscription
  BY DEF B!RunJob, B!HandlePaymentProcess, B!ProcessSubscriptionPayment, B!Begin
<1>6. B!Tick \/ UNCHANGED billingVars => UNCHANGED subscription
  BY DEF B!Tick, billingVars
<1> QED BY <1>1, <1>2, <1>3, <1>4, <1>5, <1>6 DEF B!BillingNext

-----------------------------------------------------------------------------
(* What is proved of the checkout holds of the one that runs beside the     *)
(* other parts.                                                             *)
Checks == INSTANCE CheckoutProofs

(* The first states of the checkout are those its proofs are about, ... *)
LEMMA SameCheckoutInit == C!Init <=> Checks!Init
  BY DEF C!Init, Checks!Init, C!NoPayments, Checks!NoPayments, C!Absent, Checks!Absent, C!NoTx,
         Checks!NoTx, C!IdleApi, Checks!IdleApi, C!IdleRun, Checks!IdleRun

(* ... so are its types, ... *)
LEMMA SameCheckoutType == C!TypeOK <=> Checks!TypeOK
  BY DEF C!TypeOK, Checks!TypeOK, C!Store, Checks!Store, C!Payment, Checks!Payment, C!Absent,
         Checks!Absent, C!NoTx, Checks!NoTx, C!Api, Checks!Api, C!Watcher, Checks!Watcher,
         C!Transaction, Checks!Transaction, C!ApiState, Checks!ApiState, C!RunState,
         Checks!RunState

(* ... and its assumption holds. *)
LEMMA SameCheckoutAssumption == Checks!ConstantsAssumption
  BY CheckoutAssumption DEF C!ConstantsAssumption, Checks!ConstantsAssumption

(* The steps of the request, of the customers and of the crashes. *)
LEMMA SameServed == 
  /\ \A id \in Ids, amount \in Amounts : C!CreateRead(id, amount) <=> Checks!CreateRead(id, amount)
  /\ C!CreateTruncate <=> Checks!CreateTruncate
  /\ C!CreateWrite <=> Checks!CreateWrite
  /\ \A memo \in Ids \cup {NoMemo}, amounts \in SUBSET Amounts : C!Pay(memo, amounts) <=> Checks!Pay(memo, amounts)
  /\ \A id \in Ids : C!EditManualMark(id) <=> Checks!EditManualMark(id)
  /\ C!CrashWatcher <=> Checks!CrashWatcher
  /\ C!CrashApi <=> Checks!CrashApi
  BY DEF C!CreateRead, Checks!CreateRead, C!CreateTruncate, Checks!CreateTruncate, C!CreateWrite,
         Checks!CreateWrite, C!Pay, Checks!Pay, C!EditManualMark, Checks!EditManualMark,
         C!CrashWatcher, Checks!CrashWatcher, C!CrashApi, Checks!CrashApi, C!Killed,
         Checks!Killed, C!Truncate, Checks!Truncate, C!WriteText, Checks!WriteText, C!Api,
         Checks!Api, C!Watcher, Checks!Watcher, C!IdleApi, Checks!IdleApi, C!IdleRun,
         Checks!IdleRun, C!NoPayments, Checks!NoPayments, C!Absent, Checks!Absent, C!NoTx,
         Checks!NoTx

(* The steps of the watcher. *)
LEMMA SameWatched == 
  ASSUME NEW r \in Runs
  PROVE  (C!RunStep(r) <=> Checks!RunStep(r)) /\ (C!HorizonFails(r) <=> Checks!HorizonFails(r))
  BY DEF C!RunStep, Checks!RunStep, C!CheckRead, Checks!CheckRead, C!CheckReadFails,
         Checks!CheckReadFails, C!FetchTransactions, Checks!FetchTransactions,
         C!MatchTransaction, Checks!MatchTransaction, C!CheckTruncate, Checks!CheckTruncate,
         C!CheckWrite, Checks!CheckWrite, C!ManualRead, Checks!ManualRead, C!HorizonFails,
         Checks!HorizonFails, C!WatcherFree, Checks!WatcherFree, C!Page, Checks!Page, C!Matches,
         Checks!Matches, C!Credit, Checks!Credit, C!MarkManual, Checks!MarkManual, C!Truncate,
         Checks!Truncate, C!WriteText, Checks!WriteText, C!Pending, Checks!Pending, C!Watcher,
         Checks!Watcher, C!IdleRun, Checks!IdleRun, C!NoPayments, Checks!NoPayments, C!Absent,
         Checks!Absent, C!NoTx, Checks!NoTx

(* All steps of the checkout. *)
LEMMA SameCheckout == [C!Next]_checkoutVars <=> [Checks!Next]_Checks!vars
<1>1. C!Next <=> Checks!Next
  BY SameServed, SameWatched DEF C!Next, Checks!Next
<1> QED BY <1>1 DEF checkoutVars, Checks!vars

-----------------------------------------------------------------------------
(* Only one part moves: the state of the others is as it was.               *)
JobsInv ==
  /\ IInv
  /\ Checks!IInv
  /\ BillInv
  /\ HookInv
  /\ NoticeInv

(* Every part starts in order ... *)
LEMMA JobsInitInv == JobsInit => JobsInv
<1> SUFFICES ASSUME JobsInit PROVE JobsInv
  OBVIOUS
<1>1. Checks!IInv
  BY SameCheckoutInit, SameCheckoutAssumption, Checks!InitTypeOK, Checks!InitCopiesAreSound
     DEF JobsInit, Checks!IInv
<1> QED BY <1>1, InitIInv, BillInit, HookInit, NoticeInit DEF JobsInit, JobsInv

(* ... and every step keeps every part in order ... *)
LEMMA JobsNextInv == JobsInv /\ [JobsNext]_jobsVars => JobsInv'
<1> SUFFICES ASSUME JobsInv, [JobsNext]_jobsVars PROVE JobsInv'
  OBVIOUS
<1>1. [Next]_vars /\ [C!Next]_checkoutVars /\ [B!BillingNext]_billingVars
      /\ [W!Next]_webhookVars /\ [N!Next]_noticeVars
  BY DEF JobsNext, jobsVars, relayerVars, noticeVars
<1>2. IInv'
  BY <1>1, ChainSteps, ChainTypeOK, NextRequests, NextSaves, NextRows DEF JobsInv, IInv, TypeOK
<1>3. Checks!IInv'
  BY <1>1, SameCheckout, SameCheckoutAssumption, Checks!NextTypeOK, Checks!NextCopiesAreSound
     DEF JobsInv, Checks!IInv
<1> QED BY <1>1, <1>2, <1>3, BillNext, HookNext, NoticeNext DEF JobsInv

(* ... so that it is in every reachable state. *)
LEMMA JobsInvariant == JobsSpec => []JobsInv
  BY JobsInitInv, JobsNextInv, PTL DEF JobsSpec

(***************************************************************************)
(* The rows, queues and handlers of every part that retries are well       *)
(* formed in every reachable state: a job is active exactly while it is    *)
(* run, and a processor works on a job that is in its queue.               *)
(***************************************************************************)
THEOREM TypesHold == JobsSpec => []TypesOK
<1>1. JobsInv => TypesOK
  BY SameCheckoutType DEF JobsInv, IInv, Checks!IInv, BillInv, HookInv, NoticeInv, TypesOK
<1> QED BY <1>1, JobsInvariant, PTL

(***************************************************************************)
(* However many relays of a swap overlap, cross_chain_swaps says COMPLETED *)
(* or REFUNDED only of what the chain settled that way, beside the other   *)
(* parts as well.                                                          *)
(***************************************************************************)
THEOREM RowsAreBackedHolds == JobsSpec => []RowsAreBacked
<1>1. JobsInv => RowsAreBacked
  BY DEF JobsInv, IInv
<1> QED BY <1>1, JobsInvariant, PTL

(***************************************************************************)
(* A billing cycle that a row counts has its invoice, and a webhook event  *)
(* marked as delivered was answered, whatever overlaps, throws or is       *)
(* retried.                                                                *)
(***************************************************************************)
THEOREM RecordedWasDoneHolds == JobsSpec => []RecordedWasDone
<1>1. JobsInv => RecordedWasDone
  BY DEF JobsInv, BillInv, HookInv, RecordedWasDone
<1> QED BY <1>1, JobsInvariant, PTL

(***************************************************************************)
(* A notification is accepted, and a mail sent, at most once more than     *)
(* awaits threw and answers were lost.                                     *)
(***************************************************************************)
THEOREM NothingSentTwiceUnlessBrokenHolds == JobsSpec => []NothingSentTwiceUnlessBroken
<1>1. JobsInv => NothingSentTwiceUnlessBroken
  BY DEF JobsInv, NoticeInv, Repeats, MailRepeats, NothingSentTwiceUnlessBroken,
         N!NothingSentTwiceUnlessBroken
<1> QED BY <1>1, JobsInvariant, PTL

(***************************************************************************)
(* A cancelled subscription comes back, and a stopped endpoint becomes     *)
(* active, by a request for it or by the save of a row that was read       *)
(* before it was stopped, and by no other step.                            *)
(***************************************************************************)
THEOREM RevivedOnlyByStaleSavesHolds == JobsSpec => RevivedOnlyByStaleSaves
<1>1. ASSUME JobsInv, [JobsNext]_jobsVars
      PROVE  /\ [\A s \in Subscriptions :
                   subscription[s].status = "CANCELLED" /\ subscription'[s].status # "CANCELLED" =>
                     \E h \in B!Handlers :
                       /\ B!Step(h, "save") /\ handler[h].of = s
                       /\ handler[h].seen # "CANCELLED" \/ handler[h].op = "update"]_subscription
             /\ [(endpoint.status # "ACTIVE" /\ endpoint'.status = "ACTIVE")
                   => (operator # N!NoCall /\ operator' = N!NoCall)
                        \/ poster.copy.status = "ACTIVE"]_N!noticeVars
  <2>1. [B!BillingNext]_billingVars /\ [N!Next]_noticeVars
    BY <1>1 DEF JobsNext, jobsVars, relayerVars, noticeVars
  <2>2. BillInv /\ NoticeInv
    BY <1>1 DEF JobsInv
  <2> QED BY <2>1, <2>2, BillRevives, NoticeRevives
<1> QED BY <1>1, JobsInvariant, PTL
        DEF JobsSpec, RevivedOnlyByStaleSaves, B!RevivedOnlyByStaleCalls, N!RevivedOnlyByStaleSave
=============================================================================
