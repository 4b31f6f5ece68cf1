------------------------------ MODULE Relayer ------------------------------
(***************************************************************************)
(* CrossChainRelayerService over the atomic swap contract.  A request is   *)
(* handled in pieces between its awaits: the read of the swap's row, the   *)
(* transaction on the target chain, the save of the row it read.  Any      *)
(* number of requests overlap, the parties use the chain directly as well, *)
(* and the backend can be killed.  executeSwapCompletion and               *)
(* executeSwapRefund are placeholders in the source: what they do here is  *)
(* what their comments say (send the transaction, wait for confirmations,  *)
(* return the receipt) and what their callers catch.                       *)
(***************************************************************************)
EXTENDS Integers

CONSTANTS
  SwapIds, Parties, Secrets, Digests, Sha256, Amounts, Fees, Times,
  NoParty, NoSecret, NoDigest,
  Requests,     \* bound: requests the backend handles at a time
  MaxRetries    \* attempts of handleFailedRelay

(* The digests of the bounded runs: every secret has its own. *)
MCDigests == {<<"sha256", s>> : s \in Secrets}
MCSha256  == [s \in Secrets |-> <<"sha256", s>>]

VARIABLES
  admin, fee, paused, swaps, revealed, now,  \* the contract on the target chain
  row,       \* the status in cross_chain_swaps of a swap
  request    \* the requests being handled

chain == <<admin, fee, paused, swaps, revealed, now>>
vars == <<admin, fee, paused, swaps, revealed, now, row, request>>

Chain == INSTANCE AtomicSwap

ASSUME ConstantsAssumption ==
  Chain!ConstantsAssumption /\ MaxRetries \in Nat /\ SwapIds # {}

RowStatus == {"INITIATED", "COMPLETED", "REFUNDED", "EXPIRED"}

(* A handler: what it runs, where it is, the swap and secret it was given,  *)
(* the attempts of handleFailedRelay made so far, and what it told its      *)
(* caller the last time it ended.                                           *)
Idle == [op |-> "none", pc |-> "idle", id |-> CHOOSE id \in SwapIds : TRUE,
         secret |-> NoSecret, tries |-> 0]

Request ==
  [op : {"none", "completion", "refund", "retry"},
   pc : {"idle", "relaying", "sending", "saving", "failing", "backoff", "answered"},
   id : SwapIds, secret : Secrets \cup {NoSecret}, tries : 0..MaxRetries]

Init ==
  /\ Chain!Init
  /\ row = [id \in SwapIds |-> "none"]
  /\ request = [r \in Requests |-> Idle]

At(r, op, pc) == request[r].op = op /\ request[r].pc = pc
Goto(r, pc) == request' = [request EXCEPT ![r].pc = pc]
End(r) == request' = [request EXCEPT ![r] = Idle]

-----------------------------------------------------------------------------
(* Slip: a swap is stored under its status on the chain. *)
StoreSwapAnyStatus(id) ==
  /\ row[id] = "none"
  /\ swaps[id].status # "none"
  /\ row' = [row EXCEPT ![id] = swaps[id].status]
  /\ UNCHANGED <<chain, request>>

(* checkForNewSwaps stores a swap found on the chain. *)
StoreSwap(id) ==
  /\ row[id] = "none"
  /\ swaps[id].status = "initiated"
  /\ row' = [row EXCEPT ![id] = "INITIATED"]
  /\ UNCHANGED <<chain, request>>

(* relaySwapCompletion and relaySwapRefund up to their first transaction;   *)
(* a swap whose row is not INITIATED is refused.                            *)
Relay(r, op, id, secret) ==
  /\ request[r] = Idle
  /\ row[id] = "INITIATED"
  /\ request' = [request EXCEPT ![r] =
       [op |-> op, pc |-> "sending", id |-> id, secret |-> secret, tries |-> 0]]
  /\ UNCHANGED <<chain, row>>

RelaySwapCompletion(r, id, secret) == Relay(r, "completion", id, secret)
RelaySwapRefund(r, id) == Relay(r, "refund", id, NoSecret)

(* The transaction succeeds and its receipt arrives, or the await throws:   *)
(* the transaction reverted or was not sent, or its receipt was lost.       *)
ExecuteSwapCompletion(r) ==
  LET q == request[r] IN
  /\ At(r, "completion", "sending")
  /\ \/ Chain!CompleteSwap(q.id, q.secret) /\ Goto(r, "saving")
     \/ Chain!CompleteSwap(q.id, q.secret) /\ Goto(r, "failing")
     \/ UNCHANGED chain /\ Goto(r, "failing")
  /\ UNCHANGED row

SaveCompleted(r) ==
  /\ At(r, "completion", "saving")
  /\ \/ row' = [row EXCEPT ![request[r].id] = "COMPLETED"] /\ End(r)
     \/ UNCHANGED row /\ Goto(r, "failing")
  /\ UNCHANGED chain

(* The catch block: the object read at the start is saved as EXPIRED.       *)
SaveExpired(r) ==
  /\ At(r, "completion", "failing")
  /\ row' \in {[row EXCEPT ![request[r].id] = "EXPIRED"], row}
  /\ End(r)
  /\ UNCHANGED chain

(* A refund that throws ends its request, or is one failed attempt of       *)
(* handleFailedRelay.                                                       *)
RefundThrows(r) ==
  IF request[r].op = "refund" THEN End(r) ELSE Goto(r, "backoff")

(* Slip: a thrown refund is taken for a receipt. *)
ExecuteSwapRefundUncaught(r) ==
  /\ request[r].op \in {"refund", "retry"} /\ request[r].pc = "sending"
  /\ \/ Chain!RefundSwap(request[r].id)
     \/ UNCHANGED chain
  /\ Goto(r, "saving")
  /\ UNCHANGED row

ExecuteSwapRefund(r) ==
  /\ request[r].op \in {"refund", "retry"} /\ request[r].pc = "sending"
  /\ \/ Chain!RefundSwap(request[r].id) /\ Goto(r, "saving")
     \/ Chain!RefundSwap(request[r].id) /\ RefundThrows(r)
     \/ UNCHANGED chain /\ RefundThrows(r)
  /\ UNCHANGED row

SaveRefunded(r) ==
  /\ request[r].op \in {"refund", "retry"} /\ request[r].pc = "saving"
  /\ \/ /\ row' = [row EXCEPT ![request[r].id] = "REFUNDED"]
        /\ IF request[r].op = "refund" THEN End(r) ELSE Goto(r, "answered")
     \/ UNCHANGED row /\ RefundThrows(r)
  /\ UNCHANGED chain

-----------------------------------------------------------------------------
(* handleFailedRelay reads the row once.  What is not INITIATED needs no    *)
(* retry; what is, is refunded once its time lock has passed.  A swap that  *)
(* could still be completed makes it throw, which changes nothing.          *)
HandleFailedRelay(r, id) ==
  /\ request[r] = Idle
  /\ MaxRetries > 0
  /\ \/ /\ row[id] = "INITIATED" /\ swaps[id].timeLock < now
        /\ request' = [request EXCEPT ![r] =
             [op |-> "retry", pc |-> "relaying", id |-> id, secret |-> NoSecret,
              tries |-> 0]]
     \/ /\ row[id] \in RowStatus \ {"INITIATED"}
        /\ request' = [request EXCEPT ![r] =
             [op |-> "retry", pc |-> "answered", id |-> id, secret |-> NoSecret,
              tries |-> 0]]
  /\ UNCHANGED <<chain, row>>

(* Slip: failed attempts are not counted. *)
RetryUncounted(r) ==
  /\ At(r, "retry", "backoff")
  /\ Goto(r, "relaying")
  /\ UNCHANGED <<chain, row>>

(* An attempt goes by the row handleFailedRelay read, but relaySwapRefund   *)
(* reads the row again and throws when it is no longer INITIATED.           *)
Attempt(r) ==
  /\ At(r, "retry", "relaying")
  /\ Goto(r, IF row[request[r].id] = "INITIATED" THEN "sending" ELSE "backoff")
  /\ UNCHANGED <<chain, row>>

(* After the backoff: the last failure throws, any other is tried again.    *)
Retry(r) ==
  LET tries == request[r].tries + 1 IN
  /\ At(r, "retry", "backoff")
  /\ IF tries = MaxRetries THEN End(r)
     ELSE request' = [request EXCEPT ![r].tries = tries, ![r].pc = "relaying"]
  /\ UNCHANGED <<chain, row>>

(* The controller answers the caller. *)
Answer(r) ==
  /\ At(r, "retry", "answered")
  /\ End(r)
  /\ UNCHANGED <<chain, row>>

(* The backend is killed and restarted; rows and chain stay. *)
Crash ==
  /\ request # [r \in Requests |-> Idle]
  /\ request' = [r \in Requests |-> Idle]
  /\ UNCHANGED <<chain, row>>

Next ==
  \/ Chain!Next /\ UNCHANGED <<row, request>>
  \/ \E id \in SwapIds : StoreSwap(id)
  \/ \E r \in Requests, id \in SwapIds :
       \/ \E s \in Secrets : RelaySwapCompletion(r, id, s)
       \/ RelaySwapRefund(r, id)
       \/ HandleFailedRelay(r, id)
  \/ \E r \in Requests :
       \/ ExecuteSwapCompletion(r) \/ SaveCompleted(r) \/ SaveExpired(r)
       \/ ExecuteSwapRefund(r) \/ SaveRefunded(r)
       \/ Attempt(r) \/ Retry(r) \/ Answer(r)
  \/ Crash

Spec == Init /\ [][Next]_vars

(* Every await of a handler settles in the end, with a result or a throw;   *)
(* nothing is assumed of the chain, its users or its clock.                 *)
Step(r) ==
  \/ ExecuteSwapCompletion(r) \/ SaveCompleted(r) \/ SaveExpired(r)
  \/ ExecuteSwapRefund(r) \/ SaveRefunded(r)
  \/ Attempt(r) \/ Retry(r) \/ Answer(r)
FairSpec == Spec /\ \A r \in Requests : WF_vars(Step(r))

-----------------------------------------------------------------------------
TypeOK ==
  /\ Chain!TypeOK
  /\ row \in [SwapIds -> RowStatus \cup {"none"}]
  /\ request \in [Requests -> Request]

(***************************************************************************)
(* A row says COMPLETED or REFUNDED only of a swap that the chain settled  *)
(* that way, whichever of several overlapping relays, direct uses of the   *)
(* chain, lost receipts and crashes came in between.                       *)
(***************************************************************************)
RowsAreBacked ==
  \A id \in SwapIds :
    /\ row[id] = "COMPLETED" => swaps[id].status = "completed"
    /\ row[id] = "REFUNDED" => swaps[id].status = "refunded"

(***************************************************************************)
(* Every request is answered in the end: the retries of handleFailedRelay  *)
(* run out even when each of them fails.                                   *)
(***************************************************************************)
RequestsEnd == \A r \in Requests : request[r] # Idle ~> request[r] = Idle

(***************************************************************************)
(* cross-chain-relayer.service.ts:156 says of EXPIRED "Update swap status  *)
(* to indicate failure": the completion of an EXPIRED swap has failed.     *)
(***************************************************************************)
ExpiredMeansFailed ==
  \A id \in SwapIds : row[id] = "EXPIRED" => swaps[id].status # "completed"
=============================================================================
