---------------------------- MODULE MerchantVault ----------------------------
(***************************************************************************)
(* The Soroban contract merchant_vault_contract: a balance per merchant,   *)
(* credited at once (deposit) or in two phases under the id of an          *)
(* orchestration (deposit_atomic, then commit_deposit or rollback_deposit).*)
(* The checkpoint that a rollback restores is stored under the id alone.   *)
(* A call that returns an error or panics leaves no trace.  Every call is  *)
(* the admin's; i128 overflow is left out.                                 *)
(***************************************************************************)
EXTENDS Integers, FiniteSets, Functions

CONSTANTS
  Merchants, OrchestrationIds,
  DepositAmounts,  \* bound: the amounts of deposits, which may be negative
  MaxVaultCalls,   \* bound: calls of the vault
  NoCheckpoint

VARIABLES
  hasAdmin,     \* VaultAdmin is set
  usdc,         \* usdc_balance, 0 without a record
  locked,       \* locked_balance, 0 without a record
  deposits,     \* PendingDeposit of a merchant and an orchestration id
  checkpoints,  \* DepositCheckpoint: previous_balance
  disturbed,    \* history: deposits whose merchant was credited, or whose id
                \* was used for another merchant, since they were made
  vaultCalls

vars == <<hasAdmin, usdc, locked, deposits, checkpoints, disturbed, vaultCalls>>

NoDeposit == [status |-> "none", amount |-> 0]

Deposit ==
  {NoDeposit} \cup
  [status : {"pending", "committed", "rolled_back"}, amount : DepositAmounts]

Init ==
  /\ hasAdmin = FALSE
  /\ usdc = [m \in Merchants |-> 0]
  /\ locked = [m \in Merchants |-> 0]
  /\ deposits = [m \in Merchants |-> [id \in OrchestrationIds |-> NoDeposit]]
  /\ checkpoints = [id \in OrchestrationIds |-> NoCheckpoint]
  /\ disturbed = {}
  /\ vaultCalls = 0

-----------------------------------------------------------------------------
(* A second call of initialize changes nothing. *)
Initialize ==
  /\ ~hasAdmin
  /\ hasAdmin' = TRUE
  /\ UNCHANGED <<usdc, locked, deposits, checkpoints, disturbed, vaultCalls>>

Call ==
  /\ hasAdmin
  /\ vaultCalls < MaxVaultCalls
  /\ vaultCalls' = vaultCalls + 1
  /\ UNCHANGED hasAdmin

CreditOf(m, amount) ==
  /\ usdc' = [usdc EXCEPT ![m] = @ + amount]
  /\ disturbed' = disturbed \cup {m} \X OrchestrationIds

(* deposit does not look at the sign of the amount. *)
DepositNow(m, amount) ==
  /\ Call
  /\ CreditOf(m, amount)
  /\ UNCHANGED <<locked, deposits, checkpoints>>

(* Slip: the amount is not validated. *)
DepositAtomicAny(m, amount, id) ==
  /\ Call
  /\ checkpoints' = [checkpoints EXCEPT ![id] = usdc[m]]
  /\ locked' = [locked EXCEPT ![m] = @ + amount]
  /\ deposits' = [deposits EXCEPT ![m][id] = [status |-> "pending", amount |-> amount]]
  /\ disturbed' = (disturbed \cup Merchants \X {id}) \ {<<m, id>>}
  /\ UNCHANGED usdc

(* Slip: a checkpoint that is there is kept. *)
DepositAtomicOldCheckpoint(m, amount, id) ==
  /\ Call
  /\ amount > 0
  /\ checkpoints' = [checkpoints EXCEPT ![id] = IF @ = NoCheckpoint THEN usdc[m] ELSE @]
  /\ locked' = [locked EXCEPT ![m] = @ + amount]
  /\ deposits' = [deposits EXCEPT ![m][id] = [status |-> "pending", amount |-> amount]]
  /\ disturbed' = (disturbed \cup Merchants \X {id}) \ {<<m, id>>}
  /\ UNCHANGED usdc

(* deposit_atomic replaces a deposit that is pending under the same id, and *)
(* the checkpoint of another merchant.                                      *)
DepositAtomic(m, amount, id) ==
  /\ Call
  /\ amount > 0
  /\ checkpoints' = [checkpoints EXCEPT ![id] = usdc[m]]
  /\ locked' = [locked EXCEPT ![m] = @ + amount]
  /\ deposits' = [deposits EXCEPT ![m][id] = [status |-> "pending", amount |-> amount]]
  /\ disturbed' = (disturbed \cup Merchants \X {id}) \ {<<m, id>>}
  /\ UNCHANGED usdc

CommitDeposit(m, id) ==
  /\ Call
  /\ deposits[m][id].status = "pending"
  /\ locked' = [locked EXCEPT ![m] = @ - deposits[m][id].amount]
  /\ deposits' = [deposits EXCEPT ![m][id].status = "committed"]
  /\ checkpoints' = [checkpoints EXCEPT ![id] = NoCheckpoint]
  /\ CreditOf(m, deposits[m][id].amount)

(* Without a checkpoint neither balance is touched. *)
RollbackDeposit(m, id) ==
  LET restores == checkpoints[id] # NoCheckpoint IN
  /\ Call
  /\ deposits[m][id].status = "pending"
  /\ usdc' = [usdc EXCEPT ![m] = IF restores THEN checkpoints[id] ELSE @]
  /\ locked' = [locked EXCEPT ![m] = IF restores THEN @ - deposits[m][id].amount ELSE @]
  /\ deposits' = [deposits EXCEPT ![m][id].status = "rolled_back"]
  /\ checkpoints' = [checkpoints EXCEPT ![id] = NoCheckpoint]
  /\ disturbed' = IF usdc'[m] # usdc[m]
                    THEN disturbed \cup {m} \X OrchestrationIds ELSE disturbed

Next ==
  \/ Initialize
  \/ \E m \in Merchants :
       \/ \E amount \in DepositAmounts : DepositNow(m, amount)
       \/ \E id \in OrchestrationIds :
            \/ \E amount \in DepositAmounts : DepositAtomic(m, amount, id)
            \/ CommitDeposit(m, id)
            \/ RollbackDeposit(m, id)

Spec == Init /\ [][Next]_vars

-----------------------------------------------------------------------------
TypeOK ==
  /\ hasAdmin \in BOOLEAN
  /\ usdc \in [Merchants -> Int]
  /\ locked \in [Merchants -> Int]
  /\ deposits \in [Merchants -> [OrchestrationIds -> Deposit]]
  /\ checkpoints \in [OrchestrationIds -> Int \cup {NoCheckpoint}]
  /\ disturbed \subseteq Merchants \X OrchestrationIds
  /\ vaultCalls \in 0..MaxVaultCalls

Pending(m, id) == IF deposits[m][id].status = "pending" THEN deposits[m][id].amount ELSE 0
PendingOf(m) == SumFunction([id \in OrchestrationIds |-> Pending(m, id)])

(* Whatever ids are used twice or shared, a merchant's locked balance       *)
(* covers his pending deposits, so that no commit takes it below zero:      *)
(* amounts are only ever left behind in it (logic.rs:80 and :158).          *)
LockedCoversPending ==
  \A m \in Merchants : locked[m] >= PendingOf(m)

(* A rollback moves a merchant's available balance only if the merchant was *)
(* credited while the deposit was pending or another merchant was deposited *)
(* to under the same id: otherwise the checkpoint it restores is the        *)
(* balance that is there (logic.rs:159).                                    *)
QuietRollbackIsNeutral ==
  [][\A m \in Merchants, id \in OrchestrationIds :
       /\ deposits[m][id].status = "pending" /\ deposits'[m][id].status = "rolled_back"
       /\ <<m, id>> \notin disturbed
       => usdc'[m] = usdc[m]]_vars
=============================================================================
