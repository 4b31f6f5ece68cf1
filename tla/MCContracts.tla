---------------------------- MODULE MCContracts -----------------------------
(***************************************************************************)
(* Four contracts on Stellar: the atomic swap, the liquidity pool, the     *)
(* merchant vault and the orchestration. None calls another (the steps of  *)
(* an orchestration are placeholders), so one run checks them side by      *)
(* side: "part" says, from the first state on, which of them moves.        *)
(***************************************************************************)
EXTENDS AtomicSwap, LiquidityPool, TLC

CONSTANTS
  Merchants, OrchestrationIds, DepositAmounts, MaxVaultCalls, NoCheckpoint,
  SagaIds, MaxSteps, Timeouts, SagaTimes, NoSaga

ASSUME VaultAssumption ==
  /\ IsFiniteSet(OrchestrationIds)  \* they are 32 bytes
  /\ DepositAmounts \subseteq Int
  /\ MaxVaultCalls \in Nat

VARIABLES
  part,
  hasAdmin, usdc, locked, deposits, checkpoints, disturbed, vaultCalls, sagas,
  stepPoints, sagasPaused, running, ran, ledgerTime

(* Pools, providers, merchants and orchestrations are interchangeable. *)
Symmetry == Permutations(Pools) \cup Permutations(Providers)
MCDigests == {<<"sha256", s>> : s \in Secrets}
MCSha256 == [s \in Secrets |-> <<"sha256", s>>]
MCTimes == 0..3
MCPoolAmounts == {-1, 1, 3, 101}
MCMinOuts == {-10, 1}
MCDeposits == {-1, 2, 3}

V == INSTANCE MerchantVault
O == INSTANCE Orchestration

ASSUME SagaAssumption == MaxSteps \in Nat /\ NoSaga \notin O!Saga

Parts ==
   {"swap", "pool", "vault", "orchestration"}

ofMerchantVault ==
  <<hasAdmin, usdc, locked, deposits, checkpoints, disturbed, vaultCalls>>
ofOrchestration ==
  <<sagas, stepPoints, sagasPaused, running, ran, ledgerTime>>
sumVars ==
  <<part, vars, poolVars, ofMerchantVault, ofOrchestration>>

SumInit ==
  /\ part \in Parts
  /\ Init /\ PoolInit /\ V!Init /\ O!Init
  /\ part # "swap" => now = 1
  /\ part # "orchestration" => ledgerTime = 0

(* One part moves and the others rest. *)
SumNext ==
  /\ UNCHANGED part
  /\ \/ /\ part = "swap" /\ Next
        /\ UNCHANGED <<poolVars, ofMerchantVault, ofOrchestration>>
     \/ /\ part = "pool" /\ PoolNext
        /\ UNCHANGED <<vars, ofMerchantVault, ofOrchestration>>
     \/ /\ part = "vault" /\ V!Next
        /\ UNCHANGED <<vars, poolVars, ofOrchestration>>
     \/ /\ part = "orchestration" /\ O!Next
        /\ UNCHANGED <<vars, poolVars, ofMerchantVault>>

SumSpec == SumInit /\ [][SumNext]_sumVars

-----------------------------------------------------------------------------
(* The records of the contracts are well formed. *)
TypesOK ==
  /\ TypeOK
  /\ PoolTypeOK
  /\ V!TypeOK
  /\ O!TypeOK

(* Whatever ids are used twice or shared, a merchant's locked balance       *)
(* covers his pending deposits, so that no commit takes it below zero:      *)
(* amounts are only ever left behind in it (logic.rs:80 and :158).          *)
LockedCoversPending == V!LockedCoversPending

(* A rollback moves a merchant's available balance only if the merchant was *)
(* credited while the deposit was pending or another merchant was deposited *)
(* to under the same id: otherwise the checkpoint it restores is the        *)
(* balance that is there (logic.rs:159).                                    *)
QuietRollbackIsNeutral == V!QuietRollbackIsNeutral

(* A status is told by the last write of several copies; what it says of    *)
(* the steps is still so.  A completed orchestration ran every step, and    *)
(* one that is cancelled, timed out or not yet executed counts no step, so  *)
(* that its rollback touches none of those run by execute_step alone.       *)
StatusTellsWhatRan == O!StatusTellsWhatRan
=============================================================================
