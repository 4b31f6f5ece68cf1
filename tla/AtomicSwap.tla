----------------------------- MODULE AtomicSwap -----------------------------
(***************************************************************************)
(* The Soroban contract atomic_swap_contract: a hashed timelock ledger.    *)
(* The host runs one invocation at a time and undoes every write of an     *)
(* invocation that panics, so an operation is one step and a panic is a    *)
(* guard.  The contract moves no tokens: a swap is a record.               *)
(***************************************************************************)
EXTENDS Integers

CONSTANTS
  SwapIds, Parties, Secrets, Digests,
  Sha256,       \* the digest of every secret
  Amounts,      \* amounts an initiator asks for (an i128, not validated)
  Fees,         \* fee basis points the admin may set (a u32, not validated)
  Times,        \* bound: ledger timestamps and time locks
  NoParty, NoSecret, NoDigest

ASSUME ConstantsAssumption ==
  /\ Sha256 \in [Secrets -> Digests]
  /\ Amounts \subseteq Int /\ Fees \subseteq Nat /\ Times \subseteq Nat
  /\ NoParty \notin Parties /\ NoSecret \notin Secrets /\ NoDigest \notin Digests

VARIABLES
  admin,     \* ADMIN
  fee,       \* FEE
  paused,    \* PAUSED
  swaps,     \* (SWAPS, id)
  revealed,  \* the secret of the SwapCompleted event of a swap
  now        \* env.ledger().timestamp()

vars == <<admin, fee, paused, swaps, revealed, now>>

Never == 0  \* completed_at and refunded_at are None

NoSwap ==
  [status |-> "none", initiator |-> NoParty, recipient |-> NoParty, amount |-> 0,
   hashLock |-> NoDigest, timeLock |-> 0, createdAt |-> 0,
   completedAt |-> Never, refundedAt |-> Never]

Swap ==
  [status : {"initiated", "completed", "refunded"},
   initiator : Parties, recipient : Parties, amount : Int,
   hashLock : Digests, timeLock : Nat, createdAt : Nat,
   completedAt : Nat, refundedAt : Nat]

(* The ledger's clock has started. *)
Init ==
  /\ admin = NoParty
  /\ fee = 0
  /\ paused = FALSE
  /\ swaps = [id \in SwapIds |-> NoSwap]
  /\ revealed = [id \in SwapIds |-> NoSecret]
  /\ now \in Times \ {0}

-----------------------------------------------------------------------------
(* Integer division of Rust, which truncates towards zero. *)
Truncated(n, d) == IF n >= 0 THEN n \div d ELSE -((-n) \div d)

AfterFee(amount) == amount - Truncated(amount * fee, 10000)

Initialize(a, bps) ==
  /\ admin = NoParty
  /\ admin' = a
  /\ fee' = bps
  /\ paused' = FALSE
  /\ UNCHANGED <<swaps, revealed, now>>

InitiateSwap(id, initiator, recipient, amount, hashLock, timeLock) ==
  /\ ~paused
  /\ timeLock > now
  /\ swaps[id] = NoSwap
  /\ swaps' = [swaps EXCEPT ![id] =
       [status |-> "initiated", initiator |-> initiator, recipient |-> recipient,
        amount |-> AfterFee(amount), hashLock |-> hashLock, timeLock |-> timeLock,
        createdAt |-> now, completedAt |-> Never, refundedAt |-> Never]]
  /\ UNCHANGED <<admin, fee, paused, revealed, now>>

(* Slip: the secret is not compared with the hash lock. *)
CompleteSwapAnySecret(id, secret) ==
  /\ swaps[id] # NoSwap
  /\ swaps[id].status \notin {"completed", "refunded"}
  /\ swaps' = [swaps EXCEPT ![id].status = "completed", ![id].completedAt = now]
  /\ revealed' = [revealed EXCEPT ![id] = secret]
  /\ UNCHANGED <<admin, fee, paused, now>>

(* Neither settlement looks at the pause flag; a completion does not look   *)
(* at the time lock either.                                                 *)
CompleteSwap(id, secret) ==
  /\ swaps[id] # NoSwap
  /\ swaps[id].status \notin {"completed", "refunded"}
  /\ Sha256[secret] = swaps[id].hashLock
  /\ swaps' = [swaps EXCEPT ![id].status = "completed", ![id].completedAt = now]
  /\ revealed' = [revealed EXCEPT ![id] = secret]
  /\ UNCHANGED <<admin, fee, paused, now>>

(* Slip: only a second refund is refused, not one after a completion. *)
RefundSwapCompleted(id) ==
  /\ swaps[id] # NoSwap
  /\ swaps[id].status # "refunded"
  /\ now >= swaps[id].timeLock
  /\ swaps' = [swaps EXCEPT ![id].status = "refunded", ![id].refundedAt = now]
  /\ UNCHANGED <<admin, fee, paused, revealed, now>>

(* Slip: a missing swap is taken for an empty one. *)
RefundSwapAbsent(id) ==
  /\ swaps[id].status \notin {"completed", "refunded"}
  /\ now >= swaps[id].timeLock
  /\ swaps' = [swaps EXCEPT ![id].status = "refunded", ![id].refundedAt = now]
  /\ UNCHANGED <<admin, fee, paused, revealed, now>>

RefundSwap(id) ==
  /\ swaps[id] # NoSwap
  /\ swaps[id].status \notin {"completed", "refunded"}
  /\ now >= swaps[id].timeLock
  /\ swaps' = [swaps EXCEPT ![id].status = "refunded", ![id].refundedAt = now]
  /\ UNCHANGED <<admin, fee, paused, revealed, now>>

SetFee(a, bps) ==
  /\ admin # NoParty
  /\ admin = a
  /\ fee' = bps
  /\ UNCHANGED <<admin, paused, swaps, revealed, now>>

Pause(a) ==
  /\ admin # NoParty
  /\ admin = a
  /\ paused' = TRUE
  /\ UNCHANGED <<admin, fee, swaps, revealed, now>>

Unpause(a) ==
  /\ admin # NoParty
  /\ admin = a
  /\ paused' = FALSE
  /\ UNCHANGED <<admin, fee, swaps, revealed, now>>

(* A ledger closes with a later timestamp. *)
Tick ==
  /\ now' \in Times
  /\ now' > now
  /\ UNCHANGED <<admin, fee, paused, swaps, revealed>>

Next ==
  \/ \E a \in Parties, bps \in Fees : Initialize(a, bps) \/ SetFee(a, bps)
  \/ \E a \in Parties : Pause(a) \/ Unpause(a)
  \/ \E id \in SwapIds, i, r \in Parties, amount \in Amounts, d \in Digests, t \in Times :
       InitiateSwap(id, i, r, amount, d, t)
  \/ \E id \in SwapIds, s \in Secrets : CompleteSwap(id, s)
  \/ \E id \in SwapIds : RefundSwap(id)
  \/ Tick

Spec == Init /\ [][Next]_vars

-----------------------------------------------------------------------------
TypeOK ==
  /\ admin \in Parties \cup {NoParty}
  /\ fee \in Nat
  /\ paused \in BOOLEAN
  /\ swaps \in [SwapIds -> Swap \cup {NoSwap}]
  /\ revealed \in [SwapIds -> Secrets \cup {NoSecret}]
  /\ now \in Nat \ {0}

(***************************************************************************)
(* What a settled swap records.  A completion has published a preimage and *)
(* carries no refund time; a refund published nothing and is not older     *)
(* than the time lock; an open swap carries neither.                       *)
(***************************************************************************)
Consistent(s, secret, time) ==
  /\ s.status = "completed" =>
       /\ s.completedAt \in s.createdAt..time /\ s.refundedAt = Never
       /\ secret \in Secrets /\ Sha256[secret] = s.hashLock
  /\ s.status = "refunded" =>
       /\ s.refundedAt \in s.timeLock..time /\ s.completedAt = Never
       /\ secret = NoSecret
  /\ s.status \in {"none", "initiated"} =>
       /\ s.completedAt = Never /\ s.refundedAt = Never
       /\ secret = NoSecret
  /\ s.createdAt <= time

SettlementIsConsistent ==
  \A id \in SwapIds : Consistent(swaps[id], revealed[id], now)

(***************************************************************************)
(* The contract keeps the promise of a hashed timelock contract (docs/     *)
(* CROSS_CHAIN_BRIDGE.md: "Either claim or refund executes, never both").  *)
(***************************************************************************)
Phase == [none |-> "none", initiated |-> "locked",
          completed |-> "claimed", refunded |-> "returned"]

Promise == INSTANCE SwapPromise WITH
  phase  <- [id \in SwapIds |-> Phase[swaps[id].status]],
  digest <- [id \in SwapIds |-> swaps[id].hashLock],
  expiry <- [id \in SwapIds |-> swaps[id].timeLock]

KeepsPromise == Promise!Spec
=============================================================================
