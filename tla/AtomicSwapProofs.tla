-------------------------- MODULE AtomicSwapProofs --------------------------
(***************************************************************************)
(* Proofs about AtomicSwap for any number of swaps, parties and secrets,   *)
(* any amounts, fees and time locks.                                       *)
(***************************************************************************)
EXTENDS AtomicSwap, TLAPS

IInv == TypeOK /\ SettlementIsConsistent

(* What the fee leaves of an amount is an integer. *)
LEMMA AfterFeeIsInt ==
  ASSUME fee \in Nat, NEW amount \in Int
  PROVE  AfterFee(amount) \in Int
<1>1. amount * fee \in Int
  OBVIOUS
<1>2. Truncated(amount * fee, 10000) \in Int
  BY <1>1 DEF Truncated
<1> QED BY <1>2 DEF AfterFee

(* The three things that happen to a swap keep its record well typed. *)
LEMMA NextTypeOK == TypeOK /\ [Next]_vars => TypeOK'
<1> SUFFICES ASSUME TypeOK, [Next]_vars
             PROVE  TypeOK'
  OBVIOUS
<1> USE ConstantsAssumption
<1>1. ASSUME NEW a \in Parties,
             \/ \E bps \in Fees : Initialize(a, bps) \/ SetFee(a, bps)
             \/ Pause(a) \/ Unpause(a)
      PROVE  TypeOK'
  BY <1>1 DEF Initialize, SetFee, Pause, Unpause, TypeOK
<1>2. ASSUME NEW id \in SwapIds, NEW i \in Parties, NEW r \in Parties,
             NEW amount \in Amounts, NEW d \in Digests, NEW t \in Times,
             InitiateSwap(id, i, r, amount, d, t)
      PROVE  TypeOK'
  <2>1. AfterFee(amount) \in Int
    BY AfterFeeIsInt DEF TypeOK
  <2>2. swaps' \in [SwapIds -> Swap \cup {NoSwap}]
    BY <1>2, <2>1 DEF InitiateSwap, TypeOK, Swap, Never
  <2> QED BY <1>2, <2>2 DEF InitiateSwap, TypeOK
<1>3. ASSUME NEW id \in SwapIds, NEW s \in Secrets, CompleteSwap(id, s)
      PROVE  TypeOK'
  <2>1. swaps[id] \in Swap
    BY <1>3 DEF CompleteSwap, TypeOK
  <2>2. swaps' = [swaps EXCEPT ![id] =
                    [swaps[id] EXCEPT !.status = "completed", !.completedAt = now]]
    BY <1>3 DEF CompleteSwap, TypeOK
  <2>3. swaps' \in [SwapIds -> Swap \cup {NoSwap}]
    BY <2>1, <2>2 DEF TypeOK, Swap
  <2> QED BY <1>3, <2>3 DEF CompleteSwap, TypeOK
<1>4. ASSUME NEW id \in SwapIds, RefundSwap(id)
      PROVE  TypeOK'
  <2>1. swaps[id] \in Swap
    BY <1>4 DEF RefundSwap, TypeOK
  <2>2. swaps' = [swaps EXCEPT ![id] =
                    [swaps[id] EXCEPT !.status = "refunded", !.refundedAt = now]]
    BY <1>4 DEF RefundSwap, TypeOK
  <2>3. swaps' \in [SwapIds -> Swap \cup {NoSwap}]
    BY <2>1, <2>2 DEF TypeOK, Swap
  <2> QED BY <1>4, <2>3 DEF RefundSwap, TypeOK
<1>5. CASE Tick
  BY <1>5 DEF Tick, TypeOK
<1>6. CASE UNCHANGED vars
  BY <1>6 DEF vars, TypeOK
<1> QED
  BY <1>1, <1>2, <1>3, <1>4, <1>5, <1>6 DEF Next

LEMMA NextSettlement == IInv /\ [Next]_vars => SettlementIsConsistent'
<1> SUFFICES ASSUME IInv, [Next]_vars, NEW x \in SwapIds
             PROVE  Consistent(swaps'[x], revealed'[x], now')
  BY DEF SettlementIsConsistent
<1> USE ConstantsAssumption DEF IInv
<1>0. /\ swaps[x] \in Swap \/ swaps[x] = NoSwap
      /\ revealed[x] \in Secrets \cup {NoSecret}
      /\ now \in Nat
  BY DEF TypeOK
<1>1. ASSUME NEW a \in Parties,
             \/ \E bps \in Fees : Initialize(a, bps) \/ SetFee(a, bps)
             \/ Pause(a) \/ Unpause(a)
      PROVE  UNCHANGED <<swaps, revealed, now>>
  BY <1>1 DEF Initialize, SetFee, Pause, Unpause
<1>2. ASSUME NEW id \in SwapIds, NEW i \in Parties, NEW r \in Parties,
             NEW amount \in Amounts, NEW d \in Digests, NEW t \in Times,
             InitiateSwap(id, i, r, amount, d, t)
      PROVE  \/ UNCHANGED <<swaps[x], revealed, now>>
             \/ /\ swaps[x] = NoSwap /\ swaps'[x].status = "initiated"
                /\ swaps'[x].completedAt = Never /\ swaps'[x].refundedAt = Never
                /\ swaps'[x].createdAt = now /\ UNCHANGED <<revealed, now>>
  BY <1>2 DEF InitiateSwap, TypeOK
<1>3. ASSUME NEW id \in SwapIds, NEW s \in Secrets, CompleteSwap(id, s)
      PROVE  \/ UNCHANGED <<swaps[x], revealed[x], now>>
             \/ /\ swaps[x] \in Swap /\ swaps[x].status = "initiated"
                /\ swaps'[x] = [swaps[x] EXCEPT !.status = "completed", !.completedAt = now]
                /\ revealed'[x] = s /\ Sha256[s] = swaps[x].hashLock /\ now' = now
  <2>1. CASE id = x
    <3>1. swaps[x] \in Swap /\ swaps[x].status = "initiated"
      BY <1>0, <1>3, <2>1 DEF CompleteSwap, Swap
    <3> QED BY <1>3, <2>1, <3>1 DEF CompleteSwap, TypeOK
  <2>2. CASE id # x
    BY <1>3, <2>2 DEF CompleteSwap, TypeOK
  <2> QED BY <2>1, <2>2
<1>4. ASSUME NEW id \in SwapIds, RefundSwap(id)
      PROVE  \/ UNCHANGED <<swaps[x], revealed, now>>
             \/ /\ swaps[x] \in Swap /\ swaps[x].status = "initiated"
                /\ swaps'[x] = [swaps[x] EXCEPT !.status = "refunded", !.refundedAt = now]
                /\ now >= swaps[x].timeLock /\ UNCHANGED <<revealed, now>>
  <2>1. CASE id = x
    <3>1. swaps[x] \in Swap /\ swaps[x].status = "initiated"
      BY <1>0, <1>4, <2>1 DEF RefundSwap, Swap
    <3> QED BY <1>4, <2>1, <3>1 DEF RefundSwap, TypeOK
  <2>2. CASE id # x
    BY <1>4, <2>2 DEF RefundSwap, TypeOK
  <2> QED BY <2>1, <2>2
<1>6. Consistent(swaps[x], revealed[x], now)
  BY DEF SettlementIsConsistent
<1>7. /\ swaps'[x] = swaps[x] /\ revealed'[x] = revealed[x]
      /\ now' \in Nat /\ now' >= now
      => Consistent(swaps'[x], revealed'[x], now')
  BY <1>0, <1>6 DEF Consistent, Swap, NoSwap, Never
<1>8. ASSUME swaps[x] = NoSwap,
             swaps'[x].status = "initiated", swaps'[x].createdAt = now,
             swaps'[x].completedAt = Never, swaps'[x].refundedAt = Never,
             UNCHANGED <<revealed, now>>
      PROVE  Consistent(swaps'[x], revealed'[x], now')
  BY <1>0, <1>6, <1>8 DEF Consistent, NoSwap
<1>9. ASSUME NEW s \in Secrets, swaps[x] \in Swap, swaps[x].status = "initiated",
             swaps'[x] = [swaps[x] EXCEPT !.status = "completed", !.completedAt = now],
             revealed'[x] = s, Sha256[s] = swaps[x].hashLock, now' = now
      PROVE  Consistent(swaps'[x], revealed'[x], now')
  BY <1>0, <1>6, <1>9 DEF Consistent, Swap
<1>10. ASSUME swaps[x] \in Swap, swaps[x].status = "initiated",
              swaps'[x] = [swaps[x] EXCEPT !.status = "refunded", !.refundedAt = now],
              now >= swaps[x].timeLock, UNCHANGED <<revealed, now>>
       PROVE  Consistent(swaps'[x], revealed'[x], now')
  BY <1>0, <1>6, <1>10 DEF Consistent, Swap
<1>11. CASE Tick
  <2>1. swaps' = swaps /\ revealed' = revealed /\ now' \in Times /\ now' > now
    BY <1>11 DEF Tick
  <2>2. now' \in Nat
    BY <2>1
  <2> QED BY <1>0, <1>7, <2>1, <2>2
<1>12. CASE UNCHANGED vars
  BY <1>0, <1>7, <1>12 DEF vars
<1> QED
  BY <1>0, <1>1, <1>2, <1>3, <1>4, <1>7, <1>8, <1>9, <1>10, <1>11, <1>12 DEF Next

LEMMA InitIInv == Init => IInv
<1> SUFFICES ASSUME Init
             PROVE  IInv
  OBVIOUS
<1>1. TypeOK
  BY ConstantsAssumption DEF Init, TypeOK
<1>2. ASSUME NEW id \in SwapIds
      PROVE  Consistent(swaps[id], revealed[id], now)
  BY <1>1, <1>2 DEF Init, TypeOK, Consistent, NoSwap, Never
<1> QED BY <1>1, <1>2 DEF IInv, SettlementIsConsistent

(***************************************************************************)
(* Every swap record of atomic_swap_contract is well typed and, once       *)
(* settled, says consistently how: a completion by a published preimage,   *)
(* or a refund at or after the time lock (complete_swap, refund_swap).     *)
(***************************************************************************)
THEOREM SwapInvariant == Spec => [](TypeOK /\ SettlementIsConsistent)
<1>1. IInv /\ [Next]_vars => IInv'
  BY NextTypeOK, NextSettlement DEF IInv
<1>2. IInv => TypeOK /\ SettlementIsConsistent
  BY DEF IInv
<1> QED BY InitIInv, <1>1, <1>2, PTL DEF Spec

(***************************************************************************)
(* Refinement: every step of the contract is a step of the promise or      *)
(* leaves it alone.                                                        *)
(***************************************************************************)
LEMMA PromiseInit == Init => Promise!Init
<1> SUFFICES ASSUME Init
             PROVE  Promise!Init
  OBVIOUS
<1>1. \A id \in SwapIds : swaps[id] = NoSwap
  BY DEF Init
<1>2. [id \in SwapIds |-> Phase[swaps[id].status]] = [id \in SwapIds |-> "none"]
  BY <1>1 DEF NoSwap, Phase
<1>3. [id \in SwapIds |-> swaps[id].hashLock] = [id \in SwapIds |-> NoDigest]
  BY <1>1 DEF NoSwap
<1>4. [id \in SwapIds |-> swaps[id].timeLock] = [id \in SwapIds |-> 0]
  BY <1>1 DEF NoSwap
<1>5. revealed = [id \in SwapIds |-> NoSecret] /\ now \in Nat
  BY ConstantsAssumption DEF Init
<1> QED BY <1>2, <1>3, <1>4, <1>5 DEF Promise!Init

LEMMA PromiseStep == TypeOK /\ [Next]_vars => [Promise!Next]_(Promise!vars)
<1> SUFFICES ASSUME TypeOK, [Next]_vars
             PROVE  Promise!Next \/ UNCHANGED Promise!vars
  OBVIOUS
<1> USE ConstantsAssumption
<1>1. ASSUME UNCHANGED <<swaps, revealed, now>>
      PROVE  UNCHANGED Promise!vars
  BY <1>1 DEF Promise!vars
<1>2. ASSUME NEW a \in Parties,
             \/ \E bps \in Fees : Initialize(a, bps) \/ SetFee(a, bps)
             \/ Pause(a) \/ Unpause(a)
      PROVE  UNCHANGED Promise!vars
  BY <1>1, <1>2 DEF Initialize, SetFee, Pause, Unpause
<1>3. ASSUME NEW id \in SwapIds, NEW i \in Parties, NEW r \in Parties,
             NEW amount \in Amounts, NEW d \in Digests, NEW t \in Times,
             InitiateSwap(id, i, r, amount, d, t)
      PROVE  Promise!Lock(id)
  <2>1. /\ swaps[id].status = "none" /\ swaps'[id].status = "initiated"
        /\ swaps'[id].hashLock = d /\ swaps'[id].timeLock = t /\ t > now
        /\ \A x \in SwapIds \ {id} : swaps'[x] = swaps[x]
        /\ revealed' = revealed /\ now' = now
    BY <1>3 DEF InitiateSwap, TypeOK, NoSwap
  <2>2. /\ [x \in SwapIds |-> Phase[swaps'[x].status]]
             = [[x \in SwapIds |-> Phase[swaps[x].status]] EXCEPT ![id] = "locked"]
        /\ Phase[swaps[id].status] = "none"
    <3>1. Phase["initiated"] = "locked"
      BY DEF Phase
    <3>2. Phase[swaps[id].status] = "none"
      BY <2>1 DEF Phase
    <3>3. \A x \in SwapIds :
            Phase[swaps'[x].status] = IF x = id THEN "locked" ELSE Phase[swaps[x].status]
      BY <3>1, <2>1
    <3> QED BY <3>2, <3>3
  <2>3. [x \in SwapIds |-> swaps'[x].hashLock]
          = [[x \in SwapIds |-> swaps[x].hashLock] EXCEPT ![id] = d]
    BY <2>1
  <2>4. /\ [x \in SwapIds |-> swaps'[x].timeLock]
             = [[x \in SwapIds |-> swaps[x].timeLock] EXCEPT ![id] = t]
        /\ [x \in SwapIds |-> swaps'[x].timeLock][id] = t
    BY <2>1
  <2> QED BY <2>1, <2>2, <2>3, <2>4 DEF Promise!Lock
<1>4. ASSUME NEW id \in SwapIds, NEW s \in Secrets, CompleteSwap(id, s)
      PROVE  Promise!Claim(id)
  <2>1. swaps[id] \in Swap /\ swaps[id].status = "initiated"
    BY <1>4 DEF CompleteSwap, TypeOK, Swap
  <2>2. /\ swaps'[id] = [swaps[id] EXCEPT !.status = "completed", !.completedAt = now]
        /\ \A x \in SwapIds \ {id} : swaps'[x] = swaps[x]
        /\ revealed' = [revealed EXCEPT ![id] = s]
        /\ Sha256[s] = swaps[id].hashLock /\ now' = now
    BY <1>4 DEF CompleteSwap, TypeOK
  <2>3. /\ swaps'[id].status = "completed" /\ swaps'[id].hashLock = swaps[id].hashLock
        /\ swaps'[id].timeLock = swaps[id].timeLock
    BY <2>1, <2>2 DEF Swap
  <2>4. /\ [x \in SwapIds |-> Phase[swaps'[x].status]]
             = [[x \in SwapIds |-> Phase[swaps[x].status]] EXCEPT ![id] = "claimed"]
        /\ Phase[swaps[id].status] = "locked"
    <3>1. Phase["completed"] = "claimed"
      BY DEF Phase
    <3>2. Phase[swaps[id].status] = "locked"
      BY <2>1, <2>2, <2>3 DEF Phase
    <3>3. \A x \in SwapIds :
            Phase[swaps'[x].status] = IF x = id THEN "claimed" ELSE Phase[swaps[x].status]
      BY <3>1, <2>1, <2>2, <2>3
    <3> QED BY <3>2, <3>3
  <2>5. /\ [x \in SwapIds |-> swaps'[x].hashLock] = [x \in SwapIds |-> swaps[x].hashLock]
        /\ [x \in SwapIds |-> swaps'[x].timeLock] = [x \in SwapIds |-> swaps[x].timeLock]
    BY <2>2, <2>3
  <2> QED BY <2>1, <2>2, <2>4, <2>5 DEF Promise!Claim
<1>5. ASSUME NEW id \in SwapIds, RefundSwap(id)
      PROVE  Promise!Return(id)
  <2>1. swaps[id] \in Swap /\ swaps[id].status = "initiated" /\ now >= swaps[id].timeLock
    BY <1>5 DEF RefundSwap, TypeOK, Swap
  <2>2. /\ swaps'[id] = [swaps[id] EXCEPT !.status = "refunded", !.refundedAt = now]
        /\ \A x \in SwapIds \ {id} : swaps'[x] = swaps[x]
        /\ revealed' = revealed /\ now' = now
    BY <1>5 DEF RefundSwap, TypeOK
  <2>3. /\ swaps'[id].status = "refunded" /\ swaps'[id].hashLock = swaps[id].hashLock
        /\ swaps'[id].timeLock = swaps[id].timeLock
    BY <2>1, <2>2 DEF Swap
  <2>4. /\ [x \in SwapIds |-> Phase[swaps'[x].status]]
             = [[x \in SwapIds |-> Phase[swaps[x].status]] EXCEPT ![id] = "returned"]
        /\ Phase[swaps[id].status] = "locked"
    <3>1. Phase["refunded"] = "returned"
      BY DEF Phase
    <3>2. Phase[swaps[id].status] = "locked"
      BY <2>1, <2>2, <2>3 DEF Phase
    <3>3. \A x \in SwapIds :
            Phase[swaps'[x].status] = IF x = id THEN "returned" ELSE Phase[swaps[x].status]
      BY <3>1, <2>1, <2>2, <2>3
    <3> QED BY <3>2, <3>3
  <2>5. /\ [x \in SwapIds |-> swaps'[x].hashLock] = [x \in SwapIds |-> swaps[x].hashLock]
        /\ [x \in SwapIds |-> swaps'[x].timeLock] = [x \in SwapIds |-> swaps[x].timeLock]
    BY <2>2, <2>3
  <2> QED BY <2>1, <2>2, <2>4, <2>5 DEF Promise!Return
<1>6. CASE Tick
  BY <1>6 DEF Tick, Promise!Next, Promise!Tick
<1>7. CASE UNCHANGED vars
  BY <1>1, <1>7 DEF vars
<1> QED
  BY <1>2, <1>3, <1>4, <1>5, <1>6, <1>7 DEF Next, Promise!Next

(***************************************************************************)
(* The Soroban contract implements the hashed timelock promise: either     *)
(* claim or refund executes, never both, a claim needs the preimage and a  *)
(* refund the time lock.                                                   *)
(***************************************************************************)
THEOREM SwapKeepsPromise == Spec => KeepsPromise
<1>1. Spec => []TypeOK
  BY SwapInvariant, PTL
<1> QED BY <1>1, PromiseInit, PromiseStep, PTL DEF Spec, KeepsPromise, Promise!Spec
=============================================================================
