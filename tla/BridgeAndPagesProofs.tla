------------------------ MODULE BridgeAndPagesProofs ------------------------
(***************************************************************************)
(* Proofs about the two ends of the system, which share no name.           *)
(*                                                                         *)
(* EvmBridge, for any number of swaps, accounts and tokens, any fees,      *)
(* amounts and time locks: they rest on what every operation does to one   *)
(* token's books and holdings.                                             *)
(*                                                                         *)
(* MCPages, for any number of rows, requests, amounts and payments: an     *)
(* answer may come long after what it answers, so each page's invariant    *)
(* says of whatever is under way what it will still bring.  A search of    *)
(* the transaction graph is told by its frontier: what was visited and has *)
(* left the queue has all its neighbors visited.                           *)
(***************************************************************************)
EXTENDS EvmBridge, MCPages, SumLemmas, Sequences, SequenceTheorems

IInv == TypeOK /\ BooksWithinHoldings

(* A payout or the receipt of tokens, seen from any token: both numbers     *)
(* stay natural and the holdings beyond the books do not shrink.            *)
Sound ==
  /\ tokenBalances' \in [Assets -> Nat]
  /\ held' \in [Assets -> Nat]
  /\ \A t \in Assets : held'[t] - tokenBalances'[t] >= held[t] - tokenBalances[t]

LEMMA FeeIsNat ==
  ASSUME feeBasisPoints \in Nat, NEW amount \in Nat
  PROVE  FeeOf(amount) \in Nat
<1>1. amount * feeBasisPoints \in Nat
  OBVIOUS
<1> QED BY <1>1 DEF FeeOf

(* Taking the same amount from the books and the holdings is sound.         *)
LEMMA PayoutIsSound ==
  ASSUME TypeOK, NEW token \in Assets, NEW to, NEW amount \in Nat,
         TransferToken(token, to, amount), Deduct(token, amount)
  PROVE  Sound
<1>1. /\ held[token] \in Nat /\ tokenBalances[token] \in Nat
      /\ held[token] >= amount /\ tokenBalances[token] >= amount
  BY DEF TypeOK, TransferToken, Deduct
<1>2. /\ held' = [held EXCEPT ![token] = @ - amount]
      /\ tokenBalances' = [tokenBalances EXCEPT ![token] = @ - amount]
  BY DEF TransferToken, Deduct
<1>3. held[token] - amount \in Nat /\ tokenBalances[token] - amount \in Nat
  BY <1>1
<1>4. tokenBalances' \in [Assets -> Nat] /\ held' \in [Assets -> Nat]
  BY <1>2, <1>3 DEF TypeOK
<1>5. ASSUME NEW t \in Assets
      PROVE  held'[t] - tokenBalances'[t] >= held[t] - tokenBalances[t]
  BY <1>1, <1>2 DEF TypeOK
<1> QED BY <1>4, <1>5 DEF Sound

(* Booking no more than what comes in is sound. *)
LEMMA ReceiptIsSound ==
  ASSUME TypeOK, NEW token \in Assets, NEW received \in [Assets -> Nat],
         NEW booked \in Nat, booked <= received[token],
         held' = [t \in Assets |-> held[t] + received[t]],
         tokenBalances' = [tokenBalances EXCEPT ![token] = @ + booked]
  PROVE  Sound
<1>1. tokenBalances' \in [Assets -> Nat] /\ held' \in [Assets -> Nat]
  BY DEF TypeOK
<1>2. ASSUME NEW t \in Assets
      PROVE  held'[t] - tokenBalances'[t] >= held[t] - tokenBalances[t]
  BY DEF TypeOK
<1> QED BY <1>1, <1>2 DEF Sound

(* A fee is never more than the amount it is taken from, and a transfer     *)
(* never brings in less than the amount.                                    *)
LEMMA InitiateBooks ==
  ASSUME TypeOK,
         NEW id \in SwapIds, NEW s \in Accounts, NEW r \in Accounts,
         NEW a \in Amounts, NEW v \in Amounts \cup {0}, NEW t \in Assets,
         NEW d \in Digests, NEW l \in Times, InitiateSwap(id, s, r, a, t, d, l, v)
  PROVE  /\ a - FeeOf(a) \in Nat
         /\ \A x \in Assets : Received(x, t, a, v) \in Nat
         /\ a - FeeOf(a) <= Received(t, t, a, v)
<1> USE ConstantsAssumption
<1>1. a \in Nat /\ v \in Nat /\ FeeOf(a) \in Nat
  BY FeeIsNat DEF TypeOK
<1>2. FeeOf(a) <= a
  BY DEF InitiateSwap
<1>3. /\ \A x \in Assets : Received(x, t, a, v) \in Nat
      /\ Received(t, t, a, v) >= a
  BY <1>1 DEF InitiateSwap, Received
<1> QED BY <1>1, <1>2, <1>3

LEMMA NextSound ==
  ASSUME TypeOK, [Next]_vars
  PROVE  Sound
<1> USE ConstantsAssumption
<1>0. tokenBalances' = tokenBalances /\ held' = held => Sound
  BY DEF TypeOK, Sound
<1>1. ASSUME NEW id \in SwapIds, NEW s \in Accounts, NEW r \in Accounts,
             NEW a \in Amounts, NEW v \in Amounts \cup {0}, NEW t \in Assets,
             NEW d \in Digests, NEW l \in Times, InitiateSwap(id, s, r, a, t, d, l, v)
      PROVE  Sound
  <2> DEFINE received == [x \in Assets |-> Received(x, t, a, v)]
  <2>1. /\ a - FeeOf(a) \in Nat /\ received \in [Assets -> Nat]
        /\ a - FeeOf(a) <= received[t]
    BY <1>1, InitiateBooks
  <2>2. /\ held' = [x \in Assets |-> held[x] + received[x]]
        /\ tokenBalances' = [tokenBalances EXCEPT ![t] = @ + (a - FeeOf(a))]
    BY <1>1 DEF InitiateSwap
  <2> HIDE DEF received
  <2> QED BY <2>1, <2>2, ReceiptIsSound
<1>2. ASSUME NEW id \in SwapIds,
             swaps[id].status = "initiated",
             NEW to, TransferToken(swaps[id].token, to, swaps[id].amount),
             Deduct(swaps[id].token, swaps[id].amount)
      PROVE  Sound
  <2>1. swaps[id].token \in Assets /\ swaps[id].amount \in Nat
    BY <1>2 DEF TypeOK, Swap, NoSwap
  <2> QED BY <1>2, <2>1, PayoutIsSound
<1>3. ASSUME NEW id \in SwapIds, NEW s \in Secrets, CompleteSwap(id, s)
      PROVE  Sound
  BY <1>2, <1>3 DEF CompleteSwap
<1>4. ASSUME NEW id \in SwapIds, NEW s \in Accounts, RefundSwap(id, s)
      PROVE  Sound
  BY <1>2, <1>4 DEF RefundSwap
<1>5. ASSUME NEW t \in Assets, AddSupportedToken(t) \/ RemoveSupportedToken(t)
      PROVE  Sound
  BY <1>0, <1>5 DEF AddSupportedToken, RemoveSupportedToken
<1>6. ASSUME NEW f \in Fees, SetFeeBasisPoints(f)
      PROVE  Sound
  BY <1>0, <1>6 DEF SetFeeBasisPoints
<1>7. ASSUME NEW t \in Assets, NEW a \in Amounts, WithdrawFees(t, a)
      PROVE  Sound
  BY <1>7, PayoutIsSound DEF WithdrawFees
<1>8. CASE Pause \/ Unpause
  BY <1>0, <1>8 DEF Pause, Unpause
<1>9. ASSUME NEW v \in Amounts, Receive(v)
      PROVE  Sound
  <2> DEFINE received == [x \in Assets |-> IF x = Native THEN v ELSE 0]
  <2>1. /\ Native \in Assets /\ v \in Nat
        /\ received \in [Assets -> Nat] /\ v <= received[Native]
    BY DEF Assets
  <2>2. /\ held' = [held EXCEPT ![Native] = @ + v]
        /\ tokenBalances' = [tokenBalances EXCEPT ![Native] = @ + v]
    BY <1>9 DEF Receive
  <2>3. \A x \in Assets : held'[x] = held[x] + received[x]
    BY <2>1, <2>2 DEF TypeOK
  <2>4. held' = [x \in Assets |-> held[x] + received[x]]
    BY <2>2, <2>3 DEF TypeOK
  <2> HIDE DEF received
  <2> QED BY <2>1, <2>2, <2>4, ReceiptIsSound
<1>10. CASE Tick
  BY <1>0, <1>10 DEF Tick
<1>11. CASE UNCHANGED vars
  BY <1>0, <1>11 DEF vars
<1> QED
  BY <1>1, <1>3, <1>4, <1>5, <1>6, <1>7, <1>8, <1>9, <1>10, <1>11 DEF Next

LEMMA NextTypeOK ==
  ASSUME TypeOK, [Next]_vars
  PROVE  TypeOK'
<1> USE ConstantsAssumption
<1>0. tokenBalances' \in [Assets -> Nat] /\ held' \in [Assets -> Nat]
  BY NextSound DEF Sound
<1>1. ASSUME NEW id \in SwapIds, NEW s \in Accounts, NEW r \in Accounts,
             NEW a \in Amounts, NEW v \in Amounts \cup {0}, NEW t \in Assets,
             NEW d \in Digests, NEW l \in Times, InitiateSwap(id, s, r, a, t, d, l, v)
      PROVE  TypeOK'
  <2>1. a - FeeOf(a) \in Nat
    BY <1>1, InitiateBooks
  <2>2. swaps' \in [SwapIds -> Swap \cup {NoSwap}]
    BY <1>1, <2>1 DEF InitiateSwap, TypeOK, Swap
  <2> QED BY <1>0, <1>1, <2>2 DEF InitiateSwap, TypeOK
<1>2. ASSUME NEW id \in SwapIds, swaps[id].status = "initiated",
             NEW status \in {"completed", "refunded"},
             swaps' = [swaps EXCEPT ![id].status = status]
      PROVE  swaps' \in [SwapIds -> Swap \cup {NoSwap}]
  <2>1. swaps[id] \in Swap
    BY <1>2 DEF TypeOK, NoSwap
  <2>2. [swaps[id] EXCEPT !.status = status] \in Swap
    BY <2>1 DEF Swap
  <2> QED BY <1>2, <2>2 DEF TypeOK
<1>3. ASSUME NEW id \in SwapIds, NEW s \in Secrets, CompleteSwap(id, s)
      PROVE  TypeOK'
  <2>1. swaps' \in [SwapIds -> Swap \cup {NoSwap}]
    BY <1>2, <1>3 DEF CompleteSwap
  <2> QED BY <1>0, <1>3, <2>1 DEF CompleteSwap, TypeOK
<1>4. ASSUME NEW id \in SwapIds, NEW s \in Accounts, RefundSwap(id, s)
      PROVE  TypeOK'
  <2>1. swaps' \in [SwapIds -> Swap \cup {NoSwap}]
    BY <1>2, <1>4 DEF RefundSwap
  <2> QED BY <1>0, <1>4, <2>1 DEF RefundSwap, TypeOK
<1>5. ASSUME NEW t \in Assets, AddSupportedToken(t) \/ RemoveSupportedToken(t)
      PROVE  TypeOK'
  BY <1>5 DEF AddSupportedToken, RemoveSupportedToken, TypeOK
<1>6. ASSUME NEW f \in Fees, SetFeeBasisPoints(f)
      PROVE  TypeOK'
  BY <1>6 DEF SetFeeBasisPoints, TypeOK
<1>7. ASSUME NEW t \in Assets, NEW a \in Amounts, WithdrawFees(t, a)
      PROVE  TypeOK'
  <2>1. withdrawn' \in [Assets -> Nat]
    BY <1>7 DEF WithdrawFees, TypeOK
  <2> QED BY <1>0, <1>7, <2>1 DEF WithdrawFees, TypeOK
<1>8. CASE Pause \/ Unpause
  BY <1>8 DEF Pause, Unpause, TypeOK
<1>9. ASSUME NEW v \in Amounts, Receive(v)
      PROVE  TypeOK'
  BY <1>0, <1>9 DEF Receive, TypeOK
<1>10. CASE Tick
  BY <1>10 DEF Tick, TypeOK
<1>11. CASE UNCHANGED vars
  BY <1>11 DEF vars, TypeOK
<1> HIDE ConstantsAssumption
<1> QED
  BY <1>1, <1>3, <1>4, <1>5, <1>6, <1>7, <1>8, <1>9, <1>10, <1>11 DEF Next

LEMMA InitIInv == Init => IInv
<1> SUFFICES ASSUME Init
             PROVE  TypeOK /\ BooksWithinHoldings
  BY DEF IInv
<1> USE ConstantsAssumption DEF Init
<1>1. swaps \in [SwapIds -> Swap \cup {NoSwap}]
  OBVIOUS
<1>2. feeBasisPoints \in Nat /\ now \in Nat /\ supportedTokens \subseteq Assets
  BY DEF Assets
<1>3. TypeOK
  BY <1>1, <1>2 DEF TypeOK
<1>4. BooksWithinHoldings
  BY DEF BooksWithinHoldings
<1> QED BY <1>3, <1>4

LEMMA NextIInv == IInv /\ [Next]_vars => IInv'
<1> SUFFICES ASSUME IInv, [Next]_vars
             PROVE  IInv'
  OBVIOUS
<1>1. TypeOK' /\ Sound
  BY NextTypeOK, NextSound DEF IInv
<1>2. ASSUME NEW t \in Assets
      PROVE  tokenBalances'[t] <= held'[t]
  <2>1. /\ tokenBalances[t] \in Nat /\ held[t] \in Nat
        /\ tokenBalances'[t] \in Nat /\ held'[t] \in Nat
    BY <1>1 DEF IInv, TypeOK, Sound
  <2>2. tokenBalances[t] <= held[t]
    BY DEF IInv, BooksWithinHoldings
  <2>3. held'[t] - tokenBalances'[t] >= held[t] - tokenBalances[t]
    BY <1>1 DEF Sound
  <2> QED BY <2>1, <2>2, <2>3
<1> QED BY <1>1, <1>2 DEF IInv, BooksWithinHoldings

(* The books of the bridge never claim more than it holds, however swaps,   *)
(* withdrawals, refused transfers and changes of fee and tokens interleave. *)
THEOREM BooksInvariant == Spec => [](TypeOK /\ BooksWithinHoldings)
<1>1. Init => IInv
  BY InitIInv
<1>2. IInv /\ [Next]_vars => IInv'
  BY NextIInv
<1>3. IInv => TypeOK /\ BooksWithinHoldings
  BY DEF IInv
<1> QED BY <1>1, <1>2, <1>3, PTL DEF Spec

(* Nothing ever pays out the fees and the excess of native payments.        *)
THEOREM FeesAreNeverPaidOut == Spec => BeyondNeverShrinks
<1>1. Init => IInv
  BY InitIInv
<1>2. IInv /\ [Next]_vars => IInv'
  BY NextIInv
<1>3. ASSUME IInv, [Next]_vars
      PROVE  \A t \in Assets : Beyond(t)' >= Beyond(t)
  BY <1>3, NextSound DEF IInv, Sound, Beyond
<1>4. IInv /\ [Next]_vars => [\A t \in Assets : Beyond(t)' >= Beyond(t)]_vars
  BY <1>3
<1> QED BY <1>1, <1>2, <1>4, PTL DEF Spec, BeyondNeverShrinks

-----------------------------------------------------------------------------
(* The principal is a sum of naturals over the finitely many swaps.         *)
LEMMA OwedIsNat ==
  ASSUME TypeOK, NEW t \in Assets
  PROVE  /\ \A id \in SwapIds : Owed(t)[id] \in Nat
         /\ Principal(t) = SumFunctionOnSet(Owed(t), SwapIds)
         /\ Principal(t) \in Nat
<1>1. \A id \in SwapIds : Owed(t)[id] \in Nat
  BY DEF TypeOK, Swap, NoSwap, Owed
<1>2. Principal(t) = SumFunctionOnSet(Owed(t), SwapIds)
  <2>1. DOMAIN Owed(t) = SwapIds
    BY DEF Owed
  <2> QED BY <2>1 DEF Principal, SumFunction
<1>3. SumFunctionOnSet(Owed(t), SwapIds) \in Nat
  <2> HIDE DEF Owed
  <2> QED BY <1>1, SumOfNats, ConstantsAssumption
<1> QED BY <1>1, <1>2, <1>3

(* One swap's entry changes, and the principal by what it owes. *)
LEMMA PrincipalChanges ==
  ASSUME TypeOK, TypeOK', NEW id \in SwapIds, NEW swap,
         swaps' = [swaps EXCEPT ![id] = swap], NEW t \in Assets
  PROVE  Principal(t)' = Principal(t) - Owed(t)[id] + Owed(t)'[id]
<1>1. /\ \A x \in SwapIds : Owed(t)[x] \in Int /\ Owed(t)'[x] \in Int
      /\ Principal(t) = SumFunctionOnSet(Owed(t), SwapIds)
  BY OwedIsNat DEF TypeOK, Swap, NoSwap, Owed
<1>2. Principal(t)' = SumFunctionOnSet(Owed(t)', SwapIds)
  <2>1. DOMAIN Owed(t)' = SwapIds
    BY DEF Owed
  <2> QED BY <2>1 DEF Principal, SumFunction
<1>3. \A x \in SwapIds \ {id} : Owed(t)'[x] = Owed(t)[x]
  BY DEF TypeOK, Owed
<1> HIDE DEF Owed
<1> QED BY <1>1, <1>2, <1>3, SumChange, ConstantsAssumption

(* Swaps that stay as they are keep the principal. *)
LEMMA PrincipalStays ==
  ASSUME swaps' = swaps, NEW t
  PROVE  Principal(t)' = Principal(t)
BY DEF Principal, Owed

(* A swap is opened with what is booked for it, and closed with what is     *)
(* taken from the books.                                                    *)
LEMMA NextCovered ==
  ASSUME TypeOK, TypeOK', OpenSwapsCovered, [Next]_vars
  PROVE  OpenSwapsCovered'
<1> USE ConstantsAssumption
<1>0. ASSUME NEW x \in Assets
      PROVE  /\ Principal(x) \in Nat /\ Principal(x) <= tokenBalances[x] + withdrawn[x]
             /\ tokenBalances[x] \in Nat /\ withdrawn[x] \in Nat
             /\ tokenBalances'[x] \in Nat /\ withdrawn'[x] \in Nat
  BY OwedIsNat DEF TypeOK, OpenSwapsCovered
<1>1. ASSUME NEW id \in SwapIds, NEW s \in Accounts, NEW r \in Accounts,
             NEW a \in Amounts, NEW v \in Amounts \cup {0}, NEW t \in Assets,
             NEW d \in Digests, NEW l \in Times, InitiateSwap(id, s, r, a, t, d, l, v)
      PROVE  OpenSwapsCovered'
  <2> DEFINE after == a - FeeOf(a)
             swap == [status |-> "initiated", initiator |-> s, recipient |-> r,
                      amount |-> after, token |-> t, hashLock |-> d, timeLock |-> l]
  <2>1. after \in Nat
    BY <1>1, InitiateBooks
  <2>2. /\ swaps[id] = NoSwap /\ swaps' = [swaps EXCEPT ![id] = swap]
        /\ tokenBalances' = [tokenBalances EXCEPT ![t] = @ + after] /\ withdrawn' = withdrawn
    BY <1>1 DEF InitiateSwap
  <2> HIDE DEF after
  <2>3. ASSUME NEW x \in Assets
        PROVE  Owed(x)[id] = 0 /\ Owed(x)'[id] = IF x = t THEN after ELSE 0
    BY <2>2 DEF Owed, NoSwap, TypeOK
  <2> HIDE DEF swap
  <2>4. ASSUME NEW x \in Assets
        PROVE  Principal(x)' <= tokenBalances'[x] + withdrawn'[x]
    <3>1. Principal(x)' = Principal(x) - Owed(x)[id] + Owed(x)'[id]
      BY <2>2, PrincipalChanges
    <3>2. tokenBalances'[x] = IF x = t THEN tokenBalances[x] + after ELSE tokenBalances[x]
      BY <2>2 DEF TypeOK
    <3> QED BY <1>0, <2>1, <2>2, <2>3, <3>1, <3>2
  <2> QED BY <2>4 DEF OpenSwapsCovered
<1>2. ASSUME NEW id \in SwapIds, swaps[id].status = "initiated",
             NEW status \in {"completed", "refunded"},
             swaps' = [swaps EXCEPT ![id].status = status],
             Deduct(swaps[id].token, swaps[id].amount), withdrawn' = withdrawn
      PROVE  OpenSwapsCovered'
  <2> DEFINE t == swaps[id].token
             amount == swaps[id].amount
             swap == [swaps[id] EXCEPT !.status = status]
  <2>1. t \in Assets /\ amount \in Nat
    BY <1>2 DEF TypeOK, Swap, NoSwap
  <2>2. tokenBalances' = [tokenBalances EXCEPT ![t] = @ - amount]
    BY <1>2 DEF Deduct
  <2>3. swaps' = [swaps EXCEPT ![id] = swap] /\ swaps'[id].status = status
    BY <1>2 DEF TypeOK, Swap, NoSwap
  <2>4. ASSUME NEW x \in Assets
        PROVE  Owed(x)[id] = (IF x = t THEN amount ELSE 0) /\ Owed(x)'[id] = 0
    BY <1>2, <2>3 DEF Owed
  <2> HIDE DEF swap
  <2>5. ASSUME NEW x \in Assets
        PROVE  Principal(x)' <= tokenBalances'[x] + withdrawn'[x]
    <3>1. Principal(x)' = Principal(x) - Owed(x)[id] + Owed(x)'[id]
      BY <2>3, PrincipalChanges
    <3>2. tokenBalances'[x] = IF x = t THEN tokenBalances[x] - amount ELSE tokenBalances[x]
      BY <2>2 DEF TypeOK
    <3> HIDE DEF t, amount
    <3> QED BY <1>0, <1>2, <2>1, <2>4, <3>1, <3>2
  <2> QED BY <2>5 DEF OpenSwapsCovered
<1>3. ASSUME NEW id \in SwapIds, NEW s \in Secrets, CompleteSwap(id, s)
      PROVE  OpenSwapsCovered'
  BY <1>2, <1>3 DEF CompleteSwap
<1>4. ASSUME NEW id \in SwapIds, NEW s \in Accounts, RefundSwap(id, s)
      PROVE  OpenSwapsCovered'
  BY <1>2, <1>4 DEF RefundSwap
<1>5. ASSUME swaps' = swaps,
             \A x \in Assets : tokenBalances'[x] + withdrawn'[x] >= tokenBalances[x] + withdrawn[x]
      PROVE  OpenSwapsCovered'
  <2>1. ASSUME NEW x \in Assets
        PROVE  Principal(x)' <= tokenBalances'[x] + withdrawn'[x]
    BY <1>0, <1>5, PrincipalStays
  <2> QED BY <2>1 DEF OpenSwapsCovered
<1>6. ASSUME UNCHANGED <<swaps, tokenBalances, withdrawn>>
      PROVE  OpenSwapsCovered'
  BY <1>0, <1>5, <1>6
<1>7. ASSUME NEW t \in Assets, NEW a \in Amounts, WithdrawFees(t, a)
      PROVE  OpenSwapsCovered'
  <2>1. /\ swaps' = swaps /\ tokenBalances' = [tokenBalances EXCEPT ![t] = @ - a]
        /\ withdrawn' = [withdrawn EXCEPT ![t] = @ + a] /\ a \in Nat
    BY <1>7 DEF WithdrawFees, Deduct
  <2>2. \A x \in Assets : tokenBalances'[x] + withdrawn'[x] >= tokenBalances[x] + withdrawn[x]
    BY <1>0, <2>1 DEF TypeOK
  <2> QED BY <1>5, <2>1, <2>2
<1>8. ASSUME NEW v \in Amounts, Receive(v)
      PROVE  OpenSwapsCovered'
  <2>1. /\ swaps' = swaps /\ tokenBalances' = [tokenBalances EXCEPT ![Native] = @ + v]
        /\ withdrawn' = withdrawn /\ v \in Nat
    BY <1>8 DEF Receive
  <2>2. \A x \in Assets : tokenBalances'[x] + withdrawn'[x] >= tokenBalances[x] + withdrawn[x]
    BY <1>0, <2>1 DEF TypeOK
  <2> QED BY <1>5, <2>1, <2>2
<1> HIDE ConstantsAssumption
<1> QED
  BY <1>1, <1>3, <1>4, <1>6, <1>7, <1>8
     DEF Next, vars, AddSupportedToken, RemoveSupportedToken, SetFeeBasisPoints, Pause, Unpause, Tick

(* Nothing is owed at first. *)
LEMMA InitCovered == Init => OpenSwapsCovered
<1> SUFFICES ASSUME Init, NEW t \in Assets
             PROVE  Principal(t) <= tokenBalances[t] + withdrawn[t]
  BY DEF OpenSwapsCovered
<1>1. TypeOK
  BY InitIInv DEF IInv
<1>2. \A id \in SwapIds : Owed(t)[id] = [x \in SwapIds |-> 0][id]
  BY DEF Init, Owed, NoSwap
<1>3. Principal(t) = SumFunctionOnSet([x \in SwapIds |-> 0], SwapIds)
  BY <1>1, <1>2, OwedIsNat, SumSame, ConstantsAssumption
<1>4. SumFunctionOnSet([x \in SwapIds |-> 0], SwapIds) = 0
  BY SumOfZeros, ConstantsAssumption
<1> QED BY <1>3, <1>4 DEF Init

(* But for what withdrawFees took, the books cover the principal of all     *)
(* open swaps of a token together: completions and refunds in any order     *)
(* never spend one swap's principal on another (completeSwap, refundSwap).  *)
THEOREM OpenSwapsAreCovered == Spec => []OpenSwapsCovered
<1>1. Init => IInv /\ OpenSwapsCovered
  BY InitIInv, InitCovered
<1>2. IInv /\ OpenSwapsCovered /\ [Next]_vars => (IInv /\ OpenSwapsCovered)'
  <2>1. IInv /\ [Next]_vars => IInv'
    BY NextIInv
  <2> QED BY <2>1, NextCovered DEF IInv
<1> QED BY <1>1, <1>2, PTL DEF Spec
-----------------------------------------------------------------------------
(* Two functions that agree but at one argument.                            *)
LEMMA OneValueDiffers ==
  ASSUME NEW X, NEW id \in X, NEW v, NEW f, NEW g,
         f = [x \in X |-> f[x]], g = [x \in X |-> g[x]],
         \A x \in X : g[x] = IF x = id THEN v ELSE f[x]
  PROVE  g = [f EXCEPT ![id] = v]
  OBVIOUS

(* What the promise sees of the entries when one of them is put in.         *)
LEMMA OneEntryChanges ==
  ASSUME TypeOK, NEW id \in SwapIds, NEW swap, swaps' = [swaps EXCEPT ![id] = swap]
  PROVE  /\ [x \in SwapIds |-> Phase[swaps'[x].status]]
              = [[x \in SwapIds |-> Phase[swaps[x].status]] EXCEPT ![id] = Phase[swap.status]]
         /\ [x \in SwapIds |-> IF swaps'[x].status = "none" THEN NoDigest ELSE "any"]
              = [[x \in SwapIds |-> IF swaps[x].status = "none" THEN NoDigest ELSE "any"]
                   EXCEPT ![id] = IF swap.status = "none" THEN NoDigest ELSE "any"]
         /\ [x \in SwapIds |-> swaps'[x].timeLock]
              = [[x \in SwapIds |-> swaps[x].timeLock] EXCEPT ![id] = swap.timeLock]
<1>1. \A x \in SwapIds : swaps'[x] = IF x = id THEN swap ELSE swaps[x]
  BY DEF TypeOK
<1>2. [x \in SwapIds |-> Phase[swaps'[x].status]]
        = [[x \in SwapIds |-> Phase[swaps[x].status]] EXCEPT ![id] = Phase[swap.status]]
  <2> DEFINE f == [x \in SwapIds |-> Phase[swaps[x].status]]
             g == [x \in SwapIds |-> Phase[swaps'[x].status]]
             v == Phase[swap.status]
  <2>1. f = [x \in SwapIds |-> f[x]] /\ g = [x \in SwapIds |-> g[x]]
    OBVIOUS
  <2>2. \A x \in SwapIds : g[x] = IF x = id THEN v ELSE f[x]
    BY <1>1
  <2>3. g = [f EXCEPT ![id] = v]
    <3> HIDE DEF f, g, v
    <3> QED BY <2>1, <2>2, OneValueDiffers
  <2> QED BY <2>3
<1>3. [x \in SwapIds |-> IF swaps'[x].status = "none" THEN NoDigest ELSE "any"]
        = [[x \in SwapIds |-> IF swaps[x].status = "none" THEN NoDigest ELSE "any"]
             EXCEPT ![id] = IF swap.status = "none" THEN NoDigest ELSE "any"]
  <2> DEFINE f == [x \in SwapIds |-> IF swaps[x].status = "none" THEN NoDigest ELSE "any"]
             g == [x \in SwapIds |-> IF swaps'[x].status = "none" THEN NoDigest ELSE "any"]
             v == IF swap.status = "none" THEN NoDigest ELSE "any"
  <2>1. f = [x \in SwapIds |-> f[x]] /\ g = [x \in SwapIds |-> g[x]]
    OBVIOUS
  <2>2. \A x \in SwapIds : g[x] = IF x = id THEN v ELSE f[x]
    BY <1>1
  <2>3. g = [f EXCEPT ![id] = v]
    <3> HIDE DEF f, g, v
    <3> QED BY <2>1, <2>2, OneValueDiffers
  <2> QED BY <2>3
<1>4. [x \in SwapIds |-> swaps'[x].timeLock]
        = [[x \in SwapIds |-> swaps[x].timeLock] EXCEPT ![id] = swap.timeLock]
  <2> DEFINE f == [x \in SwapIds |-> swaps[x].timeLock]
             g == [x \in SwapIds |-> swaps'[x].timeLock]
             v == swap.timeLock
  <2>1. f = [x \in SwapIds |-> f[x]] /\ g = [x \in SwapIds |-> g[x]]
    OBVIOUS
  <2>2. \A x \in SwapIds : g[x] = IF x = id THEN v ELSE f[x]
    BY <1>1
  <2>3. g = [f EXCEPT ![id] = v]
    <3> HIDE DEF f, g, v
    <3> QED BY <2>1, <2>2, OneValueDiffers
  <2> QED BY <2>3
<1> QED BY <1>2, <1>3, <1>4

(* Settling leaves the digest and the expiry that the promise sees.         *)
LEMMA SettlingKeeps ==
  ASSUME TypeOK, NEW id \in SwapIds, swaps[id].status = "initiated",
         NEW status, status # "none",
         swaps' = [swaps EXCEPT ![id].status = status]
  PROVE  /\ [x \in SwapIds |-> Phase[swaps'[x].status]]
              = [[x \in SwapIds |-> Phase[swaps[x].status]] EXCEPT ![id] = Phase[status]]
         /\ [x \in SwapIds |-> IF swaps'[x].status = "none" THEN NoDigest ELSE "any"]
              = [x \in SwapIds |-> IF swaps[x].status = "none" THEN NoDigest ELSE "any"]
         /\ [x \in SwapIds |-> swaps'[x].timeLock] = [x \in SwapIds |-> swaps[x].timeLock]
<1>1. swaps[id] \in Swap
  BY DEF TypeOK, NoSwap
<1>2. \A x \in SwapIds : x # id => swaps'[x] = swaps[x]
  BY DEF TypeOK
<1>3. swaps'[id].status = status /\ swaps'[id].timeLock = swaps[id].timeLock
  BY <1>1 DEF TypeOK, Swap
<1>4. [x \in SwapIds |-> Phase[swaps'[x].status]]
        = [[x \in SwapIds |-> Phase[swaps[x].status]] EXCEPT ![id] = Phase[status]]
  <2> DEFINE f == [x \in SwapIds |-> Phase[swaps[x].status]]
             g == [x \in SwapIds |-> Phase[swaps'[x].status]]
             v == Phase[status]
  <2>1. f = [x \in SwapIds |-> f[x]] /\ g = [x \in SwapIds |-> g[x]]
    OBVIOUS
  <2>2. \A x \in SwapIds : g[x] = IF x = id THEN v ELSE f[x]
    BY <1>2, <1>3
  <2>3. g = [f EXCEPT ![id] = v]
    <3> HIDE DEF f, g, v
    <3> QED BY <2>1, <2>2, OneValueDiffers
  <2> QED BY <2>3
<1>5. \A x \in SwapIds : (swaps'[x].status = "none") <=> (swaps[x].status = "none")
  BY <1>2, <1>3
<1>6. \A x \in SwapIds : swaps'[x].timeLock = swaps[x].timeLock
  BY <1>2, <1>3
<1>7. [x \in SwapIds |-> IF swaps'[x].status = "none" THEN NoDigest ELSE "any"]
        = [x \in SwapIds |-> IF swaps[x].status = "none" THEN NoDigest ELSE "any"]
  BY <1>5
<1>8. [x \in SwapIds |-> swaps'[x].timeLock] = [x \in SwapIds |-> swaps[x].timeLock]
  BY <1>6
<1> QED BY <1>4, <1>7, <1>8

LEMMA PromiseInit == Init => Promise!Init
<1> SUFFICES ASSUME Init PROVE Promise!Init
  OBVIOUS
<1>1. \A id \in SwapIds : swaps[id] = NoSwap
  BY DEF Init
<1>2. [id \in SwapIds |-> Phase[swaps[id].status]] = [id \in SwapIds |-> "none"]
  BY <1>1 DEF NoSwap, Phase
<1>3. [id \in SwapIds |-> IF swaps[id].status = "none" THEN NoDigest ELSE "any"]
        = [id \in SwapIds |-> NoDigest]
  BY <1>1 DEF NoSwap
<1>4. [id \in SwapIds |-> swaps[id].timeLock] = [id \in SwapIds |-> 0]
  BY <1>1 DEF NoSwap
<1>5. revealed = [id \in SwapIds |-> NoSecret] /\ now \in Nat
  BY ConstantsAssumption DEF Init
<1> QED BY <1>2, <1>3, <1>4, <1>5 DEF Promise!Init

LEMMA PromiseStep == TypeOK /\ [Next]_vars => [Promise!Next]_(Promise!vars)
<1> SUFFICES ASSUME TypeOK, [Next]_vars
             PROVE  Promise!Next \/ UNCHANGED Promise!vars
  OBVIOUS
<1>1. ASSUME UNCHANGED <<swaps, revealed, now>>
      PROVE  UNCHANGED Promise!vars
  BY <1>1 DEF Promise!vars
<1>2. ASSUME \/ \E t \in Assets : AddSupportedToken(t) \/ RemoveSupportedToken(t)
             \/ \E f \in Fees : SetFeeBasisPoints(f)
             \/ \E t \in Assets, a \in Amounts : WithdrawFees(t, a)
             \/ Pause \/ Unpause
             \/ \E v \in Amounts : Receive(v)
      PROVE  UNCHANGED Promise!vars
  BY <1>1, <1>2 DEF AddSupportedToken, RemoveSupportedToken, SetFeeBasisPoints,
     WithdrawFees, Pause, Unpause, Receive
<1>3. ASSUME NEW id \in SwapIds, NEW s \in Accounts, NEW r \in Accounts, NEW a \in Amounts,
             NEW v \in Amounts \cup {0}, NEW t \in Assets, NEW d \in Digests, NEW l \in Times,
             InitiateSwap(id, s, r, a, t, d, l, v)
      PROVE  Promise!Lock(id)
  <2> DEFINE swap == [status |-> "initiated", initiator |-> s, recipient |-> r,
                      amount |-> a - FeeOf(a), token |-> t, hashLock |-> d, timeLock |-> l]
  <2>1. /\ swaps[id] = NoSwap /\ l > now /\ swaps' = [swaps EXCEPT ![id] = swap]
        /\ revealed' = revealed /\ now' = now
    BY <1>3 DEF InitiateSwap
  <2>2. swap.status = "initiated" /\ swap.timeLock = l
    OBVIOUS
  <2> HIDE DEF swap
  <2>3. /\ swaps[id].status = "none" /\ Phase["initiated"] = "locked" /\ Phase["none"] = "none"
    BY <2>1 DEF NoSwap, Phase
  <2>4. /\ [x \in SwapIds |-> Phase[swaps'[x].status]]
             = [[x \in SwapIds |-> Phase[swaps[x].status]] EXCEPT ![id] = "locked"]
        /\ [x \in SwapIds |-> Phase[swaps[x].status]][id] = "none"
    <3>1. [x \in SwapIds |-> Phase[swaps'[x].status]]
            = [[x \in SwapIds |-> Phase[swaps[x].status]] EXCEPT ![id] = Phase[swap.status]]
      BY <2>1, OneEntryChanges, Zenon
    <3>2. Phase[swap.status] = "locked"
      BY <2>2, <2>3, Zenon
    <3>3. [x \in SwapIds |-> Phase[swaps[x].status]][id] = "none"
      BY <2>3
    <3> QED BY <3>1, <3>2, <3>3, Zenon
  <2>5. [x \in SwapIds |-> IF swaps'[x].status = "none" THEN NoDigest ELSE "any"]
          = [[x \in SwapIds |-> IF swaps[x].status = "none" THEN NoDigest ELSE "any"]
               EXCEPT ![id] = "any"]
    BY <2>1, <2>2, OneEntryChanges
  <2>6. /\ [x \in SwapIds |-> swaps'[x].timeLock]
             = [[x \in SwapIds |-> swaps[x].timeLock] EXCEPT ![id] = l]
        /\ [x \in SwapIds |-> swaps'[x].timeLock][id] = l
    <3>1. [x \in SwapIds |-> swaps'[x].timeLock]
            = [[x \in SwapIds |-> swaps[x].timeLock] EXCEPT ![id] = swap.timeLock]
      BY <2>1, OneEntryChanges, Zenon
    <3>2. [x \in SwapIds |-> swaps'[x].timeLock][id] = l
      BY <2>1, <2>2 DEF TypeOK
    <3> QED BY <2>2, <3>1, <3>2, Zenon
  <2> QED BY <2>1, <2>4, <2>5, <2>6 DEF Promise!Lock
<1>4. ASSUME NEW id \in SwapIds, NEW s \in Secrets, CompleteSwap(id, s)
      PROVE  Promise!Claim(id)
  <2>1. /\ swaps[id].status = "initiated" /\ swaps' = [swaps EXCEPT ![id].status = "completed"]
        /\ revealed' = [revealed EXCEPT ![id] = s] /\ now' = now
    BY <1>4 DEF CompleteSwap
  <2>2. Phase["initiated"] = "locked" /\ Phase["completed"] = "claimed"
    BY DEF Phase
  <2>3. /\ [x \in SwapIds |-> Phase[swaps'[x].status]]
             = [[x \in SwapIds |-> Phase[swaps[x].status]] EXCEPT ![id] = "claimed"]
        /\ [x \in SwapIds |-> IF swaps'[x].status = "none" THEN NoDigest ELSE "any"]
             = [x \in SwapIds |-> IF swaps[x].status = "none" THEN NoDigest ELSE "any"]
        /\ [x \in SwapIds |-> swaps'[x].timeLock] = [x \in SwapIds |-> swaps[x].timeLock]
    <3>1. /\ [x \in SwapIds |-> Phase[swaps'[x].status]]
               = [[x \in SwapIds |-> Phase[swaps[x].status]] EXCEPT ![id] = Phase["completed"]]
          /\ [x \in SwapIds |-> IF swaps'[x].status = "none" THEN NoDigest ELSE "any"]
               = [x \in SwapIds |-> IF swaps[x].status = "none" THEN NoDigest ELSE "any"]
          /\ [x \in SwapIds |-> swaps'[x].timeLock] = [x \in SwapIds |-> swaps[x].timeLock]
      BY <2>1, "completed" # "none", SettlingKeeps, Zenon
    <3> QED BY <2>2, <3>1, Zenon
  <2>4. /\ [x \in SwapIds |-> Phase[swaps[x].status]][id] = "locked"
        /\ [x \in SwapIds |-> IF swaps[x].status = "none" THEN NoDigest ELSE "any"][id] = "any"
        /\ [x \in Secrets |-> "any"][s] = "any"
    BY <2>1, <2>2
  <2> QED BY <2>1, <2>3, <2>4 DEF Promise!Claim
<1>5. ASSUME NEW id \in SwapIds, NEW s \in Accounts, RefundSwap(id, s)
      PROVE  Promise!Return(id)
  <2>1. /\ swaps[id].status = "initiated" /\ swaps' = [swaps EXCEPT ![id].status = "refunded"]
        /\ now >= swaps[id].timeLock /\ revealed' = revealed /\ now' = now
    BY <1>5 DEF RefundSwap
  <2>2. Phase["initiated"] = "locked" /\ Phase["refunded"] = "returned"
    BY DEF Phase
  <2>3. /\ [x \in SwapIds |-> Phase[swaps'[x].status]]
             = [[x \in SwapIds |-> Phase[swaps[x].status]] EXCEPT ![id] = "returned"]
        /\ [x \in SwapIds |-> IF swaps'[x].status = "none" THEN NoDigest ELSE "any"]
             = [x \in SwapIds |-> IF swaps[x].status = "none" THEN NoDigest ELSE "any"]
        /\ [x \in SwapIds |-> swaps'[x].timeLock] = [x \in SwapIds |-> swaps[x].timeLock]
    <3>1. /\ [x \in SwapIds |-> Phase[swaps'[x].status]]
               = [[x \in SwapIds |-> Phase[swaps[x].status]] EXCEPT ![id] = Phase["refunded"]]
          /\ [x \in SwapIds |-> IF swaps'[x].status = "none" THEN NoDigest ELSE "any"]
               = [x \in SwapIds |-> IF swaps[x].status = "none" THEN NoDigest ELSE "any"]
          /\ [x \in SwapIds |-> swaps'[x].timeLock] = [x \in SwapIds |-> swaps[x].timeLock]
      BY <2>1, "refunded" # "none", SettlingKeeps, Zenon
    <3> QED BY <2>2, <3>1, Zenon
  <2>4. /\ [x \in SwapIds |-> Phase[swaps[x].status]][id] = "locked"
        /\ [x \in SwapIds |-> swaps[x].timeLock][id] = swaps[id].timeLock
    BY <2>1, <2>2
  <2> QED BY <2>1, <2>3, <2>4 DEF Promise!Return
<1>6. CASE Tick
  <2>1. now' \in Nat /\ now' > now /\ swaps' = swaps /\ revealed' = revealed
    BY <1>6, ConstantsAssumption DEF Tick
  <2> QED BY <2>1 DEF Promise!Next, Promise!Tick
<1>7. CASE UNCHANGED vars
  BY <1>1, <1>7 DEF vars
<1>8. ASSUME NEW id \in SwapIds, Promise!Lock(id) \/ Promise!Claim(id) \/ Promise!Return(id)
      PROVE  Promise!Next
  BY <1>8 DEF Promise!Next
<1> QED
  BY <1>2, <1>3, <1>4, <1>5, <1>6, <1>7, <1>8 DEF Next

(***************************************************************************)
(* With all digests identified the bridge implements the hashed timelock   *)
(* promise: completeSwap or refundSwap pays out, never both, once, and a   *)
(* refund not before the time lock, whatever the owner does in between.    *)
(***************************************************************************)
THEOREM SettlesOnceHolds == Spec => SettlesOnce
<1>1. Spec => []TypeOK
  BY BooksInvariant, PTL
<1> QED BY <1>1, PromiseInit, PromiseStep, PTL DEF Spec, SettlesOnce, Promise!Spec

-----------------------------------------------------------------------------
(***************************************************************************)
(* Withdrawals.  FormInv: as long as no fetch failed and no answer was      *)
(* lost, the page shows the balance whenever a form can be sent, and a form *)
(* that is filled and not under way has not been paid.                      *)
(***************************************************************************)
FormFilled ==
  /\ withdrawal \in [amount : 0..(Funds + 1), account : BOOLEAN, pc : {"loading", "idle", "sent", "paid"}]
  /\ funds \in Int /\ pageBalance \in Int
  /\ pageList \subseteq payouts
FormsNumbered ==
  /\ submissions \in Nat /\ formNo \in Nat
  /\ formNo <= submissions + 1
  /\ withdrawal.pc \in {"sent", "paid"} => formNo <= submissions
  /\ \A p \in payouts : p[1] \in Nat /\ p[1] <= submissions
BalanceShown ==
  mishaps \cap {"stale", "lost"} = {} =>
    /\ funds >= 0
    /\ withdrawal.pc \in {"idle", "sent"} => pageBalance = funds
    /\ withdrawal.pc = "sent" => withdrawal.amount <= pageBalance
FormUnpaid ==
  "lost" \notin mishaps =>
    /\ withdrawal.pc \in {"idle", "sent"} /\ withdrawal.amount > 0 => \A p \in payouts : p[1] # formNo
    /\ withdrawal.pc = "sent" => withdrawal.amount > 0
    /\ \A p, r \in payouts : p[1] = r[1] => p = r
FormInv == FormFilled /\ FormsNumbered /\ BalanceShown /\ FormUnpaid

(* The page is loading at first and nothing is paid. *)
LEMMA InitForm == W!Init => FormInv
<1> SUFFICES ASSUME W!Init PROVE FormInv
  OBVIOUS
<1>1. withdrawal = [amount |-> 0, account |-> FALSE, pc |-> "loading"]
  BY DEF W!Init, W!BlankForm
<1>2. funds = Funds /\ pageBalance = 0 /\ payouts = {} /\ pageList = {} /\ formNo = 0 /\ submissions = 0
  BY DEF W!Init
<1>3. FormFilled
  BY <1>1, <1>2, FundsAssumption DEF FormFilled
<1>4. FormsNumbered /\ BalanceShown /\ FormUnpaid
  BY <1>1, <1>2, FundsAssumption DEF FormsNumbered, BalanceShown, FormUnpaid
<1> QED BY <1>3, <1>4 DEF FormInv

(* Every step of the form, the service and the fetches keeps the invariant. *)
LEMMA NextForm == FormInv /\ W!Next => FormInv'
<1> SUFFICES ASSUME FormInv, W!Next PROVE FormInv'
  OBVIOUS
<1> USE DEF FormInv
<1>0. Funds \in Nat
  BY FundsAssumption
<1>1. ASSUME NEW a \in W!Amounts \ {0}, NEW account \in BOOLEAN, W!FillForm(a, account)
      PROVE  FormInv'
  <2>1. /\ withdrawal.pc = "idle" /\ withdrawal'.pc = "idle" /\ withdrawal'.amount = a
        /\ withdrawal' = [withdrawal EXCEPT !.amount = a, !.account = account]
        /\ formNo' = submissions + 1
        /\ UNCHANGED <<funds, payouts, pageBalance, pageList, submissions, mishaps>>
    BY <1>1 DEF W!FillForm, FormFilled
  <2>2. a \in 0..(Funds + 1) /\ a > 0
    BY <1>0 DEF W!Amounts
  <2>3. FormFilled'
    BY <2>1, <2>2 DEF FormFilled
  <2>4. FormsNumbered'
    BY <2>1 DEF FormsNumbered
  <2>5. BalanceShown'
    BY <2>1 DEF BalanceShown
  <2>6. FormUnpaid'
    BY <2>1 DEF FormUnpaid, FormsNumbered
  <2> QED BY <2>3, <2>4, <2>5, <2>6
<1>2. CASE W!HandleSubmit
  <2>1. /\ withdrawal.pc = "idle" /\ withdrawal'.pc = "sent" /\ withdrawal'.amount = withdrawal.amount
        /\ withdrawal.amount > 0 /\ withdrawal.amount <= pageBalance
        /\ withdrawal' = [withdrawal EXCEPT !.pc = "sent"]
        /\ submissions' = submissions + 1
        /\ UNCHANGED <<funds, payouts, pageBalance, pageList, formNo, mishaps>>
    BY <1>2 DEF W!HandleSubmit, FormFilled
  <2>3. FormFilled'
    BY <2>1 DEF FormFilled
  <2>4. FormsNumbered'
    BY <2>1 DEF FormsNumbered
  <2>5. BalanceShown'
    BY <2>1 DEF BalanceShown
  <2>6. FormUnpaid'
    BY <2>1 DEF FormUnpaid
  <2> QED BY <2>3, <2>4, <2>5, <2>6
<1>3. CASE W!Pay
  <2> DEFINE a == withdrawal.amount
             paid == <<formNo, submissions, a>>
  <2>1. /\ withdrawal.pc = "sent" /\ withdrawal'.pc = "paid"
        /\ withdrawal' = [withdrawal EXCEPT !.pc = "paid"]
        /\ payouts' = payouts \cup {paid} /\ funds' = funds - a
        /\ UNCHANGED <<pageBalance, pageList, formNo, submissions, mishaps>>
    BY <1>3 DEF W!Pay, FormFilled
  <2>2. a \in Nat /\ paid[1] = formNo
    BY <1>0 DEF FormFilled
  <2>3. FormFilled'
    BY <2>1, <2>2 DEF FormFilled
  <2> HIDE DEF paid, a
  <2>4. FormsNumbered'
    BY <2>1, <2>2 DEF FormsNumbered
  <2>5. BalanceShown'
    BY <2>1, <2>2 DEF BalanceShown, FormFilled, a
  <2>6. FormUnpaid'
    <3> SUFFICES ASSUME "lost" \notin mishaps, NEW p \in payouts', NEW r \in payouts', p[1] = r[1]
                 PROVE  p = r
      BY <2>1 DEF FormUnpaid
    <3> QED BY <2>1, <2>2 DEF FormUnpaid, a
  <2> QED BY <2>3, <2>4, <2>5, <2>6
<1>4. CASE W!HandleWithdrawalThrows
  <2>1. /\ withdrawal.pc \in {"sent", "paid"} /\ withdrawal'.pc = "idle"
        /\ withdrawal'.amount = withdrawal.amount
        /\ withdrawal' = [withdrawal EXCEPT !.pc = "idle"]
        /\ mishaps \subseteq mishaps' /\ (withdrawal.pc = "paid" => "lost" \in mishaps')
        /\ UNCHANGED <<funds, payouts, pageBalance, pageList, formNo, submissions>>
    BY <1>4 DEF W!HandleWithdrawalThrows, FormFilled
  <2>3. FormFilled'
    BY <2>1 DEF FormFilled
  <2>4. FormsNumbered'
    BY <2>1 DEF FormsNumbered
  <2>5. BalanceShown'
    BY <2>1 DEF BalanceShown
  <2>6. FormUnpaid'
    BY <2>1 DEF FormUnpaid
  <2> QED BY <2>3, <2>4, <2>5, <2>6
<1>5. CASE W!FetchData
  <2>1. /\ withdrawal' = [amount |-> 0, account |-> FALSE, pc |-> "idle"]
        /\ UNCHANGED <<funds, payouts, formNo, submissions>>
        /\ mishaps \subseteq mishaps'
        /\ pageBalance' = funds \/ (pageBalance' = pageBalance /\ "stale" \in mishaps')
        /\ pageList' \in {payouts, pageList}
    BY <1>5 DEF W!FetchData, W!BlankForm
  <2>3. FormFilled'
    BY <1>0, <2>1 DEF FormFilled
  <2>4. FormsNumbered'
    BY <2>1 DEF FormsNumbered
  <2>5. BalanceShown'
    BY <2>1 DEF BalanceShown
  <2>6. FormUnpaid'
    BY <2>1 DEF FormUnpaid
  <2> QED BY <2>3, <2>4, <2>5, <2>6
<1> QED BY <1>1, <1>2, <1>3, <1>4, <1>5 DEF W!Next

(* The other pages leave it alone. *)
LEMMA RestingForm == FormInv /\ UNCHANGED ofWithdrawalPage => FormInv'
BY DEF ofWithdrawalPage, FormInv, FormFilled, FormsNumbered, BalanceShown, FormUnpaid

(* The invariant gives the two properties and the types. *)
LEMMA FormImplies == FormInv => W!NoOverdraft /\ W!PaidOncePerForm /\ W!TypeOK
BY DEF FormInv, FormFilled, BalanceShown, FormUnpaid, W!NoOverdraft, W!PaidOncePerForm, W!TypeOK, W!Amounts

(***************************************************************************)
(* Orders.  OrderInv: a payment made, or about to be made for the amount    *)
(* that stands in the form or was sent, is one for each amount typed.       *)
(***************************************************************************)
OrderForm == [amount : OrderAmounts \cup {O!Untyped}, amountError : BOOLEAN, error : BOOLEAN, loading : BOOLEAN]
OrderSent == [pc : {"sent"}, amount : OrderAmounts \cup {O!Untyped}]
OrderMade == [pc : {"made"}, payment : Nat]
OrderTables ==
  /\ orderForm \in OrderForm
  /\ orderRequest \in {O!NoRequest, [pc |-> "refused"]} \cup OrderSent \cup OrderMade
  /\ \/ orderForm.loading = TRUE /\ orderRequest # O!NoRequest
     \/ orderForm.loading = FALSE /\ orderRequest = O!NoRequest
OrdersListed ==
  /\ ordersMade \in Seq(OrderAmounts \cup {O!Untyped})
  /\ orderShown \in 0..Len(ordersMade)
  /\ orderRequest.pc = "made" => orderRequest.payment <= Len(ordersMade)
OrdersTyped ==
  /\ orderNotes.typed \in Nat
  /\ orderNotes.lost = TRUE \/ orderNotes.lost = FALSE
  /\ orderNotes = [typed |-> orderNotes.typed, sent |-> orderNotes.sent, lost |-> orderNotes.lost]
  /\ orderNotes.lost = FALSE =>
       Len(ordersMade) + (IF \/ orderRequest.pc = "sent"
                             \/ orderRequest.pc \in {"none", "refused"} /\ O!Valid(orderForm.amount)
                          THEN 1 ELSE 0) <= orderNotes.typed
OrderInv == OrderTables /\ OrdersListed /\ OrdersTyped

(* Nothing is typed or made at first. *)
LEMMA InitOrder == O!Init => OrderInv
<1> SUFFICES ASSUME O!Init PROVE OrderInv
  OBVIOUS
<1>1. orderForm \in OrderForm /\ orderForm.loading = FALSE /\ orderForm.amount = O!Untyped
  BY DEF O!Init, OrderForm
<1>2. orderNotes = [typed |-> 0, sent |-> 0, lost |-> FALSE] /\ orderRequest = O!NoRequest
      /\ ordersMade = << >> /\ orderShown = 0
  BY DEF O!Init
<1>3. orderRequest.pc = "none"
  BY <1>2 DEF O!NoRequest
<1>4. OrderTables
  BY <1>1, <1>2 DEF OrderTables
<1>5. OrdersListed
  BY <1>2, <1>3 DEF OrdersListed
<1>6. OrdersTyped
  BY <1>1, <1>2, <1>3 DEF OrdersTyped, O!Valid
<1> QED BY <1>4, <1>5, <1>6 DEF OrderInv

(* Every step of the form and of the server keeps the invariant. *)
LEMMA NextOrder == OrderInv /\ O!Next => OrderInv'
<1> SUFFICES ASSUME OrderInv, O!Next PROVE OrderInv'
  OBVIOUS
<1> DEFINE count == orderNotes.typed
           lost == orderNotes.lost
           made == Len(ordersMade)
<1>0. count \in Nat /\ made \in Nat
  BY DEF OrderInv, OrdersTyped, OrdersListed
<1>c. lost = TRUE \/ lost = FALSE
  BY DEF OrderInv, OrdersTyped
<1>a. orderForm = [amount |-> orderForm.amount, amountError |-> orderForm.amountError,
                   error |-> orderForm.error, loading |-> orderForm.loading]
      /\ orderForm.amount \in OrderAmounts \cup {O!Untyped}
  BY DEF OrderInv, OrderTables, OrderForm
<1>b. orderNotes = [typed |-> count, sent |-> orderNotes.sent, lost |-> lost]
  BY DEF OrderInv, OrdersTyped
<1>1. ASSUME NEW amount \in OrderAmounts, O!HandleAmountChange(amount) PROVE OrderInv'
  <2>1. orderForm'.amount = amount /\ orderForm'.loading = orderForm.loading /\ orderForm' \in OrderForm
    BY <1>1, <1>a DEF O!HandleAmountChange, OrderInv, OrderTables, OrderForm, O!Valid
  <2>2. /\ orderNotes' = [orderNotes EXCEPT !.typed = count + (IF O!Valid(amount) THEN 1 ELSE 0)]
        /\ UNCHANGED <<orderShown, orderRequest, ordersMade>>
    BY <1>1 DEF O!HandleAmountChange
  <2>3. /\ orderNotes' = [typed |-> orderNotes'.typed, sent |-> orderNotes'.sent, lost |-> orderNotes'.lost]
        /\ orderNotes'.typed = count + (IF O!Valid(amount) THEN 1 ELSE 0)
        /\ orderNotes'.lost = lost
    BY <1>b, <2>2
  <2>4. OrderTables' /\ OrdersListed'
    BY <2>1, <2>2 DEF OrderInv, OrderTables, OrdersListed
  <2>5. OrdersTyped'
    BY <1>0, <2>1, <2>2, <2>3 DEF OrderInv, OrdersTyped
  <2> QED BY <2>4, <2>5 DEF OrderInv
<1>2. CASE O!CreatePayment
  <2> DEFINE valid == O!Valid(orderForm.amount)
  <2>0. valid \in BOOLEAN
    BY DEF O!Valid
  <2>1. orderForm'.amount = orderForm.amount /\ orderForm'.loading = valid /\ orderForm' \in OrderForm
    BY <1>2, <1>a, <2>0 DEF O!CreatePayment, OrderInv, OrderTables, OrderForm
  <2>2. orderRequest = O!NoRequest /\ UNCHANGED <<orderShown, ordersMade>>
    BY <1>2 DEF O!CreatePayment, OrderInv, OrderTables
  <2>3. CASE valid
    <3>1. /\ orderRequest' = [pc |-> "sent", amount |-> orderForm.amount]
          /\ orderNotes' = [orderNotes EXCEPT !.sent = @ + 1]
      BY <1>2, <2>3 DEF O!CreatePayment
    <3>2. /\ orderNotes' = [typed |-> orderNotes'.typed, sent |-> orderNotes'.sent, lost |-> orderNotes'.lost]
          /\ orderNotes'.typed = count /\ orderNotes'.lost = lost
      BY <1>b, <3>1
    <3>3. orderRequest' \in OrderSent /\ orderRequest' # O!NoRequest /\ orderRequest'.pc = "sent"
      BY <1>a, <3>1 DEF OrderSent, O!NoRequest
    <3>4. OrderTables' /\ OrdersListed'
      BY <2>1, <2>2, <2>3, <3>3 DEF OrderInv, OrderTables, OrdersListed
    <3>5. OrdersTyped'
      BY <1>0, <2>2, <2>3, <3>2, <3>3 DEF OrderInv, OrdersTyped, O!NoRequest
    <3> QED BY <3>4, <3>5 DEF OrderInv
  <2>4. CASE ~valid
    <3>1. UNCHANGED <<orderRequest, orderNotes>>
      BY <1>2, <2>4 DEF O!CreatePayment
    <3>4. OrderTables' /\ OrdersListed'
      BY <2>1, <2>2, <2>4, <3>1 DEF OrderInv, OrderTables, OrdersListed
    <3>5. OrdersTyped'
      BY <2>1, <2>2, <3>1 DEF OrderInv, OrdersTyped
    <3> QED BY <3>4, <3>5 DEF OrderInv
  <2> QED BY <2>3, <2>4
<1>3. CASE O!ServeCreate
  <2>1. orderRequest.pc = "sent" /\ orderRequest # O!NoRequest
        /\ UNCHANGED <<orderForm, orderShown, orderNotes>>
    BY <1>3 DEF O!ServeCreate, O!NoRequest
  <2>2. CASE orderRequest' = [pc |-> "refused"] /\ UNCHANGED ordersMade
    <3>1. orderRequest'.pc = "refused" /\ orderRequest' # O!NoRequest
      BY <2>2 DEF O!NoRequest
    <3>2. OrderTables' /\ OrdersListed'
      BY <2>1, <2>2, <3>1 DEF OrderInv, OrderTables, OrdersListed
    <3>3. OrdersTyped'
      BY <1>0, <2>1, <2>2, <3>1 DEF OrderInv, OrdersTyped
    <3> QED BY <3>2, <3>3 DEF OrderInv
  <2>3. CASE /\ ordersMade' = Append(ordersMade, orderRequest.amount)
             /\ orderRequest' = [pc |-> "made", payment |-> Len(ordersMade) + 1]
    <3>0. orderRequest.amount \in OrderAmounts \cup {O!Untyped}
      BY <2>1 DEF OrderInv, OrderTables, OrderSent, OrderMade, O!NoRequest
    <3>1. ordersMade' \in Seq(OrderAmounts \cup {O!Untyped}) /\ Len(ordersMade') = made + 1
      BY <2>3, <3>0 DEF OrderInv, OrdersListed
    <3>2. /\ orderRequest' \in OrderMade /\ orderRequest' # O!NoRequest
          /\ orderRequest'.pc = "made" /\ orderRequest'.payment = made + 1
      BY <1>0, <2>3 DEF OrderMade, O!NoRequest
    <3>3. OrderTables' /\ OrdersListed'
      BY <1>0, <2>1, <3>1, <3>2 DEF OrderInv, OrderTables, OrdersListed
    <3>4. OrdersTyped'
      BY <1>0, <2>1, <3>1, <3>2 DEF OrderInv, OrdersTyped
    <3> QED BY <3>3, <3>4 DEF OrderInv
  <2> QED BY <1>3, <2>2, <2>3 DEF O!ServeCreate
<1>4. CASE O!Created
  <2>1. /\ orderRequest.pc = "made" /\ orderShown' = orderRequest.payment
        /\ orderRequest' = O!NoRequest /\ UNCHANGED <<ordersMade, orderNotes>>
        /\ orderForm' = [orderForm EXCEPT !.loading = FALSE, !.amount = O!Untyped]
    BY <1>4 DEF O!Created
  <2>2. orderForm' \in OrderForm /\ orderForm'.amount = O!Untyped /\ orderForm'.loading = FALSE
    BY <2>1, <1>a DEF OrderInv, OrderTables, OrderForm
  <2>3. orderRequest.payment \in 0..made
    <3>1. orderRequest \in OrderMade
      BY <2>1 DEF OrderInv, OrderTables, OrderSent, O!NoRequest
    <3> QED BY <1>0, <2>1, <3>1 DEF OrderInv, OrdersListed, OrderMade
  <2>4. OrderTables' /\ OrdersListed'
    BY <2>1, <2>2, <2>3 DEF OrderInv, OrderTables, OrdersListed, O!NoRequest
  <2>5. OrdersTyped'
    BY <1>0, <2>1, <2>2 DEF OrderInv, OrdersTyped, O!NoRequest, O!Valid
  <2> QED BY <2>4, <2>5 DEF OrderInv
<1>5. CASE O!CreateFails
  <2>1. /\ orderRequest # O!NoRequest /\ orderRequest' = O!NoRequest
        /\ UNCHANGED <<orderShown, ordersMade>>
        /\ orderForm' = [orderForm EXCEPT !.loading = FALSE, !.error = TRUE]
    BY <1>5 DEF O!CreateFails
  <2>2. orderForm' \in OrderForm /\ orderForm'.amount = orderForm.amount /\ orderForm'.loading = FALSE
    BY <2>1, <1>a DEF OrderInv, OrderTables, OrderForm
  <2>3. orderNotes' = [orderNotes EXCEPT !.lost = lost \/ orderRequest.pc = "made"]
    BY <1>5 DEF O!CreateFails
  <2>4. /\ orderNotes' = [typed |-> orderNotes'.typed, sent |-> orderNotes'.sent, lost |-> orderNotes'.lost]
        /\ orderNotes'.typed = count
        /\ orderNotes'.lost = (lost \/ orderRequest.pc = "made")
    BY <1>b, <2>3
  <2>5. (orderNotes'.lost = TRUE \/ orderNotes'.lost = FALSE)
        /\ (orderNotes'.lost = FALSE => lost = FALSE /\ orderRequest.pc # "made")
    BY <1>c, <2>4, Zenon
  <2>6. orderRequest.pc \in {"sent", "made", "refused"}
    BY <2>1 DEF OrderInv, OrderTables, OrderSent, OrderMade, O!NoRequest
  <2>7. OrderTables' /\ OrdersListed'
    BY <2>1, <2>2 DEF OrderInv, OrderTables, OrdersListed, O!NoRequest
  <2>8. OrdersTyped'
    BY <1>0, <2>1, <2>2, <2>4, <2>5, <2>6 DEF OrderInv, OrdersTyped, O!NoRequest
  <2> QED BY <2>7, <2>8 DEF OrderInv
<1> QED BY <1>1, <1>2, <1>3, <1>4, <1>5 DEF O!Next

(* The other pages leave it alone. *)
LEMMA RestingOrder == OrderInv /\ UNCHANGED ofCheckoutPage => OrderInv'
BY DEF ofCheckoutPage, OrderInv, OrderTables, OrdersListed, OrdersTyped

(* The invariant gives the property and the types. *)
LEMMA OrderImplies == OrderInv => O!OnePaymentPerAmount /\ O!TypeOK
<1> SUFFICES ASSUME OrderInv PROVE O!OnePaymentPerAmount /\ O!TypeOK
  OBVIOUS
<1>1. O!TypeOK
  BY DEF OrderInv, OrderTables, OrdersListed, OrderForm, O!TypeOK
<1>2. Len(ordersMade) \in Nat
  BY DEF OrderInv, OrdersListed
<1>3. ASSUME orderNotes.lost = FALSE PROVE Len(ordersMade) <= orderNotes.typed
  BY <1>2, <1>3 DEF OrderInv, OrdersTyped
<1>4. orderNotes.lost = TRUE \/ orderNotes.lost = FALSE
  BY DEF OrderInv, OrdersTyped
<1> QED BY <1>1, <1>3, <1>4 DEF O!OnePaymentPerAmount

(* A withdrawal never exceeds the balance, and what is filled in or typed is
   paid once, unless an answer was lost or a fetch failed (withdrawals page.tsx,
   checkout page.tsx). *)
THEOREM MoneyGoesOutOnceHolds == SumSpec => []MoneyGoesOutOnce
<1>1. SumInit => FormInv /\ OrderInv
  BY InitForm, InitOrder DEF SumInit
<1>2. FormInv /\ OrderInv /\ [SumNext]_sumVars => FormInv' /\ OrderInv'
  BY NextForm, RestingForm, NextOrder, RestingOrder DEF SumNext, sumVars
<1>3. FormInv /\ OrderInv => MoneyGoesOutOnce
  BY FormImplies, OrderImplies DEF MoneyGoesOutOnce
<1> QED BY <1>1, <1>2, <1>3, PTL DEF SumSpec

(***************************************************************************)
(* The gateway.  Watches: what a connection watches once what is on its way *)
(* to the gateway has arrived: the last message about a payment is a join,  *)
(* or there is none and the gateway has it already.                         *)
(***************************************************************************)
Message == [kind : {"join", "leave"}, payment : LivePayments]
Watches(ms, ws, p) ==
  \/ \E i \in 1..Len(ms) :
       /\ ms[i].payment = p /\ ms[i].kind = "join"
       /\ \A j \in 1..Len(ms) : j > i => ms[j].payment # p
  \/ p \in ws /\ \A i \in 1..Len(ms) : ms[i].payment # p

(* With nothing on its way, what is watched is what the gateway has. *)
LEMMA NothingOnItsWay == ASSUME NEW ws, NEW p PROVE Watches(<< >>, ws, p) <=> p \in ws
BY DEF Watches

(* What a leave that is sent changes: its payment is no longer watched. *)
LEMMA LeaveSent ==
  ASSUME NEW ms \in Seq(Message), NEW ws, NEW p, NEW q \in LivePayments
  PROVE  Watches(ms \o <<[kind |-> "leave", payment |-> q]>>, ws, p) <=> p # q /\ Watches(ms, ws, p)
<1> DEFINE m == [kind |-> "leave", payment |-> q]
           n == ms \o <<m>>
<1>1. m \in Message /\ m.payment = q /\ m.kind # "join"
  BY DEF Message
<1> HIDE DEF m
<1>2. Len(ms) \in Nat /\ Len(n) = Len(ms) + 1 /\ n[Len(ms) + 1] = m /\ \A i \in 1..Len(ms) : n[i] = ms[i]
  BY <1>1
<1> HIDE DEF n
<1>3. 1..Len(n) = 1..Len(ms) \cup {Len(ms) + 1} /\ Len(ms) + 1 \notin 1..Len(ms)
  BY <1>2
<1>4. ASSUME p = q PROVE ~Watches(n, ws, p)
  BY <1>1, <1>2, <1>3, <1>4 DEF Watches
<1>5. ASSUME p # q PROVE Watches(n, ws, p) <=> Watches(ms, ws, p)
  <2>1. \A i \in 1..Len(n) : n[i].payment = p => i \in 1..Len(ms)
    BY <1>1, <1>2, <1>3, <1>5
  <2>2. (\A i \in 1..Len(n) : n[i].payment # p) <=> (\A i \in 1..Len(ms) : ms[i].payment # p)
    BY <1>2, <1>3, <2>1
  <2>3. ASSUME NEW i \in 1..Len(ms)
        PROVE  (\A j \in 1..Len(n) : j > i => n[j].payment # p)
               <=> (\A j \in 1..Len(ms) : j > i => ms[j].payment # p)
    BY <1>2, <1>3, <2>1
  <2>4. \A i \in 1..Len(ms) : n[i] = ms[i] /\ i \in 1..Len(n)
    BY <1>2, <1>3
  <2> DEFINE Ends(s, i) == s[i].payment = p /\ s[i].kind = "join" /\ \A j \in 1..Len(s) : j > i => s[j].payment # p
  <2>5. \A i \in 1..Len(ms) : Ends(ms, i) => Ends(n, i)
    BY <2>3, <2>4
  <2>6. \A i \in 1..Len(n) : Ends(n, i) => i \in 1..Len(ms) /\ Ends(ms, i)
    BY <2>1, <2>3, <2>4
  <2>7. (\E i \in 1..Len(n) : Ends(n, i)) <=> (\E i \in 1..Len(ms) : Ends(ms, i))
    BY <2>4, <2>5, <2>6
  <2>8. Watches(ms, ws, p) <=> (\E i \in 1..Len(ms) : Ends(ms, i)) \/ (p \in ws /\ \A i \in 1..Len(ms) : ms[i].payment # p)
    BY DEF Watches
  <2>9. Watches(n, ws, p) <=> (\E i \in 1..Len(n) : Ends(n, i)) \/ (p \in ws /\ \A i \in 1..Len(n) : n[i].payment # p)
    BY DEF Watches
  <2> HIDE DEF Ends
  <2> QED BY <1>5, <2>2, <2>7, <2>8, <2>9
<1>6. Watches(n, ws, p) <=> p # q /\ Watches(ms, ws, p)
  BY <1>4, <1>5
<1> QED BY <1>6 DEF n, m

(* What joins that are sent change: their payments are watched as well. *)
LEMMA JoinsSent ==
  ASSUME NEW ms \in Seq(Message), NEW js \in Seq(Message), NEW ps, NEW ws, NEW p,
         \A i \in 1..Len(js) : js[i].kind = "join" /\ js[i].payment \in ps,
         \A x \in ps : \E i \in 1..Len(js) : js[i].payment = x,
         \A i, j \in 1..Len(js) : js[i].payment = js[j].payment => i = j
  PROVE  Watches(ms \o js, ws, p) <=> p \in ps \/ Watches(ms, ws, p)
<1> DEFINE n == ms \o js
           a == Len(ms)
           b == Len(js)
<1>1. a \in Nat /\ b \in Nat /\ Len(n) = a + b
      /\ (\A i \in 1..a : n[i] = ms[i]) /\ (\A i \in 1..b : n[a + i] = js[i])
  OBVIOUS
<1> HIDE DEF n, a, b
<1>2. \A i \in 1..Len(n) : i \in 1..a \/ \E k \in 1..b : i = a + k
  <2> SUFFICES ASSUME NEW i \in 1..Len(n), i \notin 1..a PROVE \E k \in 1..b : i = a + k
    OBVIOUS
  <2>1. i - a \in 1..b /\ i = a + (i - a)
    BY <1>1
  <2> QED BY <2>1
<1>3. (\A i \in 1..a : i \in 1..Len(n)) /\ (\A k \in 1..b : a + k \in 1..Len(n))
  BY <1>1
<1>4. CASE p \in ps
  <2>1. PICK k \in 1..b : js[k].payment = p
    BY <1>4 DEF b
  <2>2. n[a + k].payment = p /\ n[a + k].kind = "join" /\ a + k \in 1..Len(n)
    BY <1>1, <1>3, <2>1 DEF b
  <2>3. ASSUME NEW j \in 1..Len(n), j > a + k PROVE n[j].payment # p
    <3>1. PICK l \in 1..b : j = a + l
      BY <1>1, <1>2, <2>3
    <3>2. l # k /\ n[j] = js[l]
      BY <1>1, <2>3, <3>1
    <3> QED BY <2>1, <3>2 DEF b
  <2> QED BY <1>4, <2>2, <2>3 DEF Watches, n
<1>5. CASE p \notin ps
  <2>1. \A k \in 1..b : n[a + k].payment # p
    BY <1>1, <1>5 DEF b
  <2>2. ASSUME NEW i \in 1..a, ms[i].payment = p, ms[i].kind = "join",
               \A j \in 1..a : j > i => ms[j].payment # p
        PROVE  Watches(n, ws, p)
    <3>1. i \in 1..Len(n) /\ n[i].payment = p /\ n[i].kind = "join"
      BY <1>1, <1>3, <2>2
    <3>2. ASSUME NEW j \in 1..Len(n), j > i PROVE n[j].payment # p
      <4>1. CASE j \in 1..a
        BY <1>1, <2>2, <3>2, <4>1
      <4>2. CASE j \notin 1..a
        BY <1>2, <2>1, <4>2
      <4> QED BY <4>1, <4>2
    <3> QED BY <3>1, <3>2 DEF Watches
  <2>3. ASSUME NEW i \in 1..Len(n), n[i].payment = p, n[i].kind = "join",
               \A j \in 1..Len(n) : j > i => n[j].payment # p
        PROVE  Watches(ms, ws, p)
    <3>1. i \in 1..a
      BY <1>2, <2>1, <2>3
    <3>2. ms[i].payment = p /\ ms[i].kind = "join" /\ \A j \in 1..a : j > i => ms[j].payment # p
      BY <1>1, <1>3, <2>3, <3>1
    <3> QED BY <3>1, <3>2 DEF Watches, a
  <2>4. (\A i \in 1..a : ms[i].payment # p) <=> (\A i \in 1..Len(n) : n[i].payment # p)
    BY <1>1, <1>2, <1>3, <2>1
  <2>5. Watches(ms, ws, p) => Watches(n, ws, p)
    BY <2>2, <2>4 DEF Watches, a
  <2>6. Watches(n, ws, p) => Watches(ms, ws, p)
    BY <2>3, <2>4 DEF Watches, a
  <2> QED BY <1>5, <2>5, <2>6 DEF n
<1> QED BY <1>4, <1>5

(* Handling the first message leaves what is watched in the end as it was. *)
LEMMA HeadHandled ==
  ASSUME NEW ms \in Seq(Message), ms # << >>, NEW ws, NEW ws2, NEW p,
         ws2 = IF Head(ms).kind = "join" THEN ws \cup {Head(ms).payment} ELSE ws \ {Head(ms).payment}
  PROVE  Watches(Tail(ms), ws2, p) <=> Watches(ms, ws, p)
<1> DEFINE t == Tail(ms)
           h == Head(ms)
           a == Len(ms)
<1>1. a \in Nat \ {0} /\ Len(t) = a - 1 /\ ms[1] = h /\ h \in Message
      /\ \A i \in 1..(a - 1) : t[i] = ms[i + 1]
  OBVIOUS
<1>h. ws2 = IF h.kind = "join" THEN ws \cup {h.payment} ELSE ws \ {h.payment}
  OBVIOUS
<1> HIDE DEF t, h, a
<1>2. \A i \in 1..a : i = 1 \/ \E k \in 1..(a - 1) : i = k + 1
  <2> SUFFICES ASSUME NEW i \in 1..a, i # 1 PROVE \E k \in 1..(a - 1) : i = k + 1
    OBVIOUS
  <2>1. i - 1 \in 1..(a - 1) /\ i = (i - 1) + 1
    BY <1>1
  <2> QED BY <2>1
<1>3. 1 \in 1..a /\ \A k \in 1..(a - 1) : k + 1 \in 1..a /\ k + 1 > 1
  BY <1>1
<1>4. ASSUME NEW i \in 1..(a - 1), t[i].payment = p, t[i].kind = "join",
             \A j \in 1..(a - 1) : j > i => t[j].payment # p
      PROVE  Watches(ms, ws, p)
  <2>1. ms[i + 1].payment = p /\ ms[i + 1].kind = "join" /\ i + 1 \in 1..a
    BY <1>1, <1>3, <1>4
  <2>2. ASSUME NEW j \in 1..a, j > i + 1 PROVE ms[j].payment # p
    <3>1. PICK k \in 1..(a - 1) : j = k + 1
      BY <1>2, <2>2
    <3>2. k > i
      BY <2>2, <3>1
    <3> QED BY <1>1, <1>4, <3>1, <3>2
  <2> QED BY <2>1, <2>2 DEF Watches, a
<1>5. ASSUME NEW i \in 1..a, ms[i].payment = p, ms[i].kind = "join",
             \A j \in 1..a : j > i => ms[j].payment # p
      PROVE  Watches(t, ws2, p)
  <2>1. CASE i = 1
    <3>1. \A k \in 1..(a - 1) : t[k].payment # p
      BY <1>1, <1>3, <1>5, <2>1
    <3>2. p \in ws2
      BY <1>1, <1>5, <2>1, <1>h
    <3> QED BY <3>1, <3>2, <1>1 DEF Watches
  <2>2. CASE i # 1
    <3>1. PICK k \in 1..(a - 1) : i = k + 1
      BY <1>2, <2>2
    <3>2. t[k].payment = p /\ t[k].kind = "join"
      BY <1>1, <1>5, <3>1
    <3>3. ASSUME NEW j \in 1..(a - 1), j > k PROVE t[j].payment # p
      <4>1. j + 1 \in 1..a /\ j + 1 > i
        BY <1>3, <3>1, <3>3
      <4> QED BY <1>1, <1>5, <4>1
    <3> QED BY <3>2, <3>3, <1>1 DEF Watches
  <2> QED BY <2>1, <2>2
<1>6. ASSUME \A i \in 1..a : ms[i].payment # p
      PROVE  (\A i \in 1..(a - 1) : t[i].payment # p) /\ (p \in ws <=> p \in ws2)
  <2>1. h.payment # p
    BY <1>1, <1>3, <1>6
  <2>2. p \in ws <=> p \in ws2
    BY <2>1, <1>h
  <2> QED BY <1>1, <1>3, <1>6, <2>2
<1>7. ASSUME \A i \in 1..(a - 1) : t[i].payment # p, p \in ws2
      PROVE  Watches(ms, ws, p)
  <2>1. \A i \in 1..a : i # 1 => ms[i].payment # p
    BY <1>1, <1>2, <1>7
  <2>2. CASE h.payment = p
    <3>1. h.kind = "join"
      BY <1>7, <2>2, <1>h
    <3>2. \A j \in 1..a : j > 1 => ms[j].payment # p
      BY <2>1
    <3> QED BY <1>1, <1>3, <2>2, <3>1, <3>2 DEF Watches, a
  <2>3. CASE h.payment # p
    <3>1. \A i \in 1..a : ms[i].payment # p
      BY <1>1, <2>1, <2>3
    <3>2. p \in ws
      BY <1>7, <2>3, <1>h
    <3> QED BY <3>1, <3>2 DEF Watches, a
  <2> QED BY <2>2, <2>3
<1>8. Watches(t, ws2, p) => Watches(ms, ws, p)
  BY <1>1, <1>4, <1>7 DEF Watches
<1>9. Watches(ms, ws, p) => Watches(t, ws2, p)
  <2> SUFFICES ASSUME Watches(ms, ws, p) PROVE Watches(t, ws2, p)
    OBVIOUS
  <2>1. CASE \E i \in 1..a : /\ ms[i].payment = p /\ ms[i].kind = "join"
                             /\ \A j \in 1..a : j > i => ms[j].payment # p
    BY <1>5, <2>1
  <2>2. CASE p \in ws /\ \A i \in 1..a : ms[i].payment # p
    BY <1>1, <1>6, <2>2 DEF Watches
  <2> QED BY <2>1, <2>2 DEF Watches, a
<1> QED BY <1>8, <1>9 DEF t

(* The members of a finite set in a sequence, each once. *)
Numbered(f, ps) ==
  /\ f \in [1..Cardinality(ps) -> ps]
  /\ \A x \in ps : \E i \in 1..Cardinality(ps) : f[i] = x
  /\ \A i, j \in 1..Cardinality(ps) : f[i] = f[j] => i = j

(* SetToSeq numbers a finite set. *)
LEMMA SetIsNumbered == ASSUME NEW ps, IsFiniteSet(ps) PROVE Cardinality(ps) \in Nat /\ Numbered(V!SetToSeq(ps), ps)
<1> DEFINE Dom == 1..Cardinality(ps)
<1>1. Cardinality(ps) \in Nat /\ ExistsBijection(Dom, ps)
  BY FS_CardinalityType
<1>2. \E f \in [Dom -> ps] : IsInjective(f)
  BY <1>1 DEF ExistsBijection, Bijection, Injection
<1>3. V!SetToSeq(ps) = CHOOSE f \in [Dom -> ps] : IsInjective(f)
  BY DEF V!SetToSeq, V!Cardinality, Cardinality, V!IsInjective, IsInjective
<1>4. V!SetToSeq(ps) \in [Dom -> ps] /\ IsInjective(V!SetToSeq(ps))
  BY <1>2, <1>3
<1> DEFINE g == V!SetToSeq(ps)
<1>5. g \in Injection(Dom, ps)
  BY <1>4 DEF Injection
<1>6. IsFiniteSet(Dom) /\ Cardinality(Dom) = Cardinality(ps)
  BY <1>1, FS_Interval
<1> HIDE DEF g
<1>7. g \in Surjection(Dom, ps)
  BY <1>5, <1>6, FS_Injection
<1>8. \A x \in ps : \E i \in Dom : g[i] = x
  BY <1>7 DEF Surjection
<1>9. \A i, j \in Dom : g[i] = g[j] => i = j
  BY <1>4 DEF IsInjective, g
<1> QED BY <1>1, <1>4, <1>8, <1>9 DEF Numbered, g

(* The record types of the page, the browser and the gateway. *)
Visit == [n : Nat, payment : LivePayments \cup {"none"}, late : BOOLEAN]
Socket == [state : {"opening", "up", "down", "failed"}, conn : Nat]
Asked == [pc : {"asked"}, visit : Nat]
Answered == [pc : {"answered"}, visit : Nat, answer : {"PENDING", "PAID", "error"}]
LiveForm == [status : {"none", "PENDING", "PAID"}, link : {"connected", "disconnected"}, error : BOOLEAN]
LiveNotes == [visits : Nat, fetches : Nat, made : Nat, raced : BOOLEAN, back : BOOLEAN]
LiveTables ==
  /\ visit \in Visit /\ callbacks \in Visit /\ livePage \in LiveForm /\ liveNotes \in LiveNotes
  /\ sockets \in Seq(Socket)
  /\ liveFetches \in [LiveFetches -> {V!NoFetch} \cup Asked \cup Answered]
  /\ watchedPayments \in SUBSET LivePayments
  /\ wire \in [V!Conns -> Seq(Message)]
  /\ clientWatchers \in [V!Conns -> SUBSET LivePayments]
  /\ paymentWatchers \in [LivePayments -> SUBSET V!Conns]
  /\ paymentStatus \in [LivePayments -> {"PENDING", "PAID"}]

(* The connection of the browser's last socket, 0 if it is not up. *)
UpConn(ss) == IF Len(ss) # 0 /\ ss[Len(ss)].state = "up" THEN ss[Len(ss)].conn ELSE 0

(* A socket's connection is one that was made, and its own; one not made yet
   has nothing on its way and watches nothing. *)
SocketsNumbered(ss, made) ==
  /\ made <= MaxConnections
  /\ \A k \in 1..Len(ss) : ss[k].conn <= made /\ (ss[k].state = "up" => ss[k].conn # 0)
  /\ \A j, k \in 1..Len(ss) : ss[j].conn = ss[k].conn => j = k \/ ss[j].conn = 0
SocketsOwn ==
  /\ SocketsNumbered(sockets, liveNotes.made)
  /\ Len(sockets) # 0 => callbacks.payment \in LivePayments
  /\ \A c \in V!Conns : c > liveNotes.made => wire[c] = << >> /\ clientWatchers[c] = {}

(* The browser believes it watches what its connection watches in the end. *)
Synced ==
  UpConn(sockets) # 0 =>
    \A p \in LivePayments :
      p \in watchedPayments <=> Watches(wire[UpConn(sockets)], clientWatchers[UpConn(sockets)], p)

(* An open page that was opened without a connection has its callbacks
   installed, and is among what the browser watches once it has one. *)
PageWatched ==
  visit.payment # "none" /\ visit.late = FALSE =>
    /\ callbacks.payment = visit.payment
    /\ UpConn(sockets) # 0 => visit.payment \in watchedPayments

(* The fetches under way that the last page made; unless two of them were
   under way at once there is one at most, and a page that shows an outcome has
   no older answer to come. *)
Ours(f) == liveFetches[f] # V!NoFetch /\ liveFetches[f].visit = visit.n
FetchesOfVisits ==
  /\ visit.n = liveNotes.visits
  /\ \A f \in LiveFetches : liveFetches[f] # V!NoFetch => liveFetches[f].visit <= liveNotes.visits
OneFetch == liveNotes.raced = FALSE => \A f, g \in LiveFetches : Ours(f) /\ Ours(g) => f = g
NoOlderAnswer ==
  liveNotes.raced = FALSE /\ visit.payment # "none" /\ livePage.status = "PAID" =>
    \A f \in LiveFetches : Ours(f) /\ liveFetches[f].pc = "answered" => liveFetches[f].answer # "PENDING"
OutcomeIsTrue ==
  visit.payment # "none" =>
    /\ livePage.status = "PAID" => paymentStatus[visit.payment] = "PAID"
    /\ \A f \in LiveFetches :
         Ours(f) /\ liveFetches[f].pc = "answered" /\ liveFetches[f].answer = "PAID" =>
           paymentStatus[visit.payment] = "PAID"
BackMeansRaced == liveNotes.back = TRUE => liveNotes.raced = TRUE
Outcome == FetchesOfVisits /\ OneFetch /\ NoOlderAnswer /\ OutcomeIsTrue /\ BackMeansRaced

(* The last socket is up if it has a connection, and messages go there. *)
LEMMA LinkIs ==
  ASSUME LiveTables, SocketsOwn
  PROVE  /\ V!Connected <=> UpConn(sockets) # 0
         /\ UpConn(sockets) # 0 => UpConn(sockets) \in V!Conns /\ UpConn(sockets) <= liveNotes.made
                                   /\ V!Last(sockets).conn = UpConn(sockets)
         /\ \A ms : V!Emitted(ms) = IF UpConn(sockets) # 0 THEN [wire EXCEPT ![UpConn(sockets)] = @ \o ms] ELSE wire
<1> USE LiveAssumption
<1> DEFINE n == Len(sockets)
<1>1. n \in Nat /\ \A k \in 1..n : sockets[k] \in Socket
  BY DEF LiveTables
<1>2. \A k \in 1..n : sockets[k].conn \in Nat
  BY <1>1 DEF Socket
<1>3. sockets = << >> <=> n = 0
  BY DEF LiveTables
<1>4. n # 0 => n \in 1..n
  BY <1>1
<1>5. V!Last(sockets) = sockets[n]
  BY DEF V!Last
<1>6. V!Connected <=> n # 0 /\ sockets[n].state = "up"
  BY <1>3, <1>5 DEF V!Connected
<1>7. liveNotes.made \in Nat /\ liveNotes.made <= MaxConnections
  BY DEF LiveTables, LiveNotes, SocketsOwn, SocketsNumbered
<1>8. \A k \in 1..n : sockets[k].conn <= liveNotes.made /\ (sockets[k].state = "up" => sockets[k].conn # 0)
  BY DEF SocketsOwn, SocketsNumbered
<1> HIDE DEF n
<1>9. V!Connected <=> UpConn(sockets) # 0
  BY <1>4, <1>6, <1>8 DEF UpConn, n
<1>10. UpConn(sockets) # 0 => n # 0 /\ UpConn(sockets) = sockets[n].conn
  BY DEF UpConn, n
<1>11. UpConn(sockets) # 0 => UpConn(sockets) \in V!Conns /\ UpConn(sockets) <= liveNotes.made
  BY <1>2, <1>4, <1>7, <1>8, <1>10 DEF V!Conns
<1>12. \A ms : V!Emitted(ms) = IF UpConn(sockets) # 0 THEN [wire EXCEPT ![UpConn(sockets)] = @ \o ms] ELSE wire
  BY <1>5, <1>9, <1>10 DEF V!Emitted
<1> QED BY <1>5, <1>9, <1>10, <1>11, <1>12

(* What closing a page sends and forgets. *)
LEMMA LeaveIs ==
  ASSUME LiveTables, SocketsOwn, Synced, NEW p \in LivePayments \cup {"none"}, V!Leave(p)
  PROVE  /\ wire' \in [V!Conns -> Seq(Message)] /\ watchedPayments' \in SUBSET LivePayments
         /\ \A c \in V!Conns : c # UpConn(sockets) => wire'[c] = wire[c]
         /\ UpConn(sockets) # 0 =>
              \A q \in LivePayments :
                q \in watchedPayments' <=> Watches(wire'[UpConn(sockets)], clientWatchers[UpConn(sockets)], q)
         /\ \A q \in watchedPayments : q # p => q \in watchedPayments'
<1>1. wire \in [V!Conns -> Seq(Message)] /\ watchedPayments \in SUBSET LivePayments
  BY DEF LiveTables
<1>2. watchedPayments' = watchedPayments \ {p}
  BY DEF V!Leave
<1> DEFINE u == UpConn(sockets)
<1>3. u # 0 => u \in V!Conns
  BY LinkIs
<1>4. CASE p = "none" \/ u = 0
  <2>1. wire' = wire
    BY <1>4, LinkIs DEF V!Leave
  <2>2. p = "none" => watchedPayments' = watchedPayments
    BY <1>1, <1>2, LiveAssumption
  <2> QED BY <1>1, <1>2, <1>4, <2>1, <2>2 DEF Synced
<1>5. CASE p # "none" /\ u # 0
  <2> DEFINE m == <<[kind |-> "leave", payment |-> p]>>
  <2>1. p \in LivePayments
    BY <1>5
  <2>2. wire' = [wire EXCEPT ![u] = @ \o m]
    BY <1>5, LinkIs DEF V!Leave
  <2>3. wire[u] \in Seq(Message)
    BY <1>1, <1>3, <1>5
  <2>4. [kind |-> "leave", payment |-> p] \in Message
    BY <2>1 DEF Message
  <2>5. wire[u] \o m \in Seq(Message)
    BY <2>3, <2>4
  <2>6. \A q \in LivePayments : Watches(wire[u] \o m, clientWatchers[u], q) <=> q # p /\ Watches(wire[u], clientWatchers[u], q)
    BY <2>1, <2>3, LeaveSent
  <2> HIDE DEF m
  <2>7. wire'[u] = wire[u] \o m
    BY <1>1, <1>3, <1>5, <2>2
  <2>8. wire' \in [V!Conns -> Seq(Message)] /\ \A c \in V!Conns : c # u => wire'[c] = wire[c]
    BY <1>1, <2>2, <2>5
  <2>9. \A q \in LivePayments : q \in watchedPayments <=> Watches(wire[u], clientWatchers[u], q)
    BY <1>5 DEF Synced
  <2>10. \A q \in LivePayments : q \in watchedPayments' <=> Watches(wire'[u], clientWatchers[u], q)
    BY <1>2, <2>6, <2>7, <2>9
  <2> QED BY <1>1, <1>2, <2>8, <2>10
<1> QED BY <1>4, <1>5

(* What 'connect' sends is a join of every payment given, once each. *)
LEMMA JoinsAre ==
  ASSUME NEW ps \in SUBSET LivePayments
  PROVE  /\ V!Joins(ps) \in Seq(Message)
         /\ \A i \in 1..Len(V!Joins(ps)) : V!Joins(ps)[i].kind = "join" /\ V!Joins(ps)[i].payment \in ps
         /\ \A x \in ps : \E i \in 1..Len(V!Joins(ps)) : V!Joins(ps)[i].payment = x
         /\ \A i, j \in 1..Len(V!Joins(ps)) : V!Joins(ps)[i].payment = V!Joins(ps)[j].payment => i = j
<1> DEFINE n == Cardinality(ps)
           g == V!SetToSeq(ps)
           js == [i \in 1..n |-> [kind |-> "join", payment |-> g[i]]]
<1>1. IsFiniteSet(ps)
  BY FS_Subset, LiveAssumption
<1>2. n \in Nat /\ Numbered(g, ps)
  BY <1>1, SetIsNumbered
<1>3. V!Joins(ps) = js
  BY DEF V!Joins, V!Cardinality, Cardinality
<1> HIDE DEF g, n
<1>4. \A i \in 1..n : g[i] \in ps /\ js[i] = [kind |-> "join", payment |-> g[i]]
  BY <1>2 DEF Numbered, n
<1>5. \A i \in 1..n : js[i] \in Message /\ js[i].kind = "join" /\ js[i].payment = g[i]
  BY <1>4 DEF Message
<1>6. js \in [1..n -> Message]
  BY <1>5
<1>7. js \in Seq(Message) /\ Len(js) = n
  BY <1>2, <1>6
<1> HIDE DEF js
<1> QED BY <1>2, <1>3, <1>4, <1>5, <1>7 DEF Numbered, n

(* A socket of a list changes, alone. *)
Changed(ss, new, k, s) ==
  /\ new \in Seq(Socket) /\ Len(new) = Len(ss) /\ new[k] = s
  /\ \A j \in 1..Len(ss) : j # k => new[j] = ss[j]
  /\ k = Len(ss) /\ s.state = "up" => UpConn(new) = s.conn
  /\ k = Len(ss) /\ s.state # "up" => UpConn(new) = 0
  /\ k # Len(ss) => UpConn(new) = UpConn(ss)

(* What it changes. *)
LEMMA SocketChanges ==
  ASSUME NEW ss \in Seq(Socket), NEW k \in 1..Len(ss), NEW s \in Socket,
         NEW new, new = [ss EXCEPT ![k] = s]
  PROVE  Changed(ss, new, k, s)
<1> DEFINE n == Len(ss)
<1>1. n \in Nat /\ k \in 1..n /\ n \in 1..n /\ n # 0
  OBVIOUS
<1>2. new \in Seq(Socket) /\ Len(new) = n /\ new[k] = s /\ \A j \in 1..n : j # k => new[j] = ss[j]
  OBVIOUS
<1> HIDE DEF n
<1>3. k = n /\ s.state = "up" => UpConn(new) = s.conn
  BY <1>1, <1>2 DEF UpConn
<1>4. k = n /\ s.state # "up" => UpConn(new) = 0
  BY <1>1, <1>2 DEF UpConn
<1>5. ASSUME k # n PROVE UpConn(new) = UpConn(ss)
  <2>1. new[n] = ss[n] /\ Len(ss) = n
    BY <1>1, <1>2, <1>5 DEF n
  <2> QED BY <1>2, <2>1 DEF UpConn
<1> QED BY <1>2, <1>3, <1>4, <1>5 DEF n, Changed

(* A socket that is not up keeps its number. *)
LEMMA NumbersStay ==
  ASSUME NEW ss \in Seq(Socket), NEW k \in 1..Len(ss), NEW s \in Socket,
         NEW new, new = [ss EXCEPT ![k] = s], NEW made \in Nat,
         SocketsNumbered(ss, made), s.conn = ss[k].conn, s.state # "up"
  PROVE  SocketsNumbered(new, made)
<1>1. Len(new) = Len(ss) /\ new[k] = s /\ \A j \in 1..Len(ss) : j # k => new[j] = ss[j]
  BY SocketChanges DEF Changed
<1>2. \A j \in 1..Len(ss) : new[j].conn = ss[j].conn /\ (new[j].state = "up" => ss[j].state = "up")
  BY <1>1
<1> QED BY <1>1, <1>2 DEF SocketsNumbered

(* A socket that connects gets the next number. *)
LEMMA NumberIsNext ==
  ASSUME NEW ss \in Seq(Socket), NEW k \in 1..Len(ss), NEW s \in Socket,
         NEW new, new = [ss EXCEPT ![k] = s], NEW made \in Nat, made < MaxConnections,
         SocketsNumbered(ss, made), s.conn = made + 1
  PROVE  SocketsNumbered(new, made + 1)
<1>1. Len(new) = Len(ss) /\ new[k] = s /\ \A j \in 1..Len(ss) : j # k => new[j] = ss[j]
  BY SocketChanges DEF Changed
<1>2. \A j \in 1..Len(ss) : ss[j].conn \in Nat
  <2>1. \A j \in 1..Len(ss) : ss[j] \in Socket
    OBVIOUS
  <2> QED BY <2>1 DEF Socket
<1>3. made + 1 <= MaxConnections
  BY LiveAssumption
<1>4. \A j \in 1..Len(new) : new[j].conn <= made + 1 /\ (new[j].state = "up" => new[j].conn # 0)
  BY <1>1, <1>2 DEF SocketsNumbered
<1>5. \A i, j \in 1..Len(new) : new[i].conn = new[j].conn => i = j \/ new[i].conn = 0
  BY <1>1, <1>2 DEF SocketsNumbered
<1> QED BY <1>3, <1>4, <1>5 DEF SocketsNumbered

(* A new socket has no connection yet. *)
LEMMA SocketOpens ==
  ASSUME NEW ss \in Seq(Socket), NEW new, new = Append(ss, [state |-> "opening", conn |-> 0]),
         NEW made \in Nat, SocketsNumbered(ss, made)
  PROVE  new \in Seq(Socket) /\ SocketsNumbered(new, made) /\ UpConn(new) = 0 /\ Len(new) # 0
<1> DEFINE n == Len(ss)
           s == [state |-> "opening", conn |-> 0]
<1>0. s \in Socket /\ s.conn = 0 /\ s.state # "up"
  BY DEF Socket
<1> HIDE DEF s
<1>1. n \in Nat /\ new \in Seq(Socket) /\ Len(new) = n + 1 /\ new[n + 1] = s /\ \A j \in 1..n : new[j] = ss[j]
  BY <1>0 DEF s
<1> HIDE DEF n
<1>2. \A j \in 1..(n + 1) : j \in 1..n \/ j = n + 1
  BY <1>1
<1>3. UpConn(new) = 0
  BY <1>0, <1>1 DEF UpConn
<1>4. \A j \in 1..Len(new) : new[j].conn <= made /\ (new[j].state = "up" => new[j].conn # 0)
  BY <1>0, <1>1, <1>2 DEF SocketsNumbered, n
<1>5. \A i, j \in 1..Len(new) : new[i].conn = new[j].conn => i = j \/ new[i].conn = 0
  BY <1>0, <1>1, <1>2 DEF SocketsNumbered, n
<1> QED BY <1>1, <1>3, <1>4, <1>5 DEF SocketsNumbered

(* A part of a sequence of messages is one. *)
LEMMA CutIsMessages ==
  ASSUME NEW ms \in Seq(Message), NEW n \in 0..Len(ms)
  PROVE  SubSeq(ms, 1, n) \in Seq(Message)
OBVIOUS

(* The browser's part of the invariant, but for the types. *)
Browser == SocketsOwn /\ Synced /\ V!WatchersAgree /\ PageWatched

(* At first there is no socket and nothing is watched. *)
LEMMA InitBrowser == V!Init => LiveTables /\ Browser
<1> SUFFICES ASSUME V!Init PROVE LiveTables /\ Browser
  OBVIOUS
<1> USE LiveAssumption
<1>1. visit = V!Nowhere /\ callbacks = V!Nowhere /\ livePage = V!Blank /\ sockets = << >>
      /\ liveNotes = [visits |-> 0, fetches |-> 0, made |-> 0, raced |-> FALSE, back |-> FALSE]
  BY DEF V!Init
<1>2. visit \in Visit /\ callbacks \in Visit /\ livePage \in LiveForm /\ liveNotes \in LiveNotes /\ sockets \in Seq(Socket)
  BY <1>1 DEF V!Nowhere, V!Blank, Visit, LiveForm, LiveNotes
<1>3. liveFetches \in [LiveFetches -> {V!NoFetch} \cup Asked \cup Answered]
  BY DEF V!Init
<1>4. watchedPayments = {} /\ wire \in [V!Conns -> Seq(Message)]
      /\ clientWatchers \in [V!Conns -> SUBSET LivePayments]
      /\ paymentWatchers \in [LivePayments -> SUBSET V!Conns]
      /\ paymentStatus \in [LivePayments -> {"PENDING", "PAID"}]
  BY DEF V!Init
<1>5. LiveTables
  BY <1>2, <1>3, <1>4 DEF LiveTables
<1>6. Len(sockets) = 0 /\ liveNotes.made = 0
  BY <1>1
<1>7. UpConn(sockets) = 0
  BY <1>6 DEF UpConn
<1>8. \A c \in V!Conns : wire[c] = << >> /\ clientWatchers[c] = {}
  BY DEF V!Init
<1>9. SocketsNumbered(sockets, liveNotes.made)
  BY <1>6 DEF SocketsNumbered
<1>10. SocketsOwn
  BY <1>6, <1>8, <1>9 DEF SocketsOwn
<1>11. V!WatchersAgree
  BY DEF V!Init, V!WatchersAgree
<1>12. visit.payment = "none"
  BY <1>1 DEF V!Nowhere
<1> QED BY <1>5, <1>7, <1>10, <1>11, <1>12 DEF Browser, Synced, PageWatched

(* A step that leaves the sockets and the gateway alone. *)
LEMMA BrowserRests ==
  ASSUME Browser, liveNotes'.made = liveNotes.made,
         UNCHANGED <<visit, sockets, watchedPayments, callbacks, clientWatchers, paymentWatchers, wire>>
  PROVE  Browser'
BY DEF Browser, SocketsOwn, Synced, V!WatchersAgree, PageWatched

(* A page closes: what it watched is left. *)
LEMMA CloseBrowser == LiveTables /\ Browser /\ V!ClosePage => LiveTables' /\ Browser'
<1> SUFFICES ASSUME LiveTables, Browser, V!ClosePage PROVE LiveTables' /\ Browser'
  OBVIOUS
<1> USE LiveAssumption
<1>1. SocketsOwn /\ Synced /\ V!WatchersAgree
  BY DEF Browser
<1>2. visit \in Visit /\ visit.payment \in LivePayments
  BY DEF LiveTables, Visit, V!ClosePage
<1>3. V!Leave(visit.payment) /\ visit' = [visit EXCEPT !.payment = "none"] /\ livePage' = V!Blank
      /\ UNCHANGED <<clientWatchers, paymentWatchers, callbacks, sockets, liveFetches, paymentStatus, liveNotes>>
  BY DEF V!ClosePage, V!gatewayVars
<1>4. /\ wire' \in [V!Conns -> Seq(Message)] /\ watchedPayments' \in SUBSET LivePayments
      /\ \A c \in V!Conns : c # UpConn(sockets) => wire'[c] = wire[c]
      /\ UpConn(sockets) # 0 =>
           \A q \in LivePayments :
             q \in watchedPayments' <=> Watches(wire'[UpConn(sockets)], clientWatchers[UpConn(sockets)], q)
  BY <1>1, <1>2, <1>3, LeaveIs
<1>5. visit' \in Visit /\ visit'.payment = "none"
  BY <1>2, <1>3 DEF Visit
<1>6. livePage' \in LiveForm
  BY <1>3 DEF V!Blank, LiveForm
<1>7. LiveTables'
  BY <1>3, <1>4, <1>5, <1>6 DEF LiveTables
<1>8. \A c \in V!Conns : c > liveNotes.made => c # UpConn(sockets)
  BY <1>1, LinkIs DEF LiveTables, LiveNotes, V!Conns
<1>9. SocketsOwn'
  BY <1>1, <1>3, <1>4, <1>8 DEF SocketsOwn
<1>10. Synced'
  BY <1>3, <1>4 DEF Synced
<1>11. V!WatchersAgree'
  BY <1>1, <1>3 DEF V!WatchersAgree
<1> QED BY <1>5, <1>7, <1>9, <1>10, <1>11 DEF Browser, PageWatched

(* A page opens: the one before it is left, and unless a socket is up, its
   callbacks are installed and a socket is made. *)
LEMMA OpenBrowser ==
  ASSUME LiveTables, Browser, NEW p \in LivePayments, NEW f \in LiveFetches, V!OpenPage(p, f)
  PROVE  LiveTables' /\ Browser'
<1> USE LiveAssumption
<1>1. SocketsOwn /\ Synced /\ V!WatchersAgree
  BY DEF Browser
<1>2. visit.payment \in LivePayments \cup {"none"} /\ liveNotes \in LiveNotes /\ liveNotes.visits \in Nat /\ liveNotes.made \in Nat
  BY DEF LiveTables, Visit, LiveNotes
<1> DEFINE next == [n |-> liveNotes.visits + 1, payment |-> p, late |-> V!Connected]
<1>3. V!Leave(visit.payment) /\ visit' = next /\ livePage' = V!Blank /\ V!BeginFetch(f, next.n)
      /\ liveNotes' = [liveNotes EXCEPT !.visits = @ + 1, !.fetches = @ + 1]
      /\ UNCHANGED <<clientWatchers, paymentWatchers, paymentStatus>>
  BY DEF V!OpenPage, V!gatewayVars
<1>4. /\ V!Connected => UNCHANGED <<callbacks, sockets>>
      /\ ~V!Connected => callbacks' = next /\ sockets' = Append(sockets, [state |-> "opening", conn |-> 0])
  BY DEF V!OpenPage
<1>5. /\ wire' \in [V!Conns -> Seq(Message)] /\ watchedPayments' \in SUBSET LivePayments
      /\ \A c \in V!Conns : c # UpConn(sockets) => wire'[c] = wire[c]
      /\ UpConn(sockets) # 0 =>
           \A q \in LivePayments :
             q \in watchedPayments' <=> Watches(wire'[UpConn(sockets)], clientWatchers[UpConn(sockets)], q)
  BY <1>1, <1>2, <1>3, LeaveIs
<1>6. V!Connected \in BOOLEAN
  BY DEF V!Connected
<1>7. next \in Visit /\ next.payment = p /\ (V!Connected => next.late = TRUE) /\ next.n = liveNotes.visits + 1
  BY <1>2, <1>6 DEF Visit
<1> HIDE DEF next
<1>8. livePage' \in LiveForm /\ liveNotes' \in LiveNotes /\ liveNotes'.made = liveNotes.made
  <2>1. livePage' \in LiveForm
    BY <1>3 DEF V!Blank, LiveForm
  <2>2. liveNotes.visits + 1 \in Nat /\ liveNotes.fetches + 1 \in Nat
    BY <1>2 DEF LiveNotes
  <2>3. liveNotes' = [liveNotes EXCEPT !.visits = liveNotes.visits + 1, !.fetches = liveNotes.fetches + 1]
    BY <1>3
  <2> QED BY <1>2, <2>1, <2>2, <2>3 DEF LiveNotes
<1>9. liveFetches' \in [LiveFetches -> {V!NoFetch} \cup Asked \cup Answered]
  <2>1. [pc |-> "asked", visit |-> next.n] \in Asked
    BY <1>2, <1>7 DEF Asked
  <2> QED BY <1>3, <2>1 DEF V!BeginFetch, LiveTables
<1>10. /\ V!Connected <=> UpConn(sockets) # 0
       /\ \A c \in V!Conns : c > liveNotes.made => c # UpConn(sockets)
  BY <1>1, <1>2, LinkIs DEF V!Conns
<1>11. CASE V!Connected
  <2>1. UNCHANGED <<callbacks, sockets>>
    BY <1>4, <1>11
  <2>2. LiveTables'
    BY <1>3, <1>5, <1>7, <1>8, <1>9, <2>1 DEF LiveTables
  <2>3. SocketsOwn'
    BY <1>1, <1>3, <1>5, <1>8, <1>10, <2>1 DEF SocketsOwn
  <2>4. Synced'
    BY <1>3, <1>5, <2>1 DEF Synced
  <2>5. V!WatchersAgree'
    BY <1>1, <1>3 DEF V!WatchersAgree
  <2>6. PageWatched'
    BY <1>3, <1>7, <1>11 DEF PageWatched
  <2> QED BY <2>2, <2>3, <2>4, <2>5, <2>6 DEF Browser
<1>12. CASE ~V!Connected
  <2>1. callbacks' = next /\ sockets' = Append(sockets, [state |-> "opening", conn |-> 0])
    BY <1>4, <1>12
  <2>2. sockets \in Seq(Socket) /\ SocketsNumbered(sockets, liveNotes.made)
    BY <1>1 DEF LiveTables, SocketsOwn
  <2>3. sockets' \in Seq(Socket) /\ SocketsNumbered(sockets', liveNotes.made) /\ UpConn(sockets') = 0
    BY <1>2, <2>1, <2>2, SocketOpens
  <2>4. LiveTables'
    BY <1>3, <1>5, <1>7, <1>8, <1>9, <2>1, <2>3 DEF LiveTables
  <2>5. SocketsOwn'
    BY <1>1, <1>3, <1>5, <1>7, <1>8, <1>10, <2>1, <2>3 DEF SocketsOwn
  <2>6. Synced'
    BY <2>3 DEF Synced
  <2>7. V!WatchersAgree'
    BY <1>1, <1>3 DEF V!WatchersAgree
  <2>8. PageWatched'
    BY <1>3, <1>7, <2>1, <2>3 DEF PageWatched
  <2> QED BY <2>4, <2>5, <2>6, <2>7, <2>8 DEF Browser
<1> QED BY <1>11, <1>12

(* A link that is shown changes nothing else. *)
LEMMA LinkShown ==
  ASSUME LiveTables, NEW to \in {"connected", "disconnected"}
  PROVE  V!ShowLink(to) \in LiveForm /\ V!ShowLink(to).status = livePage.status
<1>1. livePage \in LiveForm
  BY DEF LiveTables
<1>2. [livePage EXCEPT !.link = to] \in LiveForm /\ [livePage EXCEPT !.link = to].status = livePage.status
  BY <1>1 DEF LiveForm
<1> QED BY <1>1, <1>2 DEF V!ShowLink

(* A socket connects: its number is new, and what the browser watches, with
   the installed page's payment, is joined on the last socket if it is up. *)
LEMMA ConnectBrowser ==
  ASSUME LiveTables, Browser, NEW k \in DOMAIN sockets, V!Connects(k)
  PROVE  LiveTables' /\ Browser'
<1> USE LiveAssumption
<1>1. SocketsOwn /\ Synced /\ V!WatchersAgree /\ PageWatched /\ SocketsNumbered(sockets, liveNotes.made)
  BY DEF Browser, SocketsOwn
<1>2. /\ visit \in Visit /\ liveNotes \in LiveNotes /\ liveNotes.made \in Nat /\ sockets \in Seq(Socket)
      /\ wire \in [V!Conns -> Seq(Message)] /\ watchedPayments \in SUBSET LivePayments
      /\ clientWatchers \in [V!Conns -> SUBSET LivePayments]
  BY DEF LiveTables, LiveNotes
<1>3. k \in 1..Len(sockets)
  BY <1>2
<1>4. callbacks.payment \in LivePayments
  BY <1>1, <1>2, <1>3 DEF SocketsOwn
<1> DEFINE conn == liveNotes.made + 1
           s == [state |-> "up", conn |-> conn]
           all == watchedPayments \cup {callbacks.payment}
           js == V!Joins(all)
           u == UpConn(sockets')
<1>5. liveNotes.made < MaxConnections /\ sockets' = [sockets EXCEPT ![k] = s]
      /\ livePage' = V!ShowLink("connected") /\ watchedPayments' = all
      /\ liveNotes' = [liveNotes EXCEPT !.made = conn]
      /\ UNCHANGED <<visit, callbacks, clientWatchers, paymentWatchers, liveFetches, paymentStatus>>
  BY DEF V!Connects, V!Joined, V!gatewayVars
<1>6. conn \in V!Conns /\ conn \in Nat /\ conn # 0 /\ conn > liveNotes.made
  BY <1>2, <1>5 DEF V!Conns
<1>7. s \in Socket /\ s.state = "up" /\ s.conn = conn
  BY <1>6 DEF Socket
<1> HIDE DEF s
<1>8. /\ sockets' \in Seq(Socket) /\ Len(sockets') = Len(sockets)
      /\ k = Len(sockets) => u = conn
      /\ k # Len(sockets) => u = UpConn(sockets)
  <2>1. Changed(sockets, sockets', k, s)
    BY <1>2, <1>3, <1>5, <1>7, SocketChanges
  <2> QED BY <1>7, <2>1 DEF Changed
<1>9. SocketsNumbered(sockets', conn)
  BY <1>1, <1>2, <1>3, <1>5, <1>7, NumberIsNext
<1>10. liveNotes' \in LiveNotes /\ liveNotes'.made = conn
  BY <1>2, <1>5, <1>6 DEF LiveNotes
<1>11. /\ UpConn(sockets) # 0 => UpConn(sockets) \in V!Conns /\ UpConn(sockets) <= liveNotes.made
  BY <1>1, LinkIs
<1>12. u # 0 => u \in V!Conns /\ u <= conn
  <2>1. CASE k = Len(sockets)
    BY <1>6, <1>8, <2>1
  <2>2. CASE k # Len(sockets)
    <3>1. u = UpConn(sockets)
      BY <1>8, <2>2
    <3>2. \A x \in V!Conns : x <= liveNotes.made => x <= conn
      BY <1>2 DEF V!Conns
    <3> HIDE DEF u, conn
    <3> QED BY <1>11, <3>1, <3>2
  <2> QED BY <2>1, <2>2
<1>13. wire' = IF u = 0 THEN wire ELSE [wire EXCEPT ![u] = @ \o js]
  <2> DEFINE up == [sockets EXCEPT ![k] = [state |-> "up", conn |-> conn]]
             to == IF V!Last(up).state = "up" THEN V!Last(up).conn ELSE 0
  <2>1. wire' = IF to = 0 THEN wire ELSE [wire EXCEPT ![to] = @ \o V!Rejoins]
    BY DEF V!Connects
  <2>2. up = sockets' /\ Len(up) # 0
    BY <1>2, <1>3, <1>5, <1>8 DEF s
  <2>3. to = u
    BY <2>2 DEF V!Last, UpConn
  <2> HIDE DEF to, u
  <2> QED BY <2>1, <2>3 DEF V!Rejoins
<1> HIDE DEF u, conn
<1>14. all \in SUBSET LivePayments
  BY <1>2, <1>4
<1>15. /\ js \in Seq(Message)
       /\ \A i \in 1..Len(js) : js[i].kind = "join" /\ js[i].payment \in all
       /\ \A x \in all : \E i \in 1..Len(js) : js[i].payment = x
       /\ \A i, j \in 1..Len(js) : js[i].payment = js[j].payment => i = j
  BY <1>14, JoinsAre
<1> HIDE DEF js, all
<1>16. u # 0 => wire[u] \o js \in Seq(Message)
  BY <1>2, <1>12, <1>15
<1>17. /\ wire' \in [V!Conns -> Seq(Message)] /\ \A c \in V!Conns : c # u => wire'[c] = wire[c]
       /\ u # 0 => wire'[u] = wire[u] \o js
  BY <1>2, <1>12, <1>13, <1>16
<1>18. livePage' \in LiveForm
  BY <1>5, LinkShown
<1>19. LiveTables'
  BY <1>5, <1>8, <1>10, <1>14, <1>17, <1>18 DEF LiveTables
<1>20. \A c \in V!Conns : c > conn => wire'[c] = << >> /\ clientWatchers'[c] = {}
  <2> SUFFICES ASSUME NEW c \in V!Conns, c > conn PROVE wire'[c] = << >> /\ clientWatchers'[c] = {}
    OBVIOUS
  <2>1. c > liveNotes.made /\ c # u
    BY <1>2, <1>6, <1>12 DEF conn, V!Conns
  <2> QED BY <1>1, <1>5, <1>17, <2>1 DEF SocketsOwn
<1>21. SocketsOwn'
  BY <1>4, <1>5, <1>9, <1>10, <1>20 DEF SocketsOwn
<1>22. ASSUME u # 0, NEW p \in LivePayments
       PROVE  p \in watchedPayments' <=> Watches(wire'[u], clientWatchers'[u], p)
  <2>1. wire[u] \in Seq(Message)
    BY <1>2, <1>12, <1>22
  <2>2. Watches(wire[u] \o js, clientWatchers[u], p) <=> p \in all \/ Watches(wire[u], clientWatchers[u], p)
    BY <1>15, <2>1, JoinsSent
  <2>3. CASE k = Len(sockets)
    <3>1. wire[u] = << >> /\ clientWatchers[u] = {}
      BY <1>1, <1>6, <1>8, <2>3 DEF SocketsOwn
    <3>2. ~Watches(wire[u], clientWatchers[u], p)
      BY <3>1, NothingOnItsWay
    <3> QED BY <1>5, <1>17, <1>22, <2>2, <3>2
  <2>4. CASE k # Len(sockets)
    <3>1. p \in watchedPayments <=> Watches(wire[u], clientWatchers[u], p)
      BY <1>1, <1>8, <1>22, <2>4 DEF Synced
    <3> QED BY <1>5, <1>17, <1>22, <2>2, <3>1 DEF all
  <2> QED BY <2>3, <2>4
<1>23. Synced'
  BY <1>22 DEF Synced, u
<1>24. V!WatchersAgree'
  BY <1>1, <1>5 DEF V!WatchersAgree
<1>25. PageWatched'
  BY <1>1, <1>5 DEF PageWatched, all
<1> QED BY <1>19, <1>21, <1>23, <1>24, <1>25 DEF Browser

(* A socket goes down, and with it some of what is on its way. *)
LEMMA DisconnectBrowser ==
  ASSUME LiveTables, Browser, NEW k \in DOMAIN sockets, V!Disconnects(k)
  PROVE  LiveTables' /\ Browser'
<1> USE LiveAssumption
<1>1. SocketsOwn /\ Synced /\ V!WatchersAgree /\ PageWatched /\ SocketsNumbered(sockets, liveNotes.made)
  BY DEF Browser, SocketsOwn
<1>2. /\ liveNotes \in LiveNotes /\ liveNotes.made \in Nat /\ sockets \in Seq(Socket)
      /\ wire \in [V!Conns -> Seq(Message)]
  BY DEF LiveTables, LiveNotes
<1>3. k \in 1..Len(sockets) /\ sockets[k] \in Socket /\ Len(sockets) \in 1..Len(sockets)
  BY <1>2
<1> DEFINE s == [sockets[k] EXCEPT !.state = "down"]
           c == sockets[k].conn
           u == UpConn(sockets)
<1>4. sockets[k].state = "up" /\ sockets' = [sockets EXCEPT ![k] = s] /\ livePage' = V!ShowLink("disconnected")
      /\ UNCHANGED <<visit, watchedPayments, callbacks, clientWatchers, paymentWatchers, liveFetches, paymentStatus, liveNotes>>
  BY DEF V!Disconnects, V!gatewayVars
<1>5. PICK n \in 0..Len(wire[c]) : wire' = [wire EXCEPT ![c] = SubSeq(@, 1, n)]
  BY DEF V!Disconnects
<1>6. s \in Socket /\ s.conn = c /\ s.state # "up" /\ c \in Nat
  BY <1>3 DEF Socket
<1>7. c # 0 /\ c <= liveNotes.made /\ liveNotes.made <= MaxConnections
  BY <1>1, <1>3, <1>4 DEF SocketsNumbered
<1>8. c \in V!Conns
  BY <1>2, <1>6, <1>7 DEF V!Conns
<1> HIDE DEF s
<1>9. /\ sockets' \in Seq(Socket) /\ Len(sockets') = Len(sockets)
      /\ k = Len(sockets) => UpConn(sockets') = 0
      /\ k # Len(sockets) => UpConn(sockets') = u
  <2>1. Changed(sockets, sockets', k, s)
    BY <1>2, <1>3, <1>4, <1>6, SocketChanges
  <2> QED BY <1>6, <2>1 DEF Changed
<1>10. SocketsNumbered(sockets', liveNotes.made)
  BY <1>1, <1>2, <1>3, <1>4, <1>6, NumbersStay
<1>11. k # Len(sockets) /\ u # 0 => u # c
  BY <1>1, <1>3, <1>7 DEF SocketsNumbered, UpConn
<1>12. u # 0 => u \in V!Conns
  BY <1>1, LinkIs
<1> HIDE DEF c, u
<1>13. SubSeq(wire[c], 1, n) \in Seq(Message)
  BY <1>2, <1>5, <1>8, CutIsMessages
<1>14. wire' \in [V!Conns -> Seq(Message)] /\ \A x \in V!Conns : x # c => wire'[x] = wire[x]
  BY <1>2, <1>5, <1>13
<1>15. LiveTables'
  BY <1>4, <1>9, <1>14, LinkShown DEF LiveTables
<1>16. \A x \in V!Conns : x > liveNotes.made => x # c
  BY <1>2, <1>6, <1>7 DEF V!Conns
<1>17. SocketsOwn'
  BY <1>1, <1>4, <1>9, <1>10, <1>14, <1>16 DEF SocketsOwn
<1>18. Synced'
  BY <1>1, <1>4, <1>9, <1>11, <1>12, <1>14 DEF Synced, u
<1>19. V!WatchersAgree'
  BY <1>1, <1>4 DEF V!WatchersAgree
<1>20. UpConn(sockets') # 0 => u # 0
  BY <1>9
<1>21. PageWatched'
  BY <1>1, <1>4, <1>20 DEF PageWatched, u
<1> QED BY <1>15, <1>17, <1>18, <1>19, <1>21 DEF Browser

(* An attempt fails: a socket that was not up still is not. *)
LEMMA FailBrowser ==
  ASSUME LiveTables, Browser, NEW k \in DOMAIN sockets, V!ConnectError(k)
  PROVE  LiveTables' /\ Browser'
<1> USE LiveAssumption
<1>1. SocketsOwn /\ Synced /\ V!WatchersAgree /\ PageWatched /\ SocketsNumbered(sockets, liveNotes.made)
  BY DEF Browser, SocketsOwn
<1>2. liveNotes \in LiveNotes /\ liveNotes.made \in Nat /\ sockets \in Seq(Socket)
  BY DEF LiveTables, LiveNotes
<1>3. k \in 1..Len(sockets) /\ sockets[k] \in Socket
  BY <1>2
<1>4. sockets[k].state \in {"opening", "down"} /\ livePage' = V!ShowLink("disconnected")
      /\ UNCHANGED <<visit, watchedPayments, callbacks, clientWatchers, paymentWatchers, liveFetches, wire,
                     paymentStatus, liveNotes>>
  BY DEF V!ConnectError, V!gatewayVars
<1>5. PICK state \in {sockets[k].state, "failed"} : sockets' = [sockets EXCEPT ![k].state = state]
  BY DEF V!ConnectError
<1> DEFINE s == [sockets[k] EXCEPT !.state = state]
<1>6. sockets' = [sockets EXCEPT ![k] = s]
  BY <1>5
<1>7. s \in Socket /\ s.conn = sockets[k].conn /\ s.state # "up"
  BY <1>3, <1>4 DEF Socket
<1> HIDE DEF s
<1>8. /\ sockets' \in Seq(Socket) /\ Len(sockets') = Len(sockets)
      /\ k = Len(sockets) => UpConn(sockets') = 0
      /\ k # Len(sockets) => UpConn(sockets') = UpConn(sockets)
  <2>1. Changed(sockets, sockets', k, s)
    BY <1>2, <1>3, <1>6, <1>7, SocketChanges
  <2> QED BY <1>7, <2>1 DEF Changed
<1>9. SocketsNumbered(sockets', liveNotes.made)
  BY <1>1, <1>2, <1>3, <1>6, <1>7, NumbersStay
<1>10. LiveTables'
  BY <1>4, <1>8, LinkShown DEF LiveTables
<1>11. SocketsOwn'
  BY <1>1, <1>4, <1>8, <1>9 DEF SocketsOwn
<1>12. Synced' /\ PageWatched' /\ V!WatchersAgree'
  BY <1>1, <1>4, <1>8 DEF Synced, PageWatched, V!WatchersAgree
<1> QED BY <1>10, <1>11, <1>12 DEF Browser

(* The gateway handles a message: its two maps change together. *)
LEMMA MessageBrowser ==
  ASSUME LiveTables, Browser, NEW c \in V!Conns, V!HandleMessage(c)
  PROVE  LiveTables' /\ Browser'
<1>1. SocketsOwn /\ Synced /\ V!WatchersAgree /\ PageWatched
  BY DEF Browser
<1>2. /\ wire \in [V!Conns -> Seq(Message)] /\ clientWatchers \in [V!Conns -> SUBSET LivePayments]
      /\ paymentWatchers \in [LivePayments -> SUBSET V!Conns]
  BY DEF LiveTables
<1> DEFINE m == Head(wire[c])
           p == m.payment
           ws == IF m.kind = "join" THEN clientWatchers[c] \cup {p} ELSE clientWatchers[c] \ {p}
           cs == IF m.kind = "join" THEN paymentWatchers[p] \cup {c} ELSE paymentWatchers[p] \ {c}
<1>3. wire[c] # << >> /\ wire[c] \in Seq(Message) /\ wire' = [wire EXCEPT ![c] = Tail(@)]
      /\ UNCHANGED <<visit, livePage, sockets, watchedPayments, callbacks, liveFetches, paymentStatus, liveNotes>>
  BY <1>2 DEF V!HandleMessage, V!browserVars
<1>4. m \in Message /\ p \in LivePayments /\ Tail(wire[c]) \in Seq(Message)
  <2>1. m \in Message /\ Tail(wire[c]) \in Seq(Message)
    BY <1>3
  <2> HIDE DEF m
  <2> QED BY <2>1 DEF Message
<1>5. clientWatchers' = [clientWatchers EXCEPT ![c] = ws] /\ paymentWatchers' = [paymentWatchers EXCEPT ![p] = cs]
  <2> HIDE DEF m
  <2>1. IF m.kind = "join" THEN V!AddPaymentWatcher(c, p) ELSE V!RemovePaymentWatcher(c, p)
    BY DEF V!HandleMessage, m
  <2> QED BY <2>1 DEF V!AddPaymentWatcher, V!RemovePaymentWatcher
<1>6. \A q : Watches(Tail(wire[c]), ws, q) <=> Watches(wire[c], clientWatchers[c], q)
  BY <1>3, HeadHandled
<1> HIDE DEF m
<1>7. ws \in SUBSET LivePayments /\ cs \in SUBSET V!Conns
  BY <1>2, <1>4
<1>8. (\A q \in LivePayments : q # p => (q \in ws <=> q \in clientWatchers[c]))
      /\ (\A x \in V!Conns : x # c => (x \in cs <=> x \in paymentWatchers[p]))
      /\ (p \in ws <=> c \in cs)
  BY <1>4
<1> HIDE DEF ws, cs, p
<1>9. /\ wire' \in [V!Conns -> Seq(Message)] /\ clientWatchers' \in [V!Conns -> SUBSET LivePayments]
      /\ paymentWatchers' \in [LivePayments -> SUBSET V!Conns]
      /\ wire'[c] = Tail(wire[c]) /\ clientWatchers'[c] = ws /\ paymentWatchers'[p] = cs
      /\ \A x \in V!Conns : x # c => wire'[x] = wire[x] /\ clientWatchers'[x] = clientWatchers[x]
      /\ \A q \in LivePayments : q # p => paymentWatchers'[q] = paymentWatchers[q]
  BY <1>2, <1>3, <1>4, <1>5, <1>7
<1>10. LiveTables'
  BY <1>3, <1>9 DEF LiveTables
<1>11. ~(c > liveNotes.made)
  BY <1>1, <1>3 DEF SocketsOwn
<1>12. SocketsOwn'
  BY <1>1, <1>3, <1>9, <1>11 DEF SocketsOwn
<1>13. UpConn(sockets) # 0 => UpConn(sockets) \in V!Conns
  BY <1>1, LinkIs
<1>14. Synced'
  BY <1>1, <1>3, <1>6, <1>9, <1>13 DEF Synced
<1>15. ASSUME NEW x \in V!Conns, NEW q \in LivePayments
       PROVE  q \in clientWatchers'[x] <=> x \in paymentWatchers'[q]
  <2>1. q \in clientWatchers[x] <=> x \in paymentWatchers[q]
    BY <1>1 DEF V!WatchersAgree
  <2> QED BY <1>4, <1>8, <1>9, <2>1
<1>16. V!WatchersAgree'
  BY <1>15 DEF V!WatchersAgree
<1>17. PageWatched'
  BY <1>1, <1>3 DEF PageWatched
<1> QED BY <1>10, <1>12, <1>14, <1>16, <1>17 DEF Browser

(* The gateway forgets a connection that is gone, which is not the one the
   browser sends on. *)
LEMMA ForgetBrowser ==
  ASSUME LiveTables, Browser, NEW c \in V!Conns, V!HandleDisconnect(c)
  PROVE  LiveTables' /\ Browser'
<1> USE LiveAssumption
<1>1. SocketsOwn /\ Synced /\ V!WatchersAgree /\ PageWatched /\ SocketsNumbered(sockets, liveNotes.made)
  BY DEF Browser, SocketsOwn
<1>2. /\ clientWatchers \in [V!Conns -> SUBSET LivePayments] /\ sockets \in Seq(Socket)
      /\ paymentWatchers \in [LivePayments -> SUBSET V!Conns]
  BY DEF LiveTables
<1>3. PICK k \in DOMAIN sockets : sockets[k].conn = c /\ sockets[k].state # "up"
  BY DEF V!HandleDisconnect
<1>4. clientWatchers' = [clientWatchers EXCEPT ![c] = {}]
      /\ paymentWatchers' = [p \in LivePayments |->
                              IF p \in clientWatchers[c] THEN paymentWatchers[p] \ {c} ELSE paymentWatchers[p]]
      /\ UNCHANGED <<visit, livePage, sockets, watchedPayments, callbacks, wire, liveFetches, paymentStatus, liveNotes>>
  BY DEF V!HandleDisconnect, V!RemoveClient, V!browserVars
<1>5. c # 0
  BY DEF V!Conns
<1>6. k \in 1..Len(sockets) /\ Len(sockets) \in 1..Len(sockets)
  BY <1>2
<1>7. UpConn(sockets) # c
  <2>1. CASE UpConn(sockets) = 0
    BY <1>5, <2>1
  <2>2. CASE UpConn(sockets) # 0
    <3>1. UpConn(sockets) = sockets[Len(sockets)].conn /\ sockets[Len(sockets)].state = "up"
      BY <2>2 DEF UpConn
    <3>2. k # Len(sockets)
      BY <1>3, <3>1
    <3> QED BY <1>1, <1>3, <1>5, <1>6, <3>1, <3>2 DEF SocketsNumbered
  <2> QED BY <2>1, <2>2
<1>8. /\ clientWatchers' \in [V!Conns -> SUBSET LivePayments] /\ clientWatchers'[c] = {}
      /\ \A x \in V!Conns : x # c => clientWatchers'[x] = clientWatchers[x]
      /\ paymentWatchers' \in [LivePayments -> SUBSET V!Conns]
  BY <1>2, <1>4
<1>9. LiveTables'
  BY <1>4, <1>8 DEF LiveTables
<1>10. SocketsOwn'
  BY <1>1, <1>4, <1>8 DEF SocketsOwn
<1>11. UpConn(sockets) # 0 => UpConn(sockets) \in V!Conns
  BY <1>1, LinkIs
<1>12. Synced'
  BY <1>1, <1>4, <1>7, <1>8, <1>11 DEF Synced
<1>13. ASSUME NEW x \in V!Conns, NEW q \in LivePayments
       PROVE  q \in clientWatchers'[x] <=> x \in paymentWatchers'[q]
  <2>1. q \in clientWatchers[x] <=> x \in paymentWatchers[q]
    BY <1>1 DEF V!WatchersAgree
  <2>2. q \in clientWatchers[c] <=> c \in paymentWatchers[q]
    BY <1>1 DEF V!WatchersAgree
  <2>3. paymentWatchers'[q] = IF q \in clientWatchers[c] THEN paymentWatchers[q] \ {c} ELSE paymentWatchers[q]
    BY <1>4
  <2> QED BY <1>8, <2>1, <2>2, <2>3
<1>14. V!WatchersAgree'
  BY <1>13 DEF V!WatchersAgree
<1>15. PageWatched'
  BY <1>1, <1>4 DEF PageWatched
<1> QED BY <1>9, <1>10, <1>12, <1>14, <1>15 DEF Browser

(* Nothing is fetched at first. *)
LEMMA InitOutcome == V!Init => Outcome
<1> SUFFICES ASSUME V!Init PROVE Outcome
  OBVIOUS
<1>1. visit = [n |-> 0, payment |-> "none", late |-> FALSE]
      /\ liveNotes = [visits |-> 0, fetches |-> 0, made |-> 0, raced |-> FALSE, back |-> FALSE]
  BY DEF V!Init, V!Nowhere
<1>2. \A f \in LiveFetches : liveFetches[f] = V!NoFetch
  BY DEF V!Init
<1>3. visit.n = 0 /\ visit.payment = "none" /\ liveNotes.visits = 0 /\ liveNotes.back = FALSE
  BY <1>1
<1> QED BY <1>2, <1>3 DEF Outcome, FetchesOfVisits, OneFetch, NoOlderAnswer, OutcomeIsTrue, BackMeansRaced, Ours

(* A step that leaves the pages, the fetches and the statuses alone. *)
LEMMA OutcomeRests ==
  ASSUME Outcome, UNCHANGED <<visit, liveFetches, paymentStatus>>, livePage'.status = livePage.status,
         liveNotes'.visits = liveNotes.visits, liveNotes'.raced = liveNotes.raced, liveNotes'.back = liveNotes.back
  PROVE  Outcome'
BY DEF Outcome, FetchesOfVisits, OneFetch, NoOlderAnswer, OutcomeIsTrue, BackMeansRaced, Ours

(* A page that closes shows nothing. *)
LEMMA CloseOutcome == LiveTables /\ Outcome /\ V!ClosePage => Outcome'
<1> SUFFICES ASSUME LiveTables, Outcome, V!ClosePage PROVE Outcome'
  OBVIOUS
<1>1. visit'.n = visit.n /\ visit'.payment = "none" /\ UNCHANGED <<liveFetches, liveNotes>>
  BY DEF LiveTables, Visit, V!ClosePage
<1> QED BY <1>1 DEF Outcome, FetchesOfVisits, OneFetch, NoOlderAnswer, OutcomeIsTrue, BackMeansRaced, Ours

(* A page that opens has a number no fetch has yet. *)
LEMMA OpenOutcome ==
  ASSUME LiveTables, Outcome, NEW p \in LivePayments, NEW f \in LiveFetches, V!OpenPage(p, f)
  PROVE  Outcome'
<1> DEFINE n == liveNotes.visits + 1
           fetch == [pc |-> "asked", visit |-> n]
<1>1. liveNotes \in LiveNotes /\ liveNotes.visits \in Nat
      /\ liveFetches \in [LiveFetches -> {V!NoFetch} \cup Asked \cup Answered]
  BY DEF LiveTables, LiveNotes
<1>2. visit' = [n |-> n, payment |-> p, late |-> V!Connected] /\ livePage' = V!Blank
      /\ liveNotes' = [liveNotes EXCEPT !.visits = n, !.fetches = liveNotes.fetches + 1]
      /\ liveFetches' = [liveFetches EXCEPT ![f] = fetch]
  BY DEF V!OpenPage, V!BeginFetch
<1>3. visit'.n = n /\ livePage'.status = "none"
  BY <1>2 DEF V!Blank
<1>4. liveNotes'.visits = n /\ liveNotes'.raced = liveNotes.raced /\ liveNotes'.back = liveNotes.back
  BY <1>1, <1>2 DEF LiveNotes
<1>5. fetch.visit = n /\ fetch.pc = "asked"
  OBVIOUS
<1> HIDE DEF fetch
<1>6. liveFetches'[f] = fetch /\ \A g \in LiveFetches : g # f => liveFetches'[g] = liveFetches[g]
  BY <1>1, <1>2
<1>7. \A g \in LiveFetches : liveFetches[g] # V!NoFetch => liveFetches[g].visit <= liveNotes.visits /\ liveFetches[g].visit \in Nat
  <2> SUFFICES ASSUME NEW g \in LiveFetches, liveFetches[g] # V!NoFetch
               PROVE  liveFetches[g].visit <= liveNotes.visits /\ liveFetches[g].visit \in Nat
    OBVIOUS
  <2>1. liveFetches[g] \in Asked \cup Answered
    BY <1>1
  <2>2. liveFetches[g].visit \in Nat
    BY <2>1 DEF Asked, Answered
  <2> QED BY <2>2 DEF Outcome, FetchesOfVisits
<1>8. \A g \in LiveFetches : g # f /\ liveFetches'[g] # V!NoFetch => liveFetches'[g].visit # n /\ liveFetches'[g].visit <= n
  BY <1>1, <1>6, <1>7
<1>9. \A g \in LiveFetches : Ours(g)' => g = f
  BY <1>3, <1>8 DEF Ours
<1>10. FetchesOfVisits'
  BY <1>1, <1>3, <1>4, <1>5, <1>6, <1>8 DEF FetchesOfVisits
<1>11. OneFetch' /\ NoOlderAnswer' /\ OutcomeIsTrue'
  <2> HIDE DEF n
  <2> QED BY <1>3, <1>5, <1>6, <1>9 DEF OneFetch, NoOlderAnswer, OutcomeIsTrue
<1>12. BackMeansRaced'
  BY <1>4 DEF Outcome, BackMeansRaced
<1> QED BY <1>10, <1>11, <1>12 DEF Outcome

(* Refresh: a fetch on top of one under way is noted as a race. *)
LEMMA RefreshLive ==
  ASSUME LiveTables, Browser, Outcome, NEW f \in LiveFetches, V!Refresh(f)
  PROVE  LiveTables' /\ Browser' /\ Outcome'
<1> DEFINE fetch == [pc |-> "asked", visit |-> visit.n]
           race == \E g \in LiveFetches : liveFetches[g] # V!NoFetch /\ liveFetches[g].visit = visit.n
<1>1. liveNotes \in LiveNotes /\ visit \in Visit /\ visit.n \in Nat
      /\ liveFetches \in [LiveFetches -> {V!NoFetch} \cup Asked \cup Answered]
  BY DEF LiveTables, Visit
<1>2. UNCHANGED <<visit, livePage, sockets, watchedPayments, callbacks, clientWatchers, paymentWatchers, wire, paymentStatus>>
      /\ liveNotes' = [liveNotes EXCEPT !.fetches = @ + 1, !.raced = @ \/ race]
      /\ liveFetches' = [liveFetches EXCEPT ![f] = fetch] /\ liveFetches[f] = V!NoFetch
  BY DEF V!Refresh, V!BeginFetch, V!browserVars, V!gatewayVars
<1>3. fetch \in Asked /\ fetch.visit = visit.n /\ fetch.pc = "asked"
  BY <1>1 DEF Asked
<1> HIDE DEF fetch, race
<1>4. liveFetches' \in [LiveFetches -> {V!NoFetch} \cup Asked \cup Answered] /\ liveFetches'[f] = fetch
      /\ \A g \in LiveFetches : g # f => liveFetches'[g] = liveFetches[g]
  BY <1>1, <1>2, <1>3
<1>5. liveNotes'.made = liveNotes.made /\ liveNotes'.visits = liveNotes.visits /\ liveNotes'.back = liveNotes.back
      /\ liveNotes'.raced = (liveNotes.raced \/ race) /\ liveNotes'.fetches = liveNotes.fetches + 1
  BY <1>1, <1>2 DEF LiveNotes
<1>6. liveNotes' \in LiveNotes
  <2>1. (liveNotes.raced \/ race) \in BOOLEAN /\ liveNotes.fetches + 1 \in Nat
    BY <1>1 DEF LiveNotes
  <2>2. liveNotes' = [liveNotes EXCEPT !.fetches = liveNotes.fetches + 1, !.raced = (liveNotes.raced \/ race)]
    BY <1>2
  <2> QED BY <1>1, <2>1, <2>2 DEF LiveNotes
<1>7. LiveTables'
  BY <1>2, <1>4, <1>6 DEF LiveTables
<1>8. Browser'
  BY <1>2, <1>5, BrowserRests
<1>9. liveNotes.raced \in BOOLEAN
  BY <1>1 DEF LiveNotes
<1>10. liveNotes'.raced = FALSE => liveNotes.raced = FALSE /\ ~race
  BY <1>5, <1>9
<1>11. liveNotes.raced = TRUE => liveNotes'.raced = TRUE
  BY <1>5
<1>12. liveNotes'.raced = FALSE => \A g \in LiveFetches : Ours(g)' => g = f
  BY <1>2, <1>4, <1>10 DEF Ours, race
<1>13. \A g \in LiveFetches : Ours(g)' /\ g # f => Ours(g)
  BY <1>2, <1>4 DEF Ours
<1>14. OneFetch'
  BY <1>12 DEF OneFetch
<1>15. NoOlderAnswer'
  BY <1>3, <1>4, <1>12 DEF NoOlderAnswer
<1>16. OutcomeIsTrue'
  BY <1>2, <1>3, <1>4, <1>13 DEF Outcome, OutcomeIsTrue
<1>17. FetchesOfVisits'
  BY <1>1, <1>2, <1>3, <1>4, <1>5 DEF Outcome, FetchesOfVisits
<1>18. BackMeansRaced'
  BY <1>5, <1>11 DEF Outcome, BackMeansRaced
<1> QED BY <1>7, <1>8, <1>14, <1>15, <1>16, <1>17, <1>18 DEF Outcome

(* The server answers with the status of that moment. *)
LEMMA ServeLive ==
  ASSUME LiveTables, Browser, Outcome, NEW f \in LiveFetches, NEW answer \in {"PENDING", "PAID", "error"},
         V!ServeStatus(f, answer)
  PROVE  LiveTables' /\ Browser' /\ Outcome'
<1> DEFINE fetch == [pc |-> "answered", visit |-> liveFetches[f].visit, answer |-> answer]
<1>1. liveFetches \in [LiveFetches -> {V!NoFetch} \cup Asked \cup Answered]
  BY DEF LiveTables
<1>2. UNCHANGED <<visit, livePage, sockets, watchedPayments, callbacks, clientWatchers, paymentWatchers, wire,
                  paymentStatus, liveNotes>>
      /\ liveFetches' = [liveFetches EXCEPT ![f] = fetch] /\ liveFetches[f].pc = "asked"
  BY DEF V!ServeStatus, V!browserVars, V!gatewayVars
<1>3. \/ answer = "error"
      \/ visit.payment # "none" /\ liveFetches[f].visit = visit.n /\ answer = paymentStatus[visit.payment]
  BY DEF V!ServeStatus
<1>4. liveFetches[f] # V!NoFetch /\ liveFetches[f].visit \in Nat
  BY <1>1, <1>2 DEF V!NoFetch, Asked, Answered
<1>5. fetch \in Answered /\ fetch.visit = liveFetches[f].visit /\ fetch.pc = "answered" /\ fetch.answer = answer
  BY <1>4 DEF Answered
<1> HIDE DEF fetch
<1>6. liveFetches' \in [LiveFetches -> {V!NoFetch} \cup Asked \cup Answered] /\ liveFetches'[f] = fetch
      /\ \A g \in LiveFetches : g # f => liveFetches'[g] = liveFetches[g]
  BY <1>1, <1>2, <1>5
<1>7. LiveTables'
  BY <1>2, <1>6 DEF LiveTables
<1>8. Browser'
  BY <1>2, BrowserRests
<1>9. \A g \in LiveFetches : Ours(g)' => Ours(g)
  BY <1>2, <1>4, <1>5, <1>6 DEF Ours
<1>10. OneFetch' /\ BackMeansRaced'
  BY <1>2, <1>9 DEF Outcome, OneFetch, BackMeansRaced
<1>11. FetchesOfVisits'
  BY <1>2, <1>4, <1>5, <1>6 DEF Outcome, FetchesOfVisits
<1>12. OutcomeIsTrue'
  BY <1>2, <1>3, <1>5, <1>6, <1>9 DEF Outcome, OutcomeIsTrue
<1>13. NoOlderAnswer'
  BY <1>2, <1>3, <1>5, <1>6, <1>9 DEF Outcome, NoOlderAnswer, OutcomeIsTrue
<1> QED BY <1>7, <1>8, <1>10, <1>11, <1>12, <1>13 DEF Outcome

(* An answer is shown, on the page that asked. *)
LEMMA FetchLive ==
  ASSUME LiveTables, Browser, Outcome, NEW f \in LiveFetches, V!FetchStatus(f)
  PROVE  LiveTables' /\ Browser' /\ Outcome'
<1> DEFINE fetch == liveFetches[f]
           here == fetch.visit = visit.n /\ visit.payment # "none"
           back == here /\ fetch.answer = "PENDING" /\ livePage.status = "PAID"
<1>1. liveFetches \in [LiveFetches -> {V!NoFetch} \cup Asked \cup Answered] /\ liveNotes \in LiveNotes /\ livePage \in LiveForm
  BY DEF LiveTables
<1>2. V!Mounted([n |-> fetch.visit]) <=> here
  BY DEF V!Mounted
<1>3. UNCHANGED <<visit, sockets, watchedPayments, callbacks, clientWatchers, paymentWatchers, wire, paymentStatus>>
      /\ liveFetches' = [liveFetches EXCEPT ![f] = V!NoFetch] /\ fetch.pc = "answered"
  BY DEF V!FetchStatus, V!gatewayVars
<1>4. liveNotes' = [liveNotes EXCEPT !.back = @ \/ back]
  BY <1>2 DEF V!FetchStatus
<1>5. livePage' = CASE ~here -> livePage
                    [] here /\ fetch.answer = "error" -> [livePage EXCEPT !.error = TRUE]
                    [] OTHER -> [livePage EXCEPT !.status = fetch.answer]
  BY <1>2 DEF V!FetchStatus
<1>6. fetch # V!NoFetch /\ fetch \in Answered
  BY <1>1, <1>3 DEF V!NoFetch, Asked, Answered
<1>7. fetch.answer \in {"PENDING", "PAID", "error"}
  BY <1>6 DEF Answered
<1>8. (here \/ ~here) /\ (here => Ours(f))
  BY <1>6 DEF Ours
<1> HIDE DEF fetch, here, back
<1>9. livePage' \in LiveForm
      /\ (~here \/ fetch.answer = "error" => livePage'.status = livePage.status)
      /\ (here /\ fetch.answer # "error" => livePage'.status = fetch.answer)
  <2>1. CASE ~here
    <3>1. livePage' = livePage
      BY <1>5, <2>1
    <3> QED BY <1>1, <2>1, <3>1
  <2>2. CASE here /\ fetch.answer = "error"
    <3>1. livePage' = [livePage EXCEPT !.error = TRUE]
      BY <1>5, <2>2
    <3> QED BY <1>1, <2>2, <3>1 DEF LiveForm
  <2>3. CASE here /\ fetch.answer # "error"
    <3>1. livePage' = [livePage EXCEPT !.status = fetch.answer]
      BY <1>5, <2>3
    <3> QED BY <1>1, <1>7, <2>3, <3>1 DEF LiveForm
  <2> QED BY <2>1, <2>2, <2>3
<1>10. liveFetches' \in [LiveFetches -> {V!NoFetch} \cup Asked \cup Answered] /\ liveFetches'[f] = V!NoFetch
       /\ \A g \in LiveFetches : g # f => liveFetches'[g] = liveFetches[g]
  BY <1>1, <1>3
<1>11. liveNotes'.made = liveNotes.made /\ liveNotes'.visits = liveNotes.visits /\ liveNotes'.raced = liveNotes.raced
       /\ liveNotes'.back = (liveNotes.back \/ back)
  BY <1>1, <1>4 DEF LiveNotes
<1>12. liveNotes' \in LiveNotes
  <2>1. (liveNotes.back \/ back) \in BOOLEAN
    OBVIOUS
  <2>2. liveNotes' = [liveNotes EXCEPT !.back = (liveNotes.back \/ back)]
    BY <1>4
  <2> QED BY <1>1, <2>1, <2>2 DEF LiveNotes
<1>13. LiveTables'
  BY <1>3, <1>9, <1>10, <1>12 DEF LiveTables
<1>14. Browser'
  BY <1>3, <1>11, BrowserRests
<1>15. \A g \in LiveFetches : Ours(g)' => Ours(g) /\ g # f /\ liveFetches'[g] = liveFetches[g]
  BY <1>3, <1>10 DEF Ours
<1>16. FetchesOfVisits'
  BY <1>3, <1>10, <1>11 DEF Outcome, FetchesOfVisits
<1>17. OneFetch'
  BY <1>11, <1>15 DEF Outcome, OneFetch
<1>18. back => liveNotes.raced # FALSE
  BY <1>3, <1>8 DEF Outcome, NoOlderAnswer, back, here, fetch
<1>19. liveNotes.raced \in BOOLEAN /\ liveNotes.back \in BOOLEAN
  BY <1>1 DEF LiveNotes
<1>20. BackMeansRaced'
  BY <1>11, <1>18, <1>19 DEF Outcome, BackMeansRaced
<1>21. ASSUME visit.payment # "none", livePage'.status = "PAID" PROVE paymentStatus[visit.payment] = "PAID"
  <2>1. CASE livePage.status = "PAID"
    BY <1>21, <2>1 DEF Outcome, OutcomeIsTrue
  <2>2. CASE livePage.status # "PAID"
    <3>1. here /\ fetch.answer = "PAID"
      BY <1>8, <1>9, <1>21, <2>2
    <3> QED BY <1>3, <1>8, <1>21, <3>1 DEF Outcome, OutcomeIsTrue, fetch
  <2> QED BY <2>1, <2>2
<1>22. OutcomeIsTrue'
  BY <1>3, <1>15, <1>21 DEF Outcome, OutcomeIsTrue
<1>23. NoOlderAnswer'
  <2>1. CASE livePage.status = "PAID"
    BY <1>3, <1>11, <1>15, <2>1 DEF Outcome, NoOlderAnswer
  <2>2. CASE livePage.status # "PAID"
    <3>1. livePage'.status = "PAID" => here
      BY <1>8, <1>9, <2>2
    <3>2. here /\ liveNotes.raced = FALSE => \A g \in LiveFetches : ~Ours(g)'
      BY <1>8, <1>15 DEF Outcome, OneFetch
    <3> QED BY <1>11, <3>1, <3>2 DEF NoOlderAnswer
  <2> QED BY <2>1, <2>2
<1> QED BY <1>13, <1>14, <1>16, <1>17, <1>20, <1>22, <1>23 DEF Outcome

(* A payment reaches its outcome. *)
LEMMA MoveLive ==
  ASSUME LiveTables, Browser, Outcome, NEW p \in LivePayments, V!PaymentMoves(p)
  PROVE  LiveTables' /\ Browser' /\ Outcome'
<1>1. UNCHANGED <<visit, livePage, sockets, watchedPayments, callbacks, clientWatchers, paymentWatchers, wire,
                  liveFetches, liveNotes>>
      /\ paymentStatus' = [paymentStatus EXCEPT ![p] = "PAID"]
  BY DEF V!PaymentMoves, V!browserVars, V!gatewayVars
<1>2. paymentStatus \in [LivePayments -> {"PENDING", "PAID"}] /\ visit.payment \in LivePayments \cup {"none"}
  BY DEF LiveTables, Visit
<1>3. paymentStatus' \in [LivePayments -> {"PENDING", "PAID"}]
      /\ \A q \in LivePayments : paymentStatus[q] = "PAID" => paymentStatus'[q] = "PAID"
  BY <1>1, <1>2
<1>4. LiveTables'
  BY <1>1, <1>3 DEF LiveTables
<1>5. Browser'
  BY <1>1, BrowserRests
<1>6. OutcomeIsTrue'
  BY <1>1, <1>2, <1>3 DEF Outcome, OutcomeIsTrue, Ours
<1>7. FetchesOfVisits' /\ OneFetch' /\ NoOlderAnswer' /\ BackMeansRaced'
  BY <1>1 DEF Outcome, FetchesOfVisits, OneFetch, NoOlderAnswer, BackMeansRaced, Ours
<1> QED BY <1>4, <1>5, <1>6, <1>7 DEF Outcome

(* The sockets and the gateway leave what pages fetch alone. *)
LEMMA SocketOutcome ==
  ASSUME LiveTables, Outcome, NEW k \in DOMAIN sockets, V!Connects(k) \/ V!Disconnects(k) \/ V!ConnectError(k)
  PROVE  Outcome'
<1>1. UNCHANGED <<visit, liveFetches, paymentStatus>>
  BY DEF V!Connects, V!Disconnects, V!ConnectError
<1>2. livePage' = V!ShowLink("connected") \/ livePage' = V!ShowLink("disconnected")
  BY DEF V!Connects, V!Disconnects, V!ConnectError
<1>3. livePage'.status = livePage.status
  BY <1>2, LinkShown
<1>4. liveNotes' = liveNotes \/ \E n : liveNotes' = [liveNotes EXCEPT !.made = n]
  BY DEF V!Connects, V!Disconnects, V!ConnectError
<1>5. liveNotes \in LiveNotes
  BY DEF LiveTables
<1>6. liveNotes'.visits = liveNotes.visits /\ liveNotes'.raced = liveNotes.raced /\ liveNotes'.back = liveNotes.back
  BY <1>4, <1>5 DEF LiveNotes
<1> QED BY <1>1, <1>3, <1>6, OutcomeRests

(* Neither does the gateway touch it. *)
LEMMA GatewayOutcome ==
  ASSUME Outcome, NEW c \in V!Conns, V!HandleMessage(c) \/ V!HandleDisconnect(c)
  PROVE  Outcome'
<1>1. UNCHANGED <<visit, livePage, liveFetches, paymentStatus, liveNotes>>
  BY DEF V!HandleMessage, V!HandleDisconnect, V!browserVars
<1> QED BY <1>1, OutcomeRests

(* The invariant of the live page, its sockets and the gateway. *)
LiveInv == LiveTables /\ Browser /\ Outcome

(* It holds at first. *)
LEMMA InitLive == V!Init => LiveInv
BY InitBrowser, InitOutcome DEF LiveInv

(* Every step of the page, the sockets and the gateway keeps it. *)
LEMMA NextLive == LiveInv /\ V!Next => LiveInv'
<1> SUFFICES ASSUME LiveInv, V!Next PROVE LiveInv'
  OBVIOUS
<1>0. LiveTables /\ Browser /\ Outcome
  BY DEF LiveInv
<1>1. CASE V!ClosePage
  BY <1>0, <1>1, CloseBrowser, CloseOutcome DEF LiveInv
<1>2. CASE \E p \in LivePayments : V!PaymentMoves(p) \/ \E f \in LiveFetches : V!OpenPage(p, f)
  BY <1>0, <1>2, MoveLive, OpenBrowser, OpenOutcome DEF LiveInv
<1>3. CASE \E f \in LiveFetches :
             V!Refresh(f) \/ V!FetchStatus(f) \/ \E a \in {"PENDING", "PAID", "error"} : V!ServeStatus(f, a)
  BY <1>0, <1>3, RefreshLive, FetchLive, ServeLive DEF LiveInv
<1>4. CASE \E k \in DOMAIN sockets : V!Connects(k) \/ V!Disconnects(k) \/ V!ConnectError(k)
  BY <1>0, <1>4, ConnectBrowser, DisconnectBrowser, FailBrowser, SocketOutcome DEF LiveInv
<1>5. CASE \E c \in V!Conns : V!HandleMessage(c) \/ V!HandleDisconnect(c)
  BY <1>0, <1>5, MessageBrowser, ForgetBrowser, GatewayOutcome DEF LiveInv
<1> QED BY <1>1, <1>2, <1>3, <1>4, <1>5 DEF V!Next

(* A step of another part leaves it as it is. *)
LEMMA RestingLive == LiveInv /\ UNCHANGED ofLivePage => LiveInv'
BY DEF ofLivePage, LiveInv, LiveTables, Browser, SocketsOwn, Synced, V!WatchersAgree, PageWatched, Outcome,
       FetchesOfVisits, OneFetch, NoOlderAnswer, OutcomeIsTrue, BackMeansRaced, Ours

(* With nothing on the way the gateway has what is watched in the end. *)
LEMMA LiveImplies == LiveInv => WatchersFollowPages /\ V!TypeOK
<1> SUFFICES ASSUME LiveInv PROVE WatchersFollowPages /\ V!TypeOK
  OBVIOUS
<1>0. LiveTables /\ SocketsOwn /\ Synced /\ V!WatchersAgree /\ PageWatched /\ BackMeansRaced
  BY DEF LiveInv, Browser, Outcome
<1> DEFINE u == UpConn(sockets)
<1>1. /\ V!Connected <=> u # 0
      /\ u # 0 => u \in V!Conns /\ V!Last(sockets).conn = u
  BY <1>0, LinkIs
<1>2. ASSUME V!Connected, wire[V!Last(sockets).conn] = << >>
      PROVE  clientWatchers[V!Last(sockets).conn] = watchedPayments
  <2>1. u # 0 /\ u \in V!Conns /\ wire[u] = << >> /\ V!Last(sockets).conn = u
    BY <1>1, <1>2
  <2>2. \A p \in LivePayments : p \in watchedPayments <=> Watches(<< >>, clientWatchers[u], p)
    BY <1>0, <2>1 DEF Synced
  <2>3. \A p \in LivePayments : p \in watchedPayments <=> p \in clientWatchers[u]
    BY <2>2, NothingOnItsWay
  <2>4. watchedPayments \in SUBSET LivePayments /\ clientWatchers[u] \in SUBSET LivePayments
    BY <1>0, <2>1 DEF LiveTables
  <2> QED BY <2>1, <2>3, <2>4
<1>3. V!GatewayFollowsBrowser
  BY <1>2 DEF V!GatewayFollowsBrowser
<1>4. visit.late \in BOOLEAN
  BY <1>0 DEF LiveTables, Visit
<1>5. V!WatchedUnlessOpenedLive
  BY <1>0, <1>1, <1>2, <1>4 DEF V!WatchedUnlessOpenedLive, PageWatched
<1>6. liveNotes.back \in BOOLEAN /\ liveNotes.raced \in BOOLEAN
  BY <1>0 DEF LiveTables, LiveNotes
<1>7. V!OutcomeStays
  BY <1>0, <1>6 DEF V!OutcomeStays, BackMeansRaced
<1>8. \A k \in DOMAIN sockets : sockets[k].conn \in 0..liveNotes.made
  <2>1. \A k \in 1..Len(sockets) : sockets[k] \in Socket /\ sockets[k].conn <= liveNotes.made
    BY <1>0 DEF LiveTables, SocketsOwn, SocketsNumbered
  <2>2. liveNotes.made \in Nat /\ DOMAIN sockets = 1..Len(sockets)
    BY <1>0 DEF LiveTables, LiveNotes
  <2> QED BY <2>1, <2>2 DEF Socket
<1>9. V!TypeOK
  BY <1>0, <1>8 DEF V!TypeOK, LiveTables, LiveForm
<1> QED BY <1>0, <1>3, <1>5, <1>7, <1>9 DEF WatchersFollowPages

(* The gateway's maps agree and follow the browser and its open page, and a
   page never goes back from an outcome unless two of its fetches raced
   (payment/[id]/page.tsx, lib/websocket.ts, websocket-manager). *)
THEOREM WatchersFollowPagesHolds == SumSpec => []WatchersFollowPages
<1>1. SumInit => LiveInv
  BY InitLive DEF SumInit
<1>2. LiveInv /\ [SumNext]_sumVars => LiveInv'
  BY NextLive, RestingLive DEF SumNext, sumVars
<1>3. LiveInv => WatchersFollowPages
  BY LiveImplies
<1> QED BY <1>1, <1>2, <1>3, PTL DEF SumSpec


(***************************************************************************)
(* Settings.  What is sent was in the form but for later edits, and what is *)
(* neither loaded wrongly nor edited stays as the service has it.           *)
(***************************************************************************)
SettingsTables ==
  /\ kept \in [Fields -> S!Values] /\ typed \in [Fields -> S!Values] /\ sent \in [Fields -> S!Values]
  /\ settingsPc \in {"loading", "idle", "sent", "kept"}
  /\ noteTimers \in 0..MaxTimers
  /\ saveSuccess \in BOOLEAN /\ loadFailed \in BOOLEAN
SaveFollows ==
  /\ saveSuccess = TRUE => settingsPc = "idle" /\ \A f \in Fields \ editedSince : kept[f] = typed[f]
  /\ settingsPc \in {"sent", "kept"} => \A f \in Fields \ editedSince : sent[f] = typed[f]
  /\ settingsPc = "kept" => \A f \in Fields \ editedSince : kept[f] = sent[f]
LoadedStays ==
  loadFailed = FALSE =>
    \A f \in Fields \ edited :
      /\ kept[f] = "kept"
      /\ settingsPc # "loading" => typed[f] = "kept"
      /\ settingsPc = "sent" => sent[f] = "kept"
SettingsInv == SettingsTables /\ SaveFollows /\ LoadedStays

(* Nothing is loaded or sent at first. *)
LEMMA InitSettings == S!Init => SettingsInv
<1> SUFFICES ASSUME S!Init PROVE SettingsInv
  OBVIOUS
<1>1. settingsPc = "loading" /\ saveSuccess = FALSE /\ loadFailed = FALSE /\ edited = {}
      /\ \A f \in Fields : kept[f] = "kept"
  BY DEF S!Init
<1>2. kept \in [Fields -> S!Values] /\ typed \in [Fields -> S!Values] /\ sent \in [Fields -> S!Values]
  BY DEF S!Init, S!Values, S!Defaults
<1>3. noteTimers \in 0..MaxTimers
  BY FundsAssumption DEF S!Init
<1> QED BY <1>1, <1>2, <1>3 DEF SettingsInv, SettingsTables, SaveFollows, LoadedStays

(* Every step of the form and of the service keeps the invariant. *)
LEMMA NextSettings == SettingsInv /\ S!Next => SettingsInv'
<1> SUFFICES ASSUME SettingsInv, S!Next PROVE SettingsInv'
  OBVIOUS
<1>0. SettingsTables /\ SaveFollows /\ LoadedStays
  BY DEF SettingsInv
<1>1. CASE S!FetchSettings
  <2>1. settingsPc = "loading" /\ settingsPc' = "idle" /\ saveSuccess = FALSE
        /\ UNCHANGED <<kept, sent, saveSuccess, noteTimers, edited, editedSince>>
    BY <1>0, <1>1 DEF S!FetchSettings, SettingsTables, SaveFollows
  <2>2. \/ typed' = kept /\ loadFailed' = loadFailed
        \/ loadFailed' = TRUE /\ typed' = typed
    BY <1>1 DEF S!FetchSettings
  <2> QED BY <1>0, <2>1, <2>2 DEF SettingsInv, SettingsTables, SaveFollows, LoadedStays
<1>2. CASE S!HandleSave
  <2>1. settingsPc = "idle" /\ settingsPc' = "sent" /\ sent' = typed /\ saveSuccess' = FALSE /\ editedSince' = {}
        /\ UNCHANGED <<kept, typed, noteTimers, edited, loadFailed>>
    BY <1>2 DEF S!HandleSave
  <2> QED BY <1>0, <2>1 DEF SettingsInv, SettingsTables, SaveFollows, LoadedStays
<1>3. CASE S!Keep
  <2>1. settingsPc = "sent" /\ settingsPc' = "kept" /\ kept' = sent
        /\ UNCHANGED <<typed, sent, saveSuccess, noteTimers, edited, editedSince, loadFailed>>
    BY <1>3 DEF S!Keep
  <2> QED BY <1>0, <2>1 DEF SettingsInv, SettingsTables, SaveFollows, LoadedStays
<1>4. CASE S!Saved
  <2>1. settingsPc = "kept" /\ settingsPc' = "idle" /\ saveSuccess' = TRUE
        /\ UNCHANGED <<kept, typed, sent, edited, editedSince, loadFailed>>
    BY <1>4 DEF S!Saved
  <2>2. noteTimers' \in 0..MaxTimers
    BY <1>0, <1>4, FundsAssumption DEF S!Saved, SettingsTables
  <2> QED BY <1>0, <2>1, <2>2 DEF SettingsInv, SettingsTables, SaveFollows, LoadedStays
<1>5. CASE S!SaveFails
  <2>1. settingsPc \in {"sent", "kept"} /\ settingsPc' = "idle"
        /\ UNCHANGED <<kept, typed, sent, saveSuccess, noteTimers, edited, editedSince, loadFailed>>
    BY <1>5 DEF S!SaveFails
  <2> QED BY <1>0, <2>1 DEF SettingsInv, SettingsTables, SaveFollows, LoadedStays
<1>6. CASE S!NoteTimer
  <2>1. saveSuccess' = FALSE /\ UNCHANGED <<kept, typed, settingsPc, sent, edited, editedSince, loadFailed>>
    BY <1>6 DEF S!NoteTimer
  <2>2. noteTimers' \in 0..MaxTimers
    BY <1>0, <1>6, FundsAssumption DEF S!NoteTimer, SettingsTables
  <2> QED BY <1>0, <2>1, <2>2 DEF SettingsInv, SettingsTables, SaveFollows, LoadedStays
<1>7. ASSUME NEW f \in Fields, S!HandleInputChange(f, "new") PROVE SettingsInv'
  <2>1. settingsPc # "loading" /\ typed' = [typed EXCEPT ![f] = "new"]
        /\ edited' = edited \cup {f} /\ editedSince' = editedSince \cup {f}
        /\ UNCHANGED <<kept, settingsPc, sent, saveSuccess, noteTimers, loadFailed>>
    BY <1>7 DEF S!HandleInputChange
  <2>2. typed' \in [Fields -> S!Values] /\ \A g \in Fields \ {f} : typed'[g] = typed[g]
    BY <1>0, <2>1 DEF SettingsTables, S!Values
  <2> QED BY <1>0, <2>1, <2>2 DEF SettingsInv, SettingsTables, SaveFollows, LoadedStays
<1> QED BY <1>1, <1>2, <1>3, <1>4, <1>5, <1>6, <1>7 DEF S!Next

(* A step of another part leaves it as it is. *)
LEMMA RestingSettings == SettingsInv /\ UNCHANGED ofSettingsPage => SettingsInv'
BY DEF ofSettingsPage, SettingsInv, SettingsTables, SaveFollows, LoadedStays

(* The invariant gives the page's properties. *)
LEMMA SettingsImplies == SettingsInv => S!NoteMeansSaved /\ S!OnlyEditsAreSaved /\ S!TypeOK
<1> SUFFICES ASSUME SettingsInv PROVE S!NoteMeansSaved /\ S!OnlyEditsAreSaved /\ S!TypeOK
  OBVIOUS
<1>1. saveSuccess \in BOOLEAN /\ loadFailed \in BOOLEAN
  BY DEF SettingsInv, SettingsTables
<1>2. S!NoteMeansSaved /\ S!OnlyEditsAreSaved
  BY <1>1 DEF SettingsInv, SaveFollows, LoadedStays, S!NoteMeansSaved, S!OnlyEditsAreSaved
<1>3. S!TypeOK
  BY DEF SettingsInv, SettingsTables, S!TypeOK
<1> QED BY <1>2, <1>3

(***************************************************************************)
(* API keys.  What a request will bring: with its list it was made with,    *)
(* and its key once the service has answered, it brings what the service    *)
(* has, as long as no other request is under way.                           *)
(***************************************************************************)
KeyRequest ==
  {K!NoRequest} \cup [pc : {"create"}, list : SUBSET ApiKeys]
    \cup [pc : {"created", "revoke", "revoked"}, key : ApiKeys, list : SUBSET ApiKeys]
KeyTables ==
  /\ live \in SUBSET everLive /\ everLive \in SUBSET ApiKeys /\ keyList \in SUBSET everLive
  /\ keyForm \in [open : BOOLEAN, named : BOOLEAN, permissions : SUBSET {"read", "write"}]
  /\ keyLoading \in BOOLEAN
  /\ keyRequests \in [KeyRequests -> KeyRequest]
KeysIssued ==
  \A q \in KeyRequests : keyRequests[q] # K!NoRequest =>
    /\ keyRequests[q].list \in SUBSET everLive
    /\ keyRequests[q].pc # "create" => keyRequests[q].key \in everLive
NoneWhileLoading ==
  keyLoading = TRUE => keyForm.open = FALSE /\ keyList = {} /\ \A q \in KeyRequests : keyRequests[q] = K!NoRequest
Brought(r, l) ==
  /\ r.pc \in {"create", "revoke"} => r.list = l
  /\ r.pc = "created" => r.list \cup {r.key} = l
  /\ r.pc = "revoked" => r.list \ {r.key} = l
KeysFollow ==
  keyCrossed = {} =>
    /\ \A q, r \in KeyRequests : keyRequests[q] # K!NoRequest /\ keyRequests[r] # K!NoRequest => q = r
    /\ \A q \in KeyRequests : keyRequests[q] # K!NoRequest => Brought(keyRequests[q], live)
    /\ keyLoading = FALSE /\ (\A q \in KeyRequests : keyRequests[q] = K!NoRequest) => keyList = live
KeyInv == KeyTables /\ KeysIssued /\ NoneWhileLoading /\ KeysFollow

(* The list is loading at first. *)
LEMMA InitKeys == K!Init => KeyInv
<1> SUFFICES ASSUME K!Init PROVE KeyInv
  OBVIOUS
<1>1. live \in SUBSET ApiKeys /\ everLive = live /\ keyList = {} /\ keyLoading = TRUE
      /\ keyRequests = [q \in KeyRequests |-> K!NoRequest] /\ keyCrossed = {}
  BY DEF K!Init
<1>2. keyForm \in [open : BOOLEAN, named : BOOLEAN, permissions : SUBSET {"read", "write"}] /\ keyForm.open = FALSE
  BY DEF K!Init, K!EmptyForm
<1>3. \A q \in KeyRequests : keyRequests[q] = K!NoRequest
  BY <1>1
<1>4. keyRequests \in [KeyRequests -> KeyRequest]
  BY <1>1 DEF KeyRequest
<1> QED BY <1>1, <1>2, <1>3, <1>4 DEF KeyInv, KeyTables, KeysIssued, NoneWhileLoading, KeysFollow

(* A request that goes out: it carries the list, which is the service's. *)
LEMMA KeyAsked ==
  ASSUME KeyInv, NEW q \in KeyRequests, NEW r \in KeyRequest, K!KeyRequest(q, r), keyLoading = FALSE,
         r # K!NoRequest, r.pc = "create" \/ (r.pc = "revoke" /\ r.key \in keyList), r.list = keyList,
         UNCHANGED <<live, everLive, keyList, keyLoading, keyForm>>
  PROVE  KeyInv'
<1>1. KeyTables /\ KeysIssued /\ KeysFollow
  BY DEF KeyInv
<1>2. keyRequests[q] = K!NoRequest /\ keyRequests' = [keyRequests EXCEPT ![q] = r]
  BY DEF K!KeyRequest
<1>3. keyCrossed' = {} => keyCrossed = {} /\ \A p \in KeyRequests : keyRequests[p] = K!NoRequest
  BY DEF K!KeyRequest
<1>4. keyRequests' \in [KeyRequests -> KeyRequest] /\ keyRequests'[q] = r
      /\ \A p \in KeyRequests : p # q => keyRequests'[p] = keyRequests[p]
  BY <1>1, <1>2 DEF KeyTables
<1>5. KeyTables'
  BY <1>1, <1>4 DEF KeyTables
<1>6. KeysIssued'
  BY <1>1, <1>4 DEF KeysIssued, KeyTables
<1>7. NoneWhileLoading'
  BY DEF NoneWhileLoading
<1>8. ASSUME keyCrossed' = {} PROVE r.list = live /\ \A p \in KeyRequests : p # q => keyRequests'[p] = K!NoRequest
  BY <1>1, <1>3, <1>4, <1>8 DEF KeysFollow
<1>9. KeysFollow'
  BY <1>4, <1>8 DEF KeysFollow, Brought
<1> QED BY <1>5, <1>6, <1>7, <1>9 DEF KeyInv

(* Every step of the page and of the service keeps the invariant. *)
LEMMA NextKeys == KeyInv /\ K!Next => KeyInv'
<1> SUFFICES ASSUME KeyInv, K!Next PROVE KeyInv'
  OBVIOUS
<1>0. KeyTables /\ KeysIssued /\ NoneWhileLoading /\ KeysFollow
  BY DEF KeyInv
<1>1. CASE K!FetchApiKeys
  <2>1. keyLoading = TRUE /\ keyLoading' = FALSE /\ UNCHANGED <<live, everLive, keyForm, keyRequests>>
    BY <1>0, <1>1 DEF K!FetchApiKeys, KeyTables
  <2>2. \/ keyList' = live /\ keyCrossed' = keyCrossed
        \/ keyCrossed' # {} /\ keyList' = keyList
    BY <1>1 DEF K!FetchApiKeys
  <2>3. KeyTables' /\ KeysIssued' /\ NoneWhileLoading'
    BY <1>0, <2>1, <2>2 DEF KeyTables, KeysIssued, NoneWhileLoading
  <2>4. KeysFollow'
    BY <1>0, <2>1, <2>2 DEF KeysFollow, NoneWhileLoading, Brought
  <2> QED BY <2>3, <2>4 DEF KeyInv
<1>2. CASE K!EditForm
  <2>1. keyLoading = FALSE /\ UNCHANGED <<live, everLive, keyList, keyLoading, keyRequests, keyCrossed>>
    BY <1>0, <1>2 DEF K!EditForm, KeyTables
  <2>2. keyForm \in [open : BOOLEAN, named : BOOLEAN, permissions : SUBSET {"read", "write"}]
    BY <1>0 DEF KeyTables
  <2>3. keyForm' \in [open : BOOLEAN, named : BOOLEAN, permissions : SUBSET {"read", "write"}]
    <3>1. CASE keyForm' = [keyForm EXCEPT !.open = ~@]
      BY <2>2, <3>1
    <3>2. CASE keyForm' = [keyForm EXCEPT !.named = ~@]
      BY <2>2, <3>2
    <3>3. ASSUME NEW p \in {"read", "write"},
                 keyForm' = [keyForm EXCEPT !.permissions = IF p \in @ THEN @ \ {p} ELSE @ \cup {p}]
          PROVE  keyForm' \in [open : BOOLEAN, named : BOOLEAN, permissions : SUBSET {"read", "write"}]
      <4> DEFINE ps == IF p \in keyForm.permissions THEN keyForm.permissions \ {p} ELSE keyForm.permissions \cup {p}
      <4>1. ps \in SUBSET {"read", "write"}
        BY <2>2
      <4>2. keyForm' = [keyForm EXCEPT !.permissions = ps]
        BY <3>3
      <4> HIDE DEF ps
      <4> QED BY <2>2, <4>1, <4>2
    <3> QED BY <1>2, <3>1, <3>2, <3>3 DEF K!EditForm
  <2> QED BY <1>0, <2>1, <2>3 DEF KeyInv, KeyTables, KeysIssued, NoneWhileLoading, KeysFollow, Brought
<1>3. ASSUME NEW q \in KeyRequests, K!HandleCreateKey(q) PROVE KeyInv'
  <2> DEFINE r == [pc |-> "create", list |-> keyList]
  <2>1. keyForm.open # FALSE /\ K!KeyRequest(q, r) /\ UNCHANGED <<live, everLive, keyList, keyLoading, keyForm>>
    BY <1>3 DEF K!HandleCreateKey
  <2>2. keyLoading = FALSE
    BY <1>0, <2>1 DEF NoneWhileLoading, KeyTables
  <2>3. r \in KeyRequest /\ r # K!NoRequest /\ r.pc = "create" /\ r.list = keyList
    BY <1>0 DEF KeyRequest, KeyTables, K!NoRequest
  <2> QED BY <2>1, <2>2, <2>3, KeyAsked
<1>4. ASSUME NEW q \in KeyRequests, NEW k \in ApiKeys, K!HandleRevokeKey(q, k) PROVE KeyInv'
  <2> DEFINE r == [pc |-> "revoke", key |-> k, list |-> keyList]
  <2>1. k \in keyList /\ K!KeyRequest(q, r) /\ UNCHANGED <<live, everLive, keyList, keyLoading, keyForm>>
    BY <1>4 DEF K!HandleRevokeKey
  <2>2. keyLoading = FALSE
    BY <1>0, <2>1 DEF NoneWhileLoading, KeyTables
  <2>3. r \in KeyRequest /\ r # K!NoRequest /\ r.pc = "revoke" /\ r.list = keyList /\ r.key = k
    BY <1>0 DEF KeyRequest, KeyTables, K!NoRequest
  <2> QED BY <2>1, <2>2, <2>3, KeyAsked
<1>5. ASSUME NEW q \in KeyRequests, K!ServeKey(q) PROVE KeyInv'
  <2> DEFINE old == keyRequests[q]
  <2>0. UNCHANGED <<keyList, keyLoading, keyForm, keyCrossed>>
    BY <1>5 DEF K!ServeKey
  <2>1. PICK r \in KeyRequest :
          /\ keyRequests' = [keyRequests EXCEPT ![q] = r] /\ r # K!NoRequest /\ old # K!NoRequest
          /\ live' \in SUBSET everLive' /\ everLive' \in SUBSET ApiKeys /\ everLive \in SUBSET everLive'
          /\ r.list \in SUBSET everLive' /\ r.key \in everLive'
          /\ old.list = live => Brought(r, live')
          /\ old.pc \in {"create", "revoke"}
    <3>1. ASSUME old.pc = "create", NEW k \in ApiKeys \ everLive, live' = live \cup {k}, everLive' = everLive \cup {k},
                 keyRequests' = [keyRequests EXCEPT ![q] = [pc |-> "created", key |-> k, list |-> @.list]]
          PROVE  \E r \in KeyRequest :
                   /\ keyRequests' = [keyRequests EXCEPT ![q] = r] /\ r # K!NoRequest /\ old # K!NoRequest
                   /\ live' \in SUBSET everLive' /\ everLive' \in SUBSET ApiKeys /\ everLive \in SUBSET everLive'
                   /\ r.list \in SUBSET everLive' /\ r.key \in everLive'
                   /\ old.list = live => Brought(r, live')
                   /\ old.pc \in {"create", "revoke"}
      <4> DEFINE r == [pc |-> "created", key |-> k, list |-> old.list]
      <4>1. old # K!NoRequest /\ old.list \in SUBSET everLive
        BY <1>0, <3>1 DEF K!NoRequest, KeysIssued
      <4>2. r \in KeyRequest /\ r # K!NoRequest /\ r.key = k /\ r.list = old.list /\ r.pc = "created"
        BY <1>0, <4>1 DEF KeyRequest, K!NoRequest, KeyTables
      <4>3. keyRequests' = [keyRequests EXCEPT ![q] = r]
        BY <3>1
      <4> HIDE DEF r, old
      <4>4. old.list = live => Brought(r, live')
        BY <3>1, <4>2 DEF Brought
      <4> QED BY <1>0, <3>1, <4>1, <4>2, <4>3, <4>4 DEF KeyTables
    <3>2. ASSUME old.pc = "revoke", live' = live \ {old.key}, everLive' = everLive,
                 keyRequests' = [keyRequests EXCEPT ![q].pc = "revoked"]
          PROVE  \E r \in KeyRequest :
                   /\ keyRequests' = [keyRequests EXCEPT ![q] = r] /\ r # K!NoRequest /\ old # K!NoRequest
                   /\ live' \in SUBSET everLive' /\ everLive' \in SUBSET ApiKeys /\ everLive \in SUBSET everLive'
                   /\ r.list \in SUBSET everLive' /\ r.key \in everLive'
                   /\ old.list = live => Brought(r, live')
                   /\ old.pc \in {"create", "revoke"}
      <4> DEFINE r == [old EXCEPT !.pc = "revoked"]
      <4>1. old # K!NoRequest /\ old.list \in SUBSET everLive /\ old.key \in everLive
        BY <1>0, <3>2 DEF K!NoRequest, KeysIssued
      <4>2. old \in [pc : {"created", "revoke", "revoked"}, key : ApiKeys, list : SUBSET ApiKeys]
        BY <1>0, <3>2, <4>1 DEF KeyTables, KeyRequest
      <4>3. r \in KeyRequest /\ r # K!NoRequest /\ r.key = old.key /\ r.list = old.list /\ r.pc = "revoked"
        BY <4>2 DEF KeyRequest, K!NoRequest
      <4>4. keyRequests' = [keyRequests EXCEPT ![q] = r]
        BY <3>2
      <4> HIDE DEF r, old
      <4>5. old.list = live => Brought(r, live')
        BY <3>2, <4>3 DEF Brought
      <4> QED BY <1>0, <3>2, <4>1, <4>3, <4>4, <4>5 DEF KeyTables
    <3> QED BY <1>5, <3>1, <3>2 DEF K!ServeKey
  <2> HIDE DEF old
  <2>2. keyRequests' \in [KeyRequests -> KeyRequest] /\ keyRequests'[q] = r
        /\ \A p \in KeyRequests : p # q => keyRequests'[p] = keyRequests[p]
    BY <1>0, <2>1 DEF KeyTables
  <2>3. KeyTables'
    BY <1>0, <2>0, <2>1, <2>2 DEF KeyTables
  <2>4. KeysIssued'
    BY <1>0, <2>1, <2>2 DEF KeysIssued
  <2>5. NoneWhileLoading'
    BY <1>0, <2>0, <2>1 DEF NoneWhileLoading, old
  <2>6. ASSUME keyCrossed = {} PROVE Brought(r, live') /\ \A p \in KeyRequests : p # q => keyRequests[p] = K!NoRequest
    BY <1>0, <2>1, <2>6 DEF KeysFollow, Brought, old
  <2>7. KeysFollow'
    BY <2>0, <2>1, <2>2, <2>6 DEF KeysFollow
  <2> QED BY <2>3, <2>4, <2>5, <2>7 DEF KeyInv
<1>6. ASSUME NEW q \in KeyRequests, K!KeyAnswered(q) PROVE KeyInv'
  <2> DEFINE r == keyRequests[q]
  <2>1. keyRequests' = [keyRequests EXCEPT ![q] = K!NoRequest] /\ UNCHANGED <<live, everLive, keyLoading, keyCrossed>>
    BY <1>6 DEF K!KeyAnswered
  <2>2. \/ r.pc = "created" /\ keyList' = r.list \cup {r.key} /\ keyForm' = K!EmptyForm
        \/ r.pc = "revoked" /\ keyList' = r.list \ {r.key} /\ keyForm' = keyForm
    BY <1>6 DEF K!KeyAnswered
  <2>3. r # K!NoRequest
    BY <2>2 DEF K!NoRequest
  <2>4. keyRequests' \in [KeyRequests -> KeyRequest] /\ keyRequests'[q] = K!NoRequest
        /\ \A p \in KeyRequests : p # q => keyRequests'[p] = keyRequests[p]
    BY <1>0, <2>1 DEF KeyTables, KeyRequest
  <2>5. keyForm' \in [open : BOOLEAN, named : BOOLEAN, permissions : SUBSET {"read", "write"}]
    <3>1. K!EmptyForm \in [open : BOOLEAN, named : BOOLEAN, permissions : SUBSET {"read", "write"}]
      BY DEF K!EmptyForm
    <3>2. keyForm \in [open : BOOLEAN, named : BOOLEAN, permissions : SUBSET {"read", "write"}]
      BY <1>0 DEF KeyTables
    <3> QED BY <2>2, <3>1, <3>2
  <2>6. keyList' \in SUBSET everLive
    BY <1>0, <2>2, <2>3 DEF KeysIssued
  <2>7. KeyTables'
    BY <1>0, <2>1, <2>4, <2>5, <2>6 DEF KeyTables
  <2>8. KeysIssued'
    BY <1>0, <2>1, <2>4 DEF KeysIssued
  <2>9. NoneWhileLoading'
    BY <1>0, <2>1, <2>3 DEF NoneWhileLoading
  <2>10. ASSUME keyCrossed = {} PROVE keyList' = live /\ \A p \in KeyRequests : p # q => keyRequests[p] = K!NoRequest
    BY <1>0, <2>2, <2>3, <2>10 DEF KeysFollow, Brought
  <2>11. KeysFollow'
    BY <2>1, <2>4, <2>10 DEF KeysFollow
  <2> QED BY <2>7, <2>8, <2>9, <2>11 DEF KeyInv
<1>7. ASSUME NEW q \in KeyRequests, K!KeyFails(q) PROVE KeyInv'
  <2>1. keyRequests[q] # K!NoRequest /\ keyRequests' = [keyRequests EXCEPT ![q] = K!NoRequest] /\ keyCrossed' # {}
        /\ UNCHANGED <<live, everLive, keyList, keyLoading, keyForm>>
    BY <1>7 DEF K!KeyFails
  <2>2. keyRequests' \in [KeyRequests -> KeyRequest] /\ keyRequests'[q] = K!NoRequest
        /\ \A p \in KeyRequests : p # q => keyRequests'[p] = keyRequests[p]
    BY <1>0, <2>1 DEF KeyTables, KeyRequest
  <2> QED BY <1>0, <2>1, <2>2 DEF KeyInv, KeyTables, KeysIssued, NoneWhileLoading, KeysFollow
<1> QED BY <1>1, <1>2, <1>3, <1>4, <1>5, <1>6, <1>7 DEF K!Next

(* A step of another part leaves it as it is. *)
LEMMA RestingKeys == KeyInv /\ UNCHANGED ofKeyPage => KeyInv'
BY DEF ofKeyPage, KeyInv, KeyTables, KeysIssued, NoneWhileLoading, KeysFollow, Brought

(* The invariant gives the page's property and types. *)
LEMMA KeysImply == KeyInv => K!ListIsLive /\ K!TypeOK
<1> SUFFICES ASSUME KeyInv PROVE K!ListIsLive /\ K!TypeOK
  OBVIOUS
<1>1. KeyTables /\ KeysFollow
  BY DEF KeyInv
<1>2. \A q \in KeyRequests : keyRequests[q].pc \in {"none", "create", "created", "revoke", "revoked"}
  <2> SUFFICES ASSUME NEW q \in KeyRequests
               PROVE  keyRequests[q].pc \in {"none", "create", "created", "revoke", "revoked"}
    OBVIOUS
  <2>1. keyRequests[q] \in KeyRequest
    BY <1>1 DEF KeyTables
  <2> QED BY <2>1 DEF KeyRequest, K!NoRequest
<1>3. K!TypeOK
  BY <1>1, <1>2 DEF KeyTables, K!TypeOK
<1>4. keyLoading \in BOOLEAN
  BY <1>1 DEF KeyTables
<1>5. K!ListIsLive
  BY <1>1, <1>4 DEF KeysFollow, K!ListIsLive
<1> QED BY <1>3, <1>5

(***************************************************************************)
(* Lists.  Whatever is under way says what the list will show: a fetch that *)
(* was answered brings what the server has for its filter, and an action    *)
(* that went well will fetch again.                                         *)
(***************************************************************************)
ListStatuses ==
  {"none", "PENDING", "PROCESSING", "COMPLETED", "FAILED", "REVERSED", "EXECUTING",
   "PARTIALLY_COMPLETED", "CANCELLED", "OPEN", "UNDER_REVIEW", "WON"}
ListRows == [PageRows -> ListStatuses \cup {"hidden"}]
ListActs == {"create", "process", "reverse", "execute", "retry", "cancel", "review"}
ListFetch == {L!NoFetch} \cup [pc : {"sent", "answered"}, filter : L!Filters, rows : ListRows]
ListClick == {L!NoClick} \cup [pc : {"sent", "ok", "refused"}, row : PageRows, act : ListActs, filter : L!Filters]
ListTables ==
  /\ page \in {"refunds", "splits", "disputes"}
  /\ served \in [PageRows -> ListStatuses]
  /\ filter \in L!Filters
  /\ shown \in [rows : ListRows, filter : L!Filters]
  /\ fetches \in [Fetches -> ListFetch]
  /\ clicks \in [Clicks -> ListClick]

(* Rows that are not of the filter are hidden. *)
Filtered(rs, status) == \A r \in PageRows : rs[r] = "hidden" \/ status \in {L!Unfiltered, rs[r]}
RowsFiltered ==
  /\ Filtered(shown.rows, shown.filter)
  /\ \A f \in Fetches : fetches[f].pc = "answered" => Filtered(fetches[f].rows, fetches[f].filter)

(* Under way at once. *)
Under(f) == fetches[f] # L!NoFetch
OneListFetch == "two fetches" \notin crossed => \A f, g \in Fetches : Under(f) /\ Under(g) => f = g
Calm == crossed \subseteq {"click while busy", "filter while acting"}
ListFresh ==
  Calm =>
    \/ \E c \in Clicks : clicks[c].pc = "ok"
    \/ \E f \in Fetches :
         Under(f) /\ (fetches[f].pc = "answered" => fetches[f].rows = L!Matching(served, fetches[f].filter))
    \/ (\A f \in Fetches : ~Under(f)) /\ shown.rows = L!Matching(served, shown.filter)
FiltersAgree ==
  crossed \subseteq {"click while busy"} =>
    /\ \A c \in Clicks : clicks[c] # L!NoClick => clicks[c].filter = filter
    /\ \A f \in Fetches : Under(f) => fetches[f].filter = filter
    /\ (\A f \in Fetches : ~Under(f)) => shown.filter = filter

(* What an action that is under way finds, and how one may be refused. *)
Accepted(act, status) == IF act = "create" THEN status = "none" ELSE <<act, status>> \in L!Buttons[page]
Excused(act, r) == act \in {"create", "retry", "execute"} \/ (act = "cancel" /\ r \notin ours)
ClicksApart ==
  crossed \subseteq {"filter while acting"} =>
    /\ \A c, d \in Clicks : clicks[c] # L!NoClick /\ clicks[d] # L!NoClick /\ clicks[c].row = clicks[d].row => c = d
    /\ \A c \in Clicks : clicks[c].pc = "sent" => Accepted(clicks[c].act, served[clicks[c].row])
    /\ \A c \in Clicks : clicks[c].pc = "refused" => Excused(clicks[c].act, clicks[c].row)
ListInv == ListTables /\ RowsFiltered /\ OneListFetch /\ ListFresh /\ FiltersAgree /\ ClicksApart

(* The rows of a filter. *)
LEMMA MatchingRows ==
  ASSUME NEW rs \in [PageRows -> ListStatuses], NEW status
  PROVE  L!Matching(rs, status) \in ListRows /\ Filtered(L!Matching(rs, status), status)
         /\ \A r \in PageRows : L!Matching(rs, status)[r] \in {"hidden", rs[r]}
BY DEF L!Matching, Filtered, ListRows

(* What is asked for is not answered yet. *)
LEMMA AskedIs ==
  ASSUME NEW status \in L!Filters
  PROVE  L!Asked(status) \in ListFetch /\ L!Asked(status) # L!NoFetch
         /\ L!Asked(status).pc = "sent" /\ L!Asked(status).filter = status
<1> DEFINE hidden == [r \in PageRows |-> "hidden"]
<1>1. hidden \in ListRows
  BY DEF ListRows
<1> HIDE DEF hidden
<1>2. L!Asked(status) = [pc |-> "sent", filter |-> status, rows |-> hidden] /\ L!NoFetch.pc = "none"
  <2>1. L!NoFetch = [pc |-> "none", filter |-> L!Unfiltered, rows |-> hidden]
    BY DEF L!NoFetch, hidden
  <2>2. L!Asked(status) = [L!NoFetch EXCEPT !.pc = "sent", !.filter = status]
    BY DEF L!Asked
  <2> QED BY <2>1, <2>2
<1> QED BY <1>1, <1>2 DEF ListFetch

(* What a fetch that starts leaves. *)
Starts(status) ==
  \E f \in Fetches :
    /\ ~Under(f) /\ fetches' \in [Fetches -> ListFetch] /\ fetches'[f] # L!NoFetch
    /\ fetches'[f].pc = "sent" /\ fetches'[f].filter = status
    /\ \A g \in Fetches : g # f => fetches'[g] = fetches[g]

(* StartFetch is one that starts, and what else is under way stays. *)
LEMMA FetchStarts ==
  ASSUME ListTables, NEW status \in L!Filters, L!StartFetch(status)
  PROVE  Starts(status)
<1>1. PICK f \in Fetches : fetches[f] = L!NoFetch /\ fetches' = [fetches EXCEPT ![f] = L!Asked(status)]
  BY DEF L!StartFetch
<1> DEFINE a == L!Asked(status)
<1>2. a \in ListFetch /\ a # L!NoFetch /\ a.pc = "sent" /\ a.filter = status
  BY AskedIs
<1> HIDE DEF a
<1>3. fetches' = [fetches EXCEPT ![f] = a]
  BY <1>1 DEF a
<1>4. fetches' \in [Fetches -> ListFetch] /\ fetches'[f] = a /\ \A g \in Fetches : g # f => fetches'[g] = fetches[g]
  BY <1>2, <1>3 DEF ListTables
<1> QED BY <1>1, <1>2, <1>4 DEF Starts, Under

(* At first the list is fetched, unfiltered. *)
LEMMA InitList == L!Init => ListInv
<1> SUFFICES ASSUME L!Init PROVE ListInv
  OBVIOUS
<1> DEFINE hidden == [r \in PageRows |-> "hidden"]
<1>1. page \in {"refunds", "splits", "disputes"}
  BY DEF L!Init, L!Buttons
<1>2. L!Found[page] \subseteq ListStatuses
  BY <1>1 DEF L!Found, ListStatuses
<1>3. served \in [PageRows -> ListStatuses]
  BY <1>2 DEF L!Init, ListStatuses
<1>4. hidden \in ListRows /\ Filtered(hidden, L!Unfiltered)
  BY DEF ListRows, Filtered
<1>5. filter = L!Unfiltered /\ shown = [rows |-> hidden, filter |-> L!Unfiltered]
      /\ clicks = [c \in Clicks |-> L!NoClick] /\ crossed = {}
  BY DEF L!Init
<1> HIDE DEF hidden
<1>6. L!Unfiltered \in L!Filters
  BY DEF L!Filters
<1>7. PICK f \in Fetches : fetches = [g \in Fetches |-> IF g = f THEN L!Asked(L!Unfiltered) ELSE L!NoFetch]
  BY DEF L!Init
<1>8. L!Asked(L!Unfiltered) \in ListFetch /\ L!Asked(L!Unfiltered) # L!NoFetch
      /\ L!Asked(L!Unfiltered).pc = "sent" /\ L!Asked(L!Unfiltered).filter = L!Unfiltered
  BY <1>6, AskedIs
<1>9. fetches \in [Fetches -> ListFetch] /\ fetches[f] = L!Asked(L!Unfiltered)
      /\ \A g \in Fetches : g # f => fetches[g] = L!NoFetch
  BY <1>7, <1>8 DEF ListFetch
<1>10. shown.rows = hidden /\ shown.filter = L!Unfiltered /\ shown \in [rows : ListRows, filter : L!Filters]
  BY <1>4, <1>5, <1>6
<1>11. clicks \in [Clicks -> ListClick] /\ \A c \in Clicks : clicks[c] = L!NoClick
  BY <1>5 DEF ListClick
<1>12. ListTables
  BY <1>1, <1>3, <1>5, <1>6, <1>9, <1>10, <1>11 DEF ListTables
<1>13. L!NoClick.pc = "none" /\ L!NoFetch.pc = "none"
  BY DEF L!NoClick, L!NoFetch
<1>14. RowsFiltered
  BY <1>4, <1>8, <1>9, <1>10, <1>13 DEF RowsFiltered
<1>15. OneListFetch
  BY <1>9 DEF OneListFetch, Under
<1>16. ListFresh
  BY <1>8, <1>9 DEF ListFresh, Under
<1>17. FiltersAgree
  BY <1>5, <1>8, <1>9, <1>11 DEF FiltersAgree, Under
<1>18. ClicksApart
  BY <1>11, <1>13 DEF ClicksApart
<1> QED BY <1>12, <1>14, <1>15, <1>16, <1>17, <1>18 DEF ListInv

(* The filter is set: the list is fetched for it. *)
LEMMA FilterList == ASSUME ListInv, NEW status \in L!Filters, L!SetFilter(status) PROVE ListInv'
<1>0. ListTables /\ RowsFiltered /\ OneListFetch /\ ClicksApart
  BY DEF ListInv
<1>1. filter' = status /\ UNCHANGED <<page, ours, served, shown, clicks>>
      /\ crossed' = crossed \cup L!Racing \cup (IF L!Acting THEN {"filter while acting"} ELSE {})
  BY DEF L!SetFilter, L!Cross
<1>2. PICK f \in Fetches :
        /\ ~Under(f) /\ fetches' \in [Fetches -> ListFetch] /\ fetches'[f] # L!NoFetch
        /\ fetches'[f].pc = "sent" /\ fetches'[f].filter = status
        /\ \A g \in Fetches : g # f => fetches'[g] = fetches[g]
  BY <1>0, FetchStarts DEF L!SetFilter, Starts
<1>3. "two fetches" \notin crossed' => \A g \in Fetches : ~Under(g)
  BY <1>1 DEF L!Racing, L!Fetching, Under
<1>4. L!Filters' = L!Filters
  BY <1>1 DEF L!Filters
<1>5. ListFetch' = ListFetch /\ ListClick' = ListClick
  BY <1>4 DEF ListFetch, ListClick
<1>6. ListTables'
  BY <1>0, <1>1, <1>2, <1>4, <1>5 DEF ListTables
<1>7. RowsFiltered'
  BY <1>0, <1>1, <1>2 DEF RowsFiltered
<1>8. OneListFetch'
  BY <1>2, <1>3 DEF OneListFetch, Under
<1>9. ListFresh'
  BY <1>2 DEF ListFresh, Under
<1>10. ASSUME crossed' \subseteq {"click while busy"}
       PROVE  (\A g \in Fetches : ~Under(g)) /\ \A c \in Clicks : clicks[c] = L!NoClick
  <2>1. "two fetches" \notin crossed' /\ "filter while acting" \notin crossed'
    BY <1>10
  <2>2. ~L!Acting
    BY <1>1, <2>1
  <2> QED BY <1>3, <2>1, <2>2 DEF L!Acting
<1>11. FiltersAgree'
  BY <1>1, <1>2, <1>10 DEF FiltersAgree, Under
<1>12. crossed \subseteq crossed'
  BY <1>1
<1>13. ClicksApart'
  BY <1>0, <1>1, <1>12 DEF ClicksApart, Accepted, Excused
<1> QED BY <1>6, <1>7, <1>8, <1>9, <1>11, <1>13 DEF ListInv

(* The server answers with the rows of that moment. *)
LEMMA AnswerList == ASSUME ListInv, NEW f \in Fetches, L!Answer(f) PROVE ListInv'
<1>0. ListTables /\ RowsFiltered /\ OneListFetch /\ ListFresh /\ FiltersAgree /\ ClicksApart
  BY DEF ListInv
<1> DEFINE a == [fetches[f] EXCEPT !.pc = "answered", !.rows = L!Matching(served, fetches[f].filter)]
<1>1. fetches[f].pc = "sent" /\ fetches' = [fetches EXCEPT ![f] = a]
      /\ UNCHANGED <<page, ours, served, filter, shown, clicks, crossed>>
  BY DEF L!Answer
<1>2. fetches[f] \in [pc : {"sent", "answered"}, filter : L!Filters, rows : ListRows] /\ Under(f)
  BY <1>0, <1>1 DEF ListTables, ListFetch, L!NoFetch, Under
<1>3. L!Matching(served, fetches[f].filter) \in ListRows /\ Filtered(L!Matching(served, fetches[f].filter), fetches[f].filter)
  BY <1>0, MatchingRows DEF ListTables
<1>4. a \in ListFetch /\ a.pc = "answered" /\ a.filter = fetches[f].filter /\ a.rows = L!Matching(served, fetches[f].filter)
      /\ a # L!NoFetch
  BY <1>2, <1>3 DEF ListFetch, L!NoFetch
<1> HIDE DEF a
<1>5. fetches' \in [Fetches -> ListFetch] /\ fetches'[f] = a /\ \A g \in Fetches : g # f => fetches'[g] = fetches[g]
  BY <1>0, <1>1, <1>4 DEF ListTables
<1>6. L!Filters' = L!Filters /\ ListFetch' = ListFetch /\ ListClick' = ListClick
  BY <1>1 DEF L!Filters, ListFetch, ListClick
<1>7. ListTables'
  BY <1>0, <1>1, <1>5, <1>6 DEF ListTables
<1>8. RowsFiltered'
  BY <1>0, <1>1, <1>3, <1>4, <1>5 DEF RowsFiltered
<1>9. \A g \in Fetches : Under(g)' <=> Under(g)
  BY <1>2, <1>4, <1>5 DEF Under
<1>10. OneListFetch'
  BY <1>0, <1>1, <1>9 DEF OneListFetch
<1>11. ListFresh'
  BY <1>0, <1>1, <1>2, <1>4, <1>5, <1>9 DEF ListFresh, Calm
<1>12. FiltersAgree'
  BY <1>0, <1>1, <1>4, <1>5, <1>9 DEF FiltersAgree
<1>13. ClicksApart'
  BY <1>0, <1>1 DEF ClicksApart, Accepted, Excused
<1> QED BY <1>7, <1>8, <1>10, <1>11, <1>12, <1>13 DEF ListInv

(* An answer arrives, or a fetch fails: it is not under way any more. *)
Ends(f) ==
  /\ fetches' \in [Fetches -> ListFetch] /\ fetches'[f] = L!NoFetch
  /\ \A g \in Fetches : g # f => fetches'[g] = fetches[g]

(* Emptying its place ends it, and what else is under way stays. *)
LEMMA FetchEnds ==
  ASSUME ListTables, NEW f \in Fetches, fetches' = [fetches EXCEPT ![f] = L!NoFetch]
  PROVE  Ends(f)
<1>1. L!NoFetch \in ListFetch
  BY DEF ListFetch
<1> QED BY <1>1 DEF ListTables, Ends

(* An answer arrives: it is shown. *)
LEMMA ArriveList == ASSUME ListInv, NEW f \in Fetches, L!Arrive(f) PROVE ListInv'
<1>0. ListTables /\ RowsFiltered /\ OneListFetch /\ ListFresh /\ FiltersAgree /\ ClicksApart
  BY DEF ListInv
<1>1. fetches[f].pc = "answered" /\ shown' = [rows |-> fetches[f].rows, filter |-> fetches[f].filter]
      /\ fetches' = [fetches EXCEPT ![f] = L!NoFetch] /\ UNCHANGED <<page, ours, served, filter, clicks, crossed>>
  BY DEF L!Arrive
<1>2. fetches[f] \in [pc : {"sent", "answered"}, filter : L!Filters, rows : ListRows] /\ Under(f)
  BY <1>0, <1>1 DEF ListTables, ListFetch, L!NoFetch, Under
<1>3. shown' \in [rows : ListRows, filter : L!Filters] /\ shown'.rows = fetches[f].rows /\ shown'.filter = fetches[f].filter
  BY <1>1, <1>2
<1>4. fetches' \in [Fetches -> ListFetch] /\ fetches'[f] = L!NoFetch /\ \A g \in Fetches : g # f => fetches'[g] = fetches[g]
  BY <1>0, <1>1, FetchEnds DEF Ends
<1>5. L!Filters' = L!Filters /\ ListFetch' = ListFetch /\ ListClick' = ListClick
  BY <1>1 DEF L!Filters, ListFetch, ListClick
<1>6. ListTables'
  BY <1>0, <1>1, <1>3, <1>4, <1>5 DEF ListTables
<1>7. RowsFiltered'
  BY <1>0, <1>1, <1>3, <1>4 DEF RowsFiltered, L!NoFetch
<1>8. \A g \in Fetches : Under(g)' => Under(g) /\ g # f
  BY <1>4 DEF Under
<1>9. OneListFetch'
  BY <1>0, <1>1, <1>8 DEF OneListFetch
<1>10. Calm => \A g \in Fetches : ~Under(g)'
  BY <1>0, <1>2, <1>8 DEF OneListFetch, Calm
<1>11. ListFresh'
  <2>1. CASE \E c \in Clicks : clicks[c].pc = "ok"
    BY <1>1, <2>1 DEF ListFresh
  <2>2. CASE ~\E c \in Clicks : clicks[c].pc = "ok"
    <3>1. ASSUME Calm PROVE shown'.rows = L!Matching(served, shown'.filter)
      <4>1. PICK g \in Fetches :
              Under(g) /\ (fetches[g].pc = "answered" => fetches[g].rows = L!Matching(served, fetches[g].filter))
        BY <1>0, <1>2, <2>2, <3>1 DEF ListFresh
      <4>2. g = f
        BY <1>0, <1>2, <3>1, <4>1 DEF OneListFetch, Calm
      <4> QED BY <1>1, <1>3, <4>1, <4>2
    <3>2. Calm' <=> Calm
      BY <1>1 DEF Calm
    <3>3. \A rs, s : L!Matching(rs, s)' = L!Matching(rs, s)
      BY DEF L!Matching
    <3> QED BY <1>1, <1>10, <3>1, <3>2 DEF ListFresh
  <2> QED BY <2>1, <2>2
<1>12. FiltersAgree'
  BY <1>0, <1>1, <1>2, <1>3, <1>4, <1>8 DEF FiltersAgree
<1>13. ClicksApart'
  BY <1>0, <1>1 DEF ClicksApart, Accepted, Excused
<1> QED BY <1>6, <1>7, <1>9, <1>11, <1>12, <1>13 DEF ListInv

(* A fetch fails. *)
LEMMA FailList == ASSUME ListInv, NEW f \in Fetches, L!FetchFails(f) PROVE ListInv'
<1>0. ListTables /\ RowsFiltered /\ OneListFetch /\ ListFresh /\ FiltersAgree /\ ClicksApart
  BY DEF ListInv
<1> DEFINE hidden == [r \in PageRows |-> "hidden"]
<1>1. fetches[f].pc # "none" /\ fetches' = [fetches EXCEPT ![f] = L!NoFetch] /\ crossed' = crossed \cup {"failed"}
      /\ UNCHANGED <<page, ours, served, filter, clicks>>
      /\ (shown' = shown \/ shown' = [rows |-> hidden, filter |-> fetches[f].filter])
  BY DEF L!FetchFails, L!Cross
<1>2. fetches[f] \in [pc : {"sent", "answered"}, filter : L!Filters, rows : ListRows]
  BY <1>0, <1>1 DEF ListTables, ListFetch, L!NoFetch
<1>3. hidden \in ListRows /\ Filtered(hidden, fetches[f].filter)
  BY DEF ListRows, Filtered
<1> HIDE DEF hidden
<1>4. shown' \in [rows : ListRows, filter : L!Filters] /\ Filtered(shown'.rows, shown'.filter)
  <2>1. CASE shown' = shown
    BY <1>0, <2>1 DEF ListTables, RowsFiltered
  <2>2. CASE shown' = [rows |-> hidden, filter |-> fetches[f].filter]
    BY <1>2, <1>3, <2>2
  <2> QED BY <1>1, <2>1, <2>2
<1>5. fetches' \in [Fetches -> ListFetch] /\ fetches'[f] = L!NoFetch /\ \A g \in Fetches : g # f => fetches'[g] = fetches[g]
  BY <1>0, <1>1, FetchEnds DEF Ends
<1>6. L!Filters' = L!Filters /\ ListFetch' = ListFetch /\ ListClick' = ListClick
  BY <1>1 DEF L!Filters, ListFetch, ListClick
<1>7. ListTables'
  BY <1>0, <1>1, <1>4, <1>5, <1>6 DEF ListTables
<1>8. RowsFiltered'
  BY <1>0, <1>4, <1>5 DEF RowsFiltered, L!NoFetch
<1>9. OneListFetch'
  BY <1>0, <1>1, <1>5 DEF OneListFetch, Under
<1>10. ListFresh' /\ FiltersAgree' /\ ClicksApart'
  BY <1>1 DEF ListFresh, FiltersAgree, ClicksApart, Calm
<1> QED BY <1>7, <1>8, <1>9, <1>10 DEF ListInv

(* The services accept what the page offers, but for an execution. *)
LEMMA OfferedHasEffect ==
  ASSUME ListTables, NEW act, NEW status, Accepted(act, status), act # "execute"
  PROVE  \E e \in L!Effects[page] : e[1] = act /\ e[2] = status
<1>0. page \in {"refunds", "splits", "disputes"}
  BY DEF ListTables
<1>1. CASE page = "refunds"
  BY <1>1 DEF Accepted, L!Buttons, L!RefundButtons, L!Effects
<1>2. CASE page = "splits"
  <2>1. /\ <<"create", "none", "PENDING">> \in L!Effects[page]
        /\ <<"retry", "FAILED", "EXECUTING">> \in L!Effects[page]
        /\ <<"cancel", "PENDING", "CANCELLED">> \in L!Effects[page]
        /\ <<"cancel", "FAILED", "CANCELLED">> \in L!Effects[page]
    BY <1>2 DEF L!Effects, L!SplitStatus
  <2>2. \/ act = "create" /\ status = "none"
        \/ act = "retry" /\ status = "FAILED"
        \/ act = "cancel" /\ status \in {"PENDING", "FAILED"}
    BY <1>2 DEF Accepted, L!Buttons, L!SplitButtons
  <2> QED BY <2>1, <2>2
<1>3. CASE page = "disputes"
  <2>1. L!Effects[page] = {<<"create", "none", "OPEN">>} \cup {<<"review", s, "UNDER_REVIEW">> : s \in {"OPEN", "UNDER_REVIEW", "WON"}}
    BY <1>3 DEF L!Effects
  <2>2. (act = "create" /\ status = "none") \/ (act = "review" /\ status = "OPEN")
    BY <1>3 DEF Accepted, L!Buttons, L!DisputeButtons
  <2>3. <<"create", "none", "OPEN">> \in L!Effects[page] /\ <<"review", "OPEN", "UNDER_REVIEW">> \in L!Effects[page]
    BY <2>1
  <2> QED BY <2>2, <2>3
<1> QED BY <1>0, <1>1, <1>2, <1>3

(* They leave a row with a status there is. *)
LEMMA EffectsAreStatuses ==
  ASSUME ListTables, NEW e \in L!Effects[page]
  PROVE  e[3] \in ListStatuses
<1>0. page \in {"refunds", "splits", "disputes"}
  BY DEF ListTables
<1>1. CASE page = "refunds"
  BY <1>1 DEF L!Effects, ListStatuses
<1>2. CASE page = "splits"
  BY <1>2 DEF L!Effects, L!SplitStatus, ListStatuses
<1>3. CASE page = "disputes"
  BY <1>3 DEF L!Effects, ListStatuses
<1> QED BY <1>0, <1>1, <1>2, <1>3

(* What the page offers. *)
LEMMA ButtonsAre ==
  ASSUME ListTables, NEW act, NEW status, <<act, status>> \in L!Buttons[page]
  PROVE  act \in ListActs /\ act # "create" /\ status \notin {"none", "hidden"}
<1>0. page \in {"refunds", "splits", "disputes"}
  BY DEF ListTables
<1> QED BY <1>0 DEF L!Buttons, L!RefundButtons, L!SplitButtons, L!DisputeButtons, ListActs

(* An action starts, under the filter of that moment. *)
Clicking(c, r, act) ==
  /\ clicks[c] = L!NoClick
  /\ clicks' = [clicks EXCEPT ![c] = [pc |-> "sent", row |-> r, act |-> act, filter |-> filter]]
  /\ UNCHANGED <<page, ours, served, filter, shown, fetches>>

(* It joins what is under way, if no other action on its row does and the
   server would accept it, but for what the history excuses. *)
LEMMA ClickStarts ==
  ASSUME ListInv, NEW c \in Clicks, NEW r \in PageRows, NEW act \in ListActs, Clicking(c, r, act),
         crossed \subseteq crossed',
         crossed' \subseteq {"filter while acting"} =>
           /\ Accepted(act, served[r])
           /\ \A d \in Clicks : clicks[d] # L!NoClick => clicks[d].row # r
  PROVE  ListInv'
<1>0. ListTables /\ RowsFiltered /\ OneListFetch /\ ListFresh /\ FiltersAgree /\ ClicksApart
  BY DEF ListInv
<1> DEFINE k == [pc |-> "sent", row |-> r, act |-> act, filter |-> filter]
<1>1. clicks[c] = L!NoClick /\ clicks' = [clicks EXCEPT ![c] = k] /\ UNCHANGED <<page, ours, served, filter, shown, fetches>>
  BY DEF Clicking
<1>2. k \in ListClick /\ k # L!NoClick /\ k.pc = "sent" /\ k.row = r /\ k.act = act /\ k.filter = filter
  BY <1>0 DEF ListClick, ListTables, L!NoClick
<1> HIDE DEF k
<1>3. clicks' \in [Clicks -> ListClick] /\ clicks'[c] = k /\ \A d \in Clicks : d # c => clicks'[d] = clicks[d]
  BY <1>0, <1>1, <1>2 DEF ListTables
<1>4. L!Filters' = L!Filters /\ ListFetch' = ListFetch /\ ListClick' = ListClick
  BY <1>1 DEF L!Filters, ListFetch, ListClick
<1>5. ListTables'
  BY <1>0, <1>1, <1>3, <1>4 DEF ListTables
<1>6. RowsFiltered'
  BY <1>0, <1>1 DEF RowsFiltered
<1>7. \A g \in Fetches : Under(g)' <=> Under(g)
  BY <1>1 DEF Under
<1>8. OneListFetch'
  BY <1>0, <1>7 DEF OneListFetch
<1>9. ListFresh'
  <2>1. Calm' => Calm
    BY DEF Calm
  <2>2. clicks[c].pc # "ok"
    <3>1. L!NoClick.pc = "none"
      BY DEF L!NoClick
    <3> QED BY <1>1, <3>1
  <2>3. (\E d \in Clicks : clicks[d].pc = "ok") => \E d \in Clicks : clicks'[d].pc = "ok"
    BY <1>3, <2>2
  <2>4. \A rs, s : L!Matching(rs, s)' = L!Matching(rs, s)
    BY DEF L!Matching
  <2> QED BY <1>0, <1>1, <1>7, <2>1, <2>3, <2>4 DEF ListFresh
<1>10. FiltersAgree'
  BY <1>0, <1>1, <1>2, <1>3, <1>7 DEF FiltersAgree
<1>11. ASSUME crossed' \subseteq {"filter while acting"}
       PROVE  /\ \A d, e \in Clicks : clicks'[d] # L!NoClick /\ clicks'[e] # L!NoClick /\ clicks'[d].row = clicks'[e].row => d = e
              /\ \A d \in Clicks : clicks'[d].pc = "sent" => Accepted(clicks'[d].act, served[clicks'[d].row])
              /\ \A d \in Clicks : clicks'[d].pc = "refused" => Excused(clicks'[d].act, clicks'[d].row)
  <2>1. crossed \subseteq {"filter while acting"}
    BY <1>11
  <2>2. /\ \A d, e \in Clicks : clicks[d] # L!NoClick /\ clicks[e] # L!NoClick /\ clicks[d].row = clicks[e].row => d = e
        /\ \A d \in Clicks : clicks[d].pc = "sent" => Accepted(clicks[d].act, served[clicks[d].row])
        /\ \A d \in Clicks : clicks[d].pc = "refused" => Excused(clicks[d].act, clicks[d].row)
    BY <1>0, <2>1 DEF ClicksApart
  <2>3. \A d \in Clicks : clicks[d] # L!NoClick => clicks[d].row # r
    BY <1>11
  <2>4. ASSUME NEW d \in Clicks, NEW e \in Clicks, clicks'[d] # L!NoClick, clicks'[e] # L!NoClick,
               clicks'[d].row = clicks'[e].row
        PROVE  d = e
    <3>1. CASE d # c /\ e # c
      BY <1>3, <2>2, <2>4, <3>1
    <3>2. CASE d = c /\ e # c
      BY <1>2, <1>3, <2>3, <2>4, <3>2
    <3>3. CASE e = c /\ d # c
      BY <1>2, <1>3, <2>3, <2>4, <3>3
    <3> QED BY <3>1, <3>2, <3>3
  <2>5. ASSUME NEW d \in Clicks
        PROVE  /\ clicks'[d].pc = "sent" => Accepted(clicks'[d].act, served[clicks'[d].row])
               /\ clicks'[d].pc = "refused" => Excused(clicks'[d].act, clicks'[d].row)
    <3>1. CASE d = c
      BY <1>2, <1>3, <1>11, <3>1
    <3>2. CASE d # c
      BY <1>3, <2>2, <3>2
    <3> QED BY <3>1, <3>2
  <2> QED BY <2>4, <2>5
<1>12. ClicksApart'
  BY <1>1, <1>11 DEF ClicksApart, Accepted, Excused
<1> QED BY <1>5, <1>6, <1>8, <1>9, <1>10, <1>12 DEF ListInv

(* A button of a row is pressed: unless something was under way the row is
   shown as the server has it. *)
LEMMA ClickList ==
  ASSUME ListInv, NEW c \in Clicks, NEW r \in PageRows, NEW act, L!Click(c, r, act)
  PROVE  ListInv'
<1>0. ListTables /\ ListFresh
  BY DEF ListInv
<1>1. clicks[c] = L!NoClick /\ <<act, shown.rows[r]>> \in L!Buttons[page] /\ Clicking(c, r, act)
      /\ crossed' = crossed \cup (IF L!Acting \/ L!Fetching THEN {"click while busy"} ELSE {})
  BY DEF L!Click, L!Cross, Clicking
<1>2. act \in ListActs /\ act # "create" /\ shown.rows[r] \notin {"none", "hidden"}
  BY <1>0, <1>1, ButtonsAre
<1>3. ASSUME crossed' \subseteq {"filter while acting"}
      PROVE  /\ Accepted(act, served[r])
             /\ \A d \in Clicks : clicks[d] # L!NoClick => clicks[d].row # r
  <2>1. "click while busy" \notin crossed'
    BY <1>3
  <2>2. ~L!Acting /\ ~L!Fetching
    BY <1>1, <2>1
  <2>3. Calm /\ (\A d \in Clicks : clicks[d] = L!NoClick) /\ \A f \in Fetches : ~Under(f)
    BY <1>1, <1>3, <2>2 DEF L!Acting, L!Fetching, Calm, Under
  <2>4. L!NoClick.pc # "ok"
    BY DEF L!NoClick
  <2>5. shown.rows = L!Matching(served, shown.filter)
    BY <1>0, <2>3, <2>4 DEF ListFresh
  <2>6. shown.rows[r] \in {"hidden", served[r]}
    BY <1>0, <2>5, MatchingRows DEF ListTables
  <2> QED BY <1>1, <1>2, <2>3, <2>6 DEF Accepted
<1>4. crossed \subseteq crossed'
  BY <1>1
<1> QED BY <1>1, <1>2, <1>3, <1>4, ClickStarts

(* A row is made: no other action is about it. *)
LEMMA CreateList ==
  ASSUME ListInv, NEW c \in Clicks, NEW r \in PageRows, L!Create(c, r)
  PROVE  ListInv'
<1>1. Clicking(c, r, "create") /\ crossed' = crossed /\ Accepted("create", served[r])
      /\ \A d \in Clicks : clicks[d] # L!NoClick => clicks[d].row # r
  BY DEF L!Create, Clicking, Accepted
<1>2. "create" \in ListActs
  BY DEF ListActs
<1> QED BY <1>1, <1>2, ClickStarts

(* The service takes an action, or refuses it. *)
LEMMA ServeList == ASSUME ListInv, NEW c \in Clicks, L!Serve(c) PROVE ListInv'
<1>0. ListTables /\ RowsFiltered /\ OneListFetch /\ ListFresh /\ FiltersAgree /\ ClicksApart
  BY DEF ListInv
<1> DEFINE old == clicks[c]
           mine == old.act \in {"retry", "cancel"} => old.row \in ours
           results == {e \in L!Effects[page] : e[1] = old.act /\ e[2] = served[old.row] /\ mine}
<1>1. old.pc = "sent" /\ UNCHANGED <<page, ours, filter, shown, fetches, crossed>>
  BY DEF L!Serve
<1>2. old \in [pc : {"sent", "ok", "refused"}, row : PageRows, act : ListActs, filter : L!Filters] /\ old # L!NoClick
  BY <1>0, <1>1 DEF ListTables, ListClick, L!NoClick
<1>3. \/ clicks' = [clicks EXCEPT ![c].pc = "ok"] /\ \E e \in results : served' = [served EXCEPT ![old.row] = e[3]]
      \/ clicks' = [clicks EXCEPT ![c].pc = "refused"] /\ served' = served /\ (results = {} \/ old.act \in {"retry", "create"})
  BY DEF L!Serve
<1>4. PICK pc \in {"ok", "refused"} :
        /\ clicks' = [clicks EXCEPT ![c].pc = pc]
        /\ pc = "ok" => \E e \in results : served' = [served EXCEPT ![old.row] = e[3]]
        /\ pc = "refused" => served' = served /\ (results = {} \/ old.act \in {"retry", "create"})
  BY <1>3
<1> DEFINE k == [old EXCEPT !.pc = pc]
<1>5. clicks' = [clicks EXCEPT ![c] = k]
  BY <1>4
<1>6. k \in ListClick /\ k # L!NoClick /\ k.pc = pc /\ k.row = old.row /\ k.act = old.act /\ k.filter = old.filter
  BY <1>2 DEF ListClick, L!NoClick
<1> HIDE DEF k, old
<1>7. clicks' \in [Clicks -> ListClick] /\ clicks'[c] = k /\ \A d \in Clicks : d # c => clicks'[d] = clicks[d]
  BY <1>0, <1>5, <1>6 DEF ListTables
<1>8. served' \in [PageRows -> ListStatuses] /\ \A r \in PageRows : r # old.row => served'[r] = served[r]
  <2>1. CASE pc = "ok"
    <3>1. PICK e \in L!Effects[page] : served' = [served EXCEPT ![old.row] = e[3]]
      BY <1>4, <2>1
    <3>2. e[3] \in ListStatuses
      BY <1>0, EffectsAreStatuses
    <3> DEFINE to == e[3]
    <3>3. served' = [served EXCEPT ![old.row] = to] /\ to \in ListStatuses
      BY <3>1, <3>2
    <3> HIDE DEF to
    <3> QED BY <1>0, <3>3 DEF ListTables
  <2>2. CASE pc = "refused"
    BY <1>0, <1>4, <2>2 DEF ListTables
  <2> QED BY <2>1, <2>2
<1>9. L!Filters' = L!Filters /\ ListFetch' = ListFetch /\ ListClick' = ListClick
  BY <1>1 DEF L!Filters, ListFetch, ListClick
<1>10. ListTables'
  BY <1>0, <1>1, <1>7, <1>8, <1>9 DEF ListTables
<1>11. RowsFiltered'
  BY <1>0, <1>1 DEF RowsFiltered
<1>12. \A g \in Fetches : Under(g)' <=> Under(g)
  BY <1>1 DEF Under
<1>13. OneListFetch'
  BY <1>0, <1>1, <1>12 DEF OneListFetch
<1>14. ListFresh'
  <2>1. CASE pc = "ok"
    BY <1>6, <1>7, <2>1 DEF ListFresh
  <2>2. CASE pc = "refused"
    <3>1. served' = served
      BY <1>4, <2>2
    <3>2. old.pc # "ok"
      BY <1>1 DEF old
    <3>3. (\E d \in Clicks : clicks[d].pc = "ok") => \E d \in Clicks : clicks'[d].pc = "ok"
      BY <1>7, <3>2 DEF old
    <3>4. \A rs, s : L!Matching(rs, s)' = L!Matching(rs, s)
      BY DEF L!Matching
    <3> QED BY <1>0, <1>1, <1>12, <3>1, <3>3, <3>4 DEF ListFresh, Calm
  <2> QED BY <2>1, <2>2
<1>15. FiltersAgree'
  <2>1. clicks[c] # L!NoClick /\ k.filter = clicks[c].filter
    BY <1>2, <1>6 DEF old
  <2>2. (\A d \in Clicks : clicks[d] # L!NoClick => clicks[d].filter = filter)
        => \A d \in Clicks : clicks'[d] # L!NoClick => clicks'[d].filter = filter
    BY <1>7, <2>1
  <2> QED BY <1>0, <1>1, <1>12, <2>2 DEF FiltersAgree
<1>16. ASSUME crossed \subseteq {"filter while acting"}
       PROVE  /\ \A d, e \in Clicks : clicks'[d] # L!NoClick /\ clicks'[e] # L!NoClick /\ clicks'[d].row = clicks'[e].row => d = e
              /\ \A d \in Clicks : clicks'[d].pc = "sent" => Accepted(clicks'[d].act, served'[clicks'[d].row])
              /\ \A d \in Clicks : clicks'[d].pc = "refused" => Excused(clicks'[d].act, clicks'[d].row)
  <2>1. /\ \A d, e \in Clicks : clicks[d] # L!NoClick /\ clicks[e] # L!NoClick /\ clicks[d].row = clicks[e].row => d = e
        /\ \A d \in Clicks : clicks[d].pc = "sent" => Accepted(clicks[d].act, served[clicks[d].row])
        /\ \A d \in Clicks : clicks[d].pc = "refused" => Excused(clicks[d].act, clicks[d].row)
    BY <1>0, <1>16 DEF ClicksApart
  <2>2. \A d, e \in Clicks : clicks'[d] # L!NoClick /\ clicks'[e] # L!NoClick /\ clicks'[d].row = clicks'[e].row => d = e
    BY <1>2, <1>6, <1>7, <2>1 DEF old
  <2>3. ASSUME NEW d \in Clicks, clicks'[d].pc = "sent" PROVE Accepted(clicks'[d].act, served'[clicks'[d].row])
    <3>1. d # c /\ clicks'[d] = clicks[d]
      BY <1>6, <1>7, <2>3
    <3>2. clicks[d] # L!NoClick
      BY <2>3, <3>1 DEF L!NoClick
    <3>3. clicks[d].row # old.row
      BY <1>2, <2>1, <3>1, <3>2 DEF old
    <3>4. clicks[d].row \in PageRows
      BY <1>0, <3>2 DEF ListTables, ListClick
    <3> QED BY <1>8, <2>1, <2>3, <3>1, <3>3, <3>4
  <2>4. ASSUME pc = "refused", ~ Excused(old.act, old.row) PROVE FALSE
    <3>1. Accepted(old.act, served[old.row])
      BY <1>1, <2>1 DEF old
    <3>2. old.act \notin {"create", "retry", "execute"} /\ mine
      BY <2>4 DEF Excused
    <3>3. \E e \in L!Effects[page] : e[1] = old.act /\ e[2] = served[old.row]
      BY <1>0, <3>1, <3>2, OfferedHasEffect
    <3> QED BY <1>4, <2>4, <3>2, <3>3
  <2> QED BY <1>6, <1>7, <2>1, <2>2, <2>3, <2>4
<1>17. ClicksApart'
  BY <1>1, <1>16 DEF ClicksApart, Accepted, Excused
<1> QED BY <1>10, <1>11, <1>13, <1>14, <1>15, <1>17 DEF ListInv

(* An action is over. *)
LEMMA ClickEnds ==
  ASSUME ListTables, NEW c \in Clicks, clicks' = [clicks EXCEPT ![c] = L!NoClick]
  PROVE  clicks' \in [Clicks -> ListClick] /\ clicks'[c] = L!NoClick /\ \A d \in Clicks : d # c => clicks'[d] = clicks[d]
BY DEF ListTables, ListClick

(* An action that went well fetches the list, a refused one does not. *)
LEMMA ClickedList == ASSUME ListInv, NEW c \in Clicks, L!Clicked(c) PROVE ListInv'
<1>0. ListTables /\ RowsFiltered /\ OneListFetch /\ ListFresh /\ FiltersAgree /\ ClicksApart
  BY DEF ListInv
<1>1. clicks' = [clicks EXCEPT ![c] = L!NoClick] /\ UNCHANGED <<page, ours, served, filter, shown>>
  BY DEF L!Clicked
<1>2. clicks' \in [Clicks -> ListClick] /\ clicks'[c] = L!NoClick /\ \A d \in Clicks : d # c => clicks'[d] = clicks[d]
  BY <1>0, <1>1, ClickEnds
<1>3. L!NoClick.pc = "none"
  BY DEF L!NoClick
<1>4. L!Filters' = L!Filters /\ ListFetch' = ListFetch /\ ListClick' = ListClick
  BY <1>1 DEF L!Filters, ListFetch, ListClick
<1>5. ASSUME crossed \subseteq crossed' PROVE ClicksApart'
  <2>1. crossed' \subseteq {"filter while acting"} => crossed \subseteq {"filter while acting"}
    BY <1>5
  <2> QED BY <1>0, <1>1, <1>2, <1>3, <2>1 DEF ClicksApart, Accepted, Excused
<1>6. CASE clicks[c].pc = "ok" /\ L!StartFetch(clicks[c].filter) /\ L!Cross(L!Racing)
  <2>1. clicks[c].filter \in L!Filters
    BY <1>0, <1>3, <1>6 DEF ListTables, ListClick
  <2>2. PICK f \in Fetches :
          /\ ~Under(f) /\ fetches' \in [Fetches -> ListFetch] /\ fetches'[f] # L!NoFetch
          /\ fetches'[f].pc = "sent" /\ fetches'[f].filter = clicks[c].filter
          /\ \A g \in Fetches : g # f => fetches'[g] = fetches[g]
    BY <1>0, <1>6, <2>1, FetchStarts DEF Starts
  <2>3. crossed' = crossed \cup L!Racing
    BY <1>6 DEF L!Cross
  <2>4. "two fetches" \notin crossed' => \A g \in Fetches : ~Under(g)
    BY <2>3 DEF L!Racing, L!Fetching, Under
  <2>5. ListTables'
    BY <1>0, <1>1, <1>2, <1>4, <2>2 DEF ListTables
  <2>6. RowsFiltered'
    BY <1>0, <1>1, <2>2 DEF RowsFiltered
  <2>7. OneListFetch'
    BY <2>2, <2>4 DEF OneListFetch, Under
  <2>8. ListFresh'
    BY <2>2 DEF ListFresh, Under
  <2>9. ASSUME crossed' \subseteq {"click while busy"}
        PROVE  /\ \A d \in Clicks : clicks'[d] # L!NoClick => clicks'[d].filter = filter
               /\ \A g \in Fetches : Under(g)' => fetches'[g].filter = filter
               /\ ~\A g \in Fetches : ~Under(g)'
    <3>1. crossed \subseteq {"click while busy"} /\ "two fetches" \notin crossed'
      BY <2>3, <2>9
    <3>2. clicks[c] # L!NoClick
      BY <1>3, <1>6
    <3>3. \A g \in Fetches : Under(g)' => g = f
      BY <2>2, <2>4, <3>1 DEF Under
    <3> QED BY <1>0, <1>2, <2>2, <3>1, <3>2, <3>3 DEF FiltersAgree, Under
  <2>10. FiltersAgree'
    BY <1>1, <2>9 DEF FiltersAgree
  <2>11. ClicksApart'
    BY <1>5, <2>3
  <2> QED BY <2>5, <2>6, <2>7, <2>8, <2>10, <2>11 DEF ListInv
<1>7. CASE clicks[c].pc = "refused" /\ UNCHANGED <<fetches, crossed>>
  <2>1. ListTables'
    BY <1>0, <1>1, <1>2, <1>4, <1>7 DEF ListTables
  <2>2. RowsFiltered' /\ OneListFetch'
    BY <1>0, <1>1, <1>7 DEF RowsFiltered, OneListFetch, Under
  <2>3. (\E d \in Clicks : clicks[d].pc = "ok") => \E d \in Clicks : clicks'[d].pc = "ok"
    BY <1>2, <1>7
  <2>4. \A rs, s : L!Matching(rs, s)' = L!Matching(rs, s)
    BY DEF L!Matching
  <2>5. ListFresh'
    BY <1>0, <1>1, <1>7, <2>3, <2>4 DEF ListFresh, Calm, Under
  <2>6. FiltersAgree'
    BY <1>0, <1>1, <1>2, <1>7 DEF FiltersAgree, Under
  <2>7. ClicksApart'
    BY <1>5, <1>7
  <2> QED BY <2>1, <2>2, <2>5, <2>6, <2>7 DEF ListInv
<1> QED BY <1>6, <1>7 DEF L!Clicked

(* A service throws in the middle of processing a refund. *)
LEMMA ThrowsList == ASSUME ListInv, NEW c \in Clicks, L!ProcessThrows(c) PROVE ListInv'
<1>0. ListTables /\ RowsFiltered /\ OneListFetch
  BY DEF ListInv
<1> DEFINE r == clicks[c].row
<1>1. clicks' = [clicks EXCEPT ![c] = L!NoClick] /\ crossed' = crossed \cup {"failed"}
      /\ UNCHANGED <<page, ours, filter, shown, fetches>>
      /\ served' = [served EXCEPT ![r] = "PROCESSING"]
  BY DEF L!ProcessThrows, L!Cross
<1> HIDE DEF r
<1>2. clicks' \in [Clicks -> ListClick]
  BY <1>0, <1>1, ClickEnds
<1>3. L!Filters' = L!Filters /\ ListFetch' = ListFetch /\ ListClick' = ListClick
  BY <1>1 DEF L!Filters, ListFetch, ListClick
<1>4. served' \in [PageRows -> ListStatuses]
  BY <1>0, <1>1 DEF ListTables, ListStatuses
<1>5. ListTables' /\ RowsFiltered' /\ OneListFetch'
  BY <1>0, <1>1, <1>2, <1>3, <1>4 DEF ListTables, RowsFiltered, OneListFetch, Under
<1>6. ListFresh' /\ FiltersAgree' /\ ClicksApart'
  BY <1>1 DEF ListFresh, FiltersAgree, ClicksApart, Calm
<1> QED BY <1>5, <1>6 DEF ListInv

(* An answer is lost. *)
LEMMA LostList == ASSUME ListInv, NEW c \in Clicks, L!AnswerLost(c) PROVE ListInv'
<1>0. ListTables /\ RowsFiltered /\ OneListFetch
  BY DEF ListInv
<1>1. clicks' = [clicks EXCEPT ![c] = L!NoClick] /\ crossed' = crossed \cup {"failed"}
      /\ UNCHANGED <<page, ours, served, filter, shown, fetches>>
  BY DEF L!AnswerLost, L!Cross
<1>2. clicks' \in [Clicks -> ListClick]
  BY <1>0, <1>1, ClickEnds
<1>3. L!Filters' = L!Filters /\ ListFetch' = ListFetch /\ ListClick' = ListClick
  BY <1>1 DEF L!Filters, ListFetch, ListClick
<1>4. ListTables' /\ RowsFiltered' /\ OneListFetch'
  BY <1>0, <1>1, <1>2, <1>3 DEF ListTables, RowsFiltered, OneListFetch, Under
<1>5. ListFresh' /\ FiltersAgree' /\ ClicksApart'
  BY <1>1 DEF ListFresh, FiltersAgree, ClicksApart, Calm
<1> QED BY <1>4, <1>5 DEF ListInv

(* The server's rows change elsewhere. *)
LEMMA ChangeList == ASSUME ListInv, NEW r \in PageRows, L!ServerChanges(r) PROVE ListInv'
<1>0. ListTables /\ RowsFiltered /\ OneListFetch
  BY DEF ListInv
<1>1. PICK e \in L!Elsewhere[page] : served' = [served EXCEPT ![r] = e[2]]
  BY DEF L!ServerChanges
<1>2. crossed' = crossed \cup {"elsewhere"} /\ UNCHANGED <<page, ours, filter, shown, fetches, clicks>>
  BY DEF L!ServerChanges, L!Cross
<1>3. e[2] \in ListStatuses
  BY <1>0 DEF ListTables, L!Elsewhere, ListStatuses
<1> DEFINE to == e[2]
<1>4. served' = [served EXCEPT ![r] = to] /\ to \in ListStatuses
  BY <1>1, <1>3
<1> HIDE DEF to
<1>5. served' \in [PageRows -> ListStatuses]
  BY <1>0, <1>4 DEF ListTables
<1>6. L!Filters' = L!Filters /\ ListFetch' = ListFetch /\ ListClick' = ListClick
  BY <1>2 DEF L!Filters, ListFetch, ListClick
<1>7. ListTables' /\ RowsFiltered' /\ OneListFetch'
  BY <1>0, <1>2, <1>5, <1>6 DEF ListTables, RowsFiltered, OneListFetch, Under
<1>8. ListFresh' /\ FiltersAgree' /\ ClicksApart'
  BY <1>2 DEF ListFresh, FiltersAgree, ClicksApart, Calm
<1> QED BY <1>7, <1>8 DEF ListInv

(* Every step of the list, its server and its answers keeps the invariant. *)
LEMMA NextList == ListInv /\ L!Next => ListInv'
<1> SUFFICES ASSUME ListInv, L!Next PROVE ListInv'
  OBVIOUS
<1>1. CASE \E status \in L!Filters : L!SetFilter(status)
  BY <1>1, FilterList
<1>2. CASE \E f \in Fetches : L!Answer(f) \/ L!Arrive(f) \/ L!FetchFails(f)
  BY <1>2, AnswerList, ArriveList, FailList
<1>3. CASE \E c \in Clicks : L!Serve(c) \/ L!ProcessThrows(c) \/ L!Clicked(c) \/ L!AnswerLost(c)
  BY <1>3, ServeList, ThrowsList, ClickedList, LostList
<1>4. CASE \E c \in Clicks, r \in PageRows : L!Create(c, r)
  BY <1>4, CreateList
<1>6. CASE \E c \in Clicks, r \in PageRows, act \in ListActs : L!Click(c, r, act)
  BY <1>6, ClickList
<1>5. CASE \E r \in PageRows : L!ServerChanges(r)
  BY <1>5, ChangeList
<1> QED BY <1>1, <1>2, <1>3, <1>4, <1>5, <1>6 DEF L!Next, ListActs

(* A step of another part leaves it as it is. *)
LEMMA RestingList == ListInv /\ UNCHANGED ofListPages => ListInv'
<1> SUFFICES ASSUME ListInv, UNCHANGED ofListPages PROVE ListInv'
  OBVIOUS
<1>1. UNCHANGED <<page, ours, served, filter, shown, fetches, clicks, crossed>>
  BY DEF ofListPages
<1>2. L!Filters' = L!Filters /\ ListFetch' = ListFetch /\ ListClick' = ListClick
  BY <1>1 DEF L!Filters, ListFetch, ListClick
<1>3. ListTables' /\ RowsFiltered' /\ OneListFetch'
  BY <1>1, <1>2 DEF ListInv, ListTables, RowsFiltered, Filtered, OneListFetch, Under
<1>4. ListFresh'
  <2>1. \A rs, s : L!Matching(rs, s)' = L!Matching(rs, s)
    BY DEF L!Matching
  <2>2. Calm' <=> Calm
    BY <1>1 DEF Calm
  <2>3. \A f \in Fetches : Under(f)' <=> Under(f)
    BY <1>1 DEF Under
  <2> QED BY <1>1, <2>1, <2>2, <2>3 DEF ListInv, ListFresh
<1>5. FiltersAgree'
  BY <1>1 DEF ListInv, FiltersAgree, Under, Calm
<1>6. ClicksApart'
  BY <1>1 DEF ListInv, ClicksApart, Excused, Accepted, L!Effects
<1> QED BY <1>3, <1>4, <1>5, <1>6 DEF ListInv

(* The invariant gives the page's properties and types. *)
LEMMA ListImplies == ListInv => L!ListFollowsServer /\ L!OfferedIsAccepted /\ L!TypeOK
<1> SUFFICES ASSUME ListInv PROVE L!ListFollowsServer /\ L!OfferedIsAccepted /\ L!TypeOK
  OBVIOUS
<1>0. ListTables /\ RowsFiltered /\ ListFresh /\ FiltersAgree /\ ClicksApart
  BY DEF ListInv
<1>1. L!OfferedIsAccepted
  BY <1>0 DEF ClicksApart, Excused, L!OfferedIsAccepted
<1>2. L!NoClick.pc # "ok"
  BY DEF L!NoClick
<1>3. ASSUME ~L!Fetching, ~L!Acting, crossed \subseteq {"click while busy"}
      PROVE  shown.filter = filter /\ shown.rows = L!Matching(served, filter)
  <2>1. Calm /\ (\A c \in Clicks : clicks[c] = L!NoClick) /\ \A f \in Fetches : ~Under(f)
    BY <1>3 DEF L!Fetching, L!Acting, Under, Calm
  <2>2. shown.filter = filter
    BY <1>0, <1>3, <2>1 DEF FiltersAgree
  <2> QED BY <1>0, <1>2, <2>1, <2>2 DEF ListFresh
<1>4. L!ListFollowsServer
  BY <1>3 DEF L!ListFollowsServer
<1>5. \A f \in Fetches : fetches[f].pc \in {"none", "sent", "answered"}
  BY <1>0 DEF ListTables, ListFetch, L!NoFetch
<1>6. \A c \in Clicks : clicks[c].pc \in {"none", "sent", "ok", "refused"}
  BY <1>0 DEF ListTables, ListClick, L!NoClick
<1>7. L!TypeOK
  BY <1>0, <1>5, <1>6 DEF ListTables, RowsFiltered, Filtered, L!TypeOK
<1> QED BY <1>1, <1>4, <1>7

(***************************************************************************)
(* The dialog.  An upload goes on with the dispute as it was selected, so   *)
(* what it will show is bounded by what is stored already; and while the    *)
(* user waits for each answer, at most one request can change the dispute.  *)
(***************************************************************************)
DialogRow == [status : D!Statuses, count : Nat]
DialogView == [of : Disputes, status : D!Statuses, count : Nat]
DialogGet == [of : Disputes, pc : {"sent", "answered"}, count : Nat]
DialogUpload == [of : Disputes, was : DialogView, pc : {"sent", "ok"}]
DialogUpdate == [of : Disputes, status : D!Statuses, closes : BOOLEAN, pc : {"sent", "ok"}]
DialogTables ==
  /\ stored \in [Disputes -> DialogRow] /\ rows \in [Disputes -> DialogRow]
  /\ selected \in {D!None} \cup DialogView
  /\ files \in [of : Disputes \cup {"none"}, count : Nat]
  /\ evidenceGets \in [EvidenceFetches -> {D!None} \cup DialogGet]
  /\ uploads \in [Uploads -> {D!None} \cup DialogUpload]
  /\ updates \in [Updates -> {D!None} \cup DialogUpdate]
  /\ uploadOpen \in BOOLEAN /\ rowsOld \in BOOLEAN

(* Nothing shown, or about to be, counts more files than are stored. *)
CountsFollow ==
  /\ \A d \in Disputes : rows[d].count <= stored[d].count
  /\ selected # D!None => selected.count <= stored[selected.of].count
  /\ \A u \in Uploads : uploads[u] # D!None =>
       /\ uploads[u].was.of = uploads[u].of
       /\ uploads[u].was.count <= stored[uploads[u].of].count
       /\ uploads[u].pc = "ok" => uploads[u].was.count + 1 <= stored[uploads[u].of].count

(* The evidence shown is the open dispute's, or on its way. *)
NotRaced == overlaps \cap {"two fetches", "failed"} = {}
EvidenceFollows ==
  NotRaced =>
    /\ \A e, g \in EvidenceFetches : evidenceGets[e] # D!None /\ evidenceGets[g] # D!None => e = g
    /\ selected # D!None =>
         \/ \E e \in EvidenceFetches : evidenceGets[e] # D!None /\ evidenceGets[e].of = selected.of
         \/ (\A e \in EvidenceFetches : evidenceGets[e] = D!None) /\ files.of = selected.of

(* One request at a time, which finds the dispute as the dialog showed it. *)
OneSending ==
  /\ \A u, v \in Uploads : uploads[u] # D!None /\ uploads[v] # D!None => u = v
  /\ \A w, v \in Updates : updates[w] # D!None /\ updates[v] # D!None => w = v
  /\ \A u \in Uploads, w \in Updates : uploads[u] = D!None \/ updates[w] = D!None
StatusFollows ==
  /\ \A w \in Updates : updates[w] # D!None =>
       /\ updates[w].pc = "sent" => <<stored[updates[w].of].status, updates[w].status>> \in D!Steps
       /\ updates[w].closes = FALSE => selected = D!None
  /\ selected # D!None =>
       \/ selected.status = stored[selected.of].status
       \/ \E w \in Updates : updates[w] # D!None /\ updates[w].pc = "ok" /\ updates[w].closes = TRUE
  /\ \A u \in Uploads : uploads[u] # D!None => uploads[u].was.status = stored[uploads[u].of].status
StepsFollow == overlaps = {} => OneSending /\ StatusFollows
DialogInv == DialogTables /\ CountsFollow /\ EvidenceFollows /\ StepsFollow

(* No dispute is named as none. *)
LEMMA NoneApart ==
  /\ D!None \notin DialogView /\ D!None \notin DialogGet
  /\ D!None \notin DialogUpload /\ D!None \notin DialogUpdate
<1>1. D!None.of \notin Disputes
  BY DisputesAssumption DEF D!None
<1> QED BY <1>1 DEF DialogView, DialogGet, DialogUpload, DialogUpdate

(* The steps are between statuses, and the first of them opens a review. *)
LEMMA StatusesAre ==
  /\ {"OPEN", "RESPONDING", "UNDER_REVIEW"} \subseteq D!Statuses
  /\ <<"OPEN", "UNDER_REVIEW">> \in D!Steps
BY DEF D!Statuses, D!Steps

(* At first nothing is selected and nothing is under way. *)
LEMMA InitDialog == D!Init => DialogInv
<1> SUFFICES ASSUME D!Init PROVE DialogInv
  OBVIOUS
<1>1. selected = D!None /\ (\A e \in EvidenceFetches : evidenceGets[e] = D!None)
      /\ (\A u \in Uploads : uploads[u] = D!None) /\ (\A w \in Updates : updates[w] = D!None)
      /\ evidenceGets \in [EvidenceFetches -> {D!None} \cup DialogGet]
      /\ uploads \in [Uploads -> {D!None} \cup DialogUpload]
      /\ updates \in [Updates -> {D!None} \cup DialogUpdate]
  BY DEF D!Init
<1>2. stored \in [Disputes -> DialogRow] /\ rows = stored
  BY StatusesAre DEF D!Init, DialogRow
<1>3. files \in [of : Disputes \cup {"none"}, count : Nat] /\ uploadOpen \in BOOLEAN /\ rowsOld \in BOOLEAN
  BY DEF D!Init
<1>4. \A d \in Disputes : stored[d].count \in Nat
  BY <1>2 DEF DialogRow
<1>5. DialogTables
  BY <1>1, <1>2, <1>3 DEF DialogTables
<1>6. CountsFollow
  BY <1>1, <1>2, <1>4 DEF CountsFollow
<1>7. EvidenceFollows /\ StepsFollow
  BY <1>1 DEF EvidenceFollows, StepsFollow, OneSending, StatusFollows
<1> QED BY <1>5, <1>6, <1>7 DEF DialogInv

(* Evidence that is fetched: for this dispute, in an empty place. *)
Gets(d) ==
  \E e \in EvidenceFetches :
    /\ evidenceGets[e] = D!None
    /\ evidenceGets' \in [EvidenceFetches -> {D!None} \cup DialogGet]
    /\ evidenceGets'[e] # D!None /\ evidenceGets'[e].of = d
    /\ \A g \in EvidenceFetches : g # e => evidenceGets'[g] = evidenceGets[g]

(* GetEvidence fetches it. *)
LEMMA GetsEvidence ==
  ASSUME DialogTables, NEW d \in Disputes, D!GetEvidence(d)
  PROVE  Gets(d)
<1> DEFINE g == [of |-> d, pc |-> "sent", count |-> 0]
<1>1. PICK e \in EvidenceFetches : evidenceGets[e] = D!None /\ evidenceGets' = [evidenceGets EXCEPT ![e] = g]
  BY DEF D!GetEvidence
<1>2. g \in DialogGet /\ g.of = d
  BY DEF DialogGet
<1> HIDE DEF g
<1>3. g # D!None
  BY <1>2, NoneApart
<1> QED BY <1>1, <1>2, <1>3 DEF Gets, DialogTables

(* The dispute whose evidence is fetched is the one that is shown. *)
LEMMA GotFollows ==
  ASSUME EvidenceFollows, NEW d \in Disputes, Gets(d), overlaps \cup D!Racing \subseteq overlaps', selected'.of = d
  PROVE  EvidenceFollows'
<1> SUFFICES ASSUME NotRaced'
             PROVE  /\ \A e, g \in EvidenceFetches : evidenceGets'[e] # D!None /\ evidenceGets'[g] # D!None => e = g
                    /\ \E e \in EvidenceFetches : evidenceGets'[e] # D!None /\ evidenceGets'[e].of = selected'.of
  BY DEF EvidenceFollows
<1>1. ~D!Getting
  BY DEF NotRaced, D!Racing
<1>2. \A e \in EvidenceFetches : evidenceGets[e] = D!None
  BY <1>1 DEF D!Getting
<1> QED BY <1>2 DEF Gets

(* The dialog opens. *)
LEMMA ViewDialog == ASSUME DialogInv, NEW d \in Disputes, D!View(d) PROVE DialogInv'
<1>0. DialogTables /\ CountsFollow /\ EvidenceFollows /\ StepsFollow
  BY DEF DialogInv
<1>1. selected = D!None /\ selected' = D!Row(d) /\ D!GetEvidence(d)
      /\ UNCHANGED <<stored, rows, rowsOld, files, uploads, updates, uploadOpen>>
  BY DEF D!View
<1>2. overlaps \cup D!Racing \subseteq overlaps' /\ D!Busy \subseteq overlaps'
      /\ (rows[d].status # stored[d].status => "old row" \in overlaps')
  BY DEF D!View
<1>3. Gets(d)
  BY <1>0, <1>1, GetsEvidence
<1>4. rows[d].status \in D!Statuses /\ rows[d].count \in Nat /\ rows[d].count <= stored[d].count
  BY <1>0 DEF DialogTables, DialogRow, CountsFollow
<1>5. selected' \in DialogView /\ selected'.of = d /\ selected'.status = rows[d].status /\ selected'.count = rows[d].count
  BY <1>1, <1>4 DEF D!Row, DialogView
<1>6. DialogTables'
  BY <1>0, <1>1, <1>3, <1>5 DEF DialogTables, Gets
<1>7. CountsFollow'
  BY <1>0, <1>1, <1>4, <1>5 DEF CountsFollow
<1>8. EvidenceFollows'
  BY <1>0, <1>2, <1>3, <1>5, GotFollows
<1>9. StepsFollow'
  <2> SUFFICES ASSUME overlaps' = {} PROVE OneSending' /\ StatusFollows'
    BY DEF StepsFollow
  <2>1. overlaps = {} /\ ~D!Sending /\ rows[d].status = stored[d].status
    BY <1>2 DEF D!Busy
  <2>2. (\A u \in Uploads : uploads[u] = D!None) /\ \A w \in Updates : updates[w] = D!None
    BY <2>1 DEF D!Sending
  <2> QED BY <1>1, <1>5, <2>1, <2>2 DEF OneSending, StatusFollows
<1> QED BY <1>6, <1>7, <1>8, <1>9 DEF DialogInv

(* It closes. *)
LEMMA CloseDialogs == ASSUME DialogInv, D!CloseDialog PROVE DialogInv'
<1>0. DialogTables /\ CountsFollow /\ EvidenceFollows /\ StepsFollow
  BY DEF DialogInv
<1>1. selected' = D!None
      /\ UNCHANGED <<stored, rows, rowsOld, files, evidenceGets, uploads, updates, uploadOpen, overlaps>>
  BY DEF D!CloseDialog
<1>2. DialogTables' /\ CountsFollow'
  BY <1>0, <1>1 DEF DialogTables, CountsFollow
<1>3. EvidenceFollows'
  BY <1>0, <1>1 DEF EvidenceFollows, NotRaced
<1>4. StepsFollow'
  BY <1>0, <1>1 DEF StepsFollow, OneSending, StatusFollows
<1> QED BY <1>2, <1>3, <1>4 DEF DialogInv

(* The form for uploads opens or closes. *)
LEMMA ToggleDialog == ASSUME DialogInv, D!ToggleUpload PROVE DialogInv'
<1>0. DialogTables /\ CountsFollow /\ EvidenceFollows /\ StepsFollow
  BY DEF DialogInv
<1>1. uploadOpen' = (~uploadOpen)
      /\ UNCHANGED <<stored, rows, rowsOld, selected, files, evidenceGets, uploads, updates, overlaps>>
  BY DEF D!ToggleUpload
<1>2. DialogTables' /\ CountsFollow'
  BY <1>0, <1>1 DEF DialogTables, CountsFollow
<1>3. EvidenceFollows'
  BY <1>0, <1>1 DEF EvidenceFollows, NotRaced
<1>4. StepsFollow'
  BY <1>0, <1>1 DEF StepsFollow, OneSending, StatusFollows
<1> QED BY <1>2, <1>3, <1>4 DEF DialogInv

(* The rows arrive. *)
LEMMA RowsDialog == ASSUME DialogInv, D!RowsArrive PROVE DialogInv'
<1>0. DialogTables /\ CountsFollow /\ EvidenceFollows /\ StepsFollow
  BY DEF DialogInv
<1>1. rows' = stored /\ rowsOld' = FALSE
      /\ UNCHANGED <<stored, selected, files, evidenceGets, uploads, updates, uploadOpen, overlaps>>
  BY DEF D!RowsArrive
<1>2. \A d \in Disputes : stored[d].count \in Nat
  BY <1>0 DEF DialogTables, DialogRow
<1>3. DialogTables'
  BY <1>0, <1>1 DEF DialogTables
<1>4. \A d \in Disputes : rows'[d].count <= stored'[d].count
  BY <1>1, <1>2
<1>5. CountsFollow'
  BY <1>0, <1>1, <1>4 DEF CountsFollow
<1>6. EvidenceFollows'
  BY <1>0, <1>1 DEF EvidenceFollows, NotRaced
<1>7. StepsFollow'
  BY <1>0, <1>1 DEF StepsFollow, OneSending, StatusFollows
<1> QED BY <1>3, <1>5, <1>6, <1>7 DEF DialogInv

(* The server answers with the evidence it has. *)
LEMMA AnswerDialog == ASSUME DialogInv, NEW e \in EvidenceFetches, D!AnswerEvidence(e) PROVE DialogInv'
<1>0. DialogTables /\ CountsFollow /\ EvidenceFollows /\ StepsFollow
  BY DEF DialogInv
<1> DEFINE n == stored[evidenceGets[e].of].count
           a == [evidenceGets[e] EXCEPT !.pc = "answered", !.count = n]
<1>1. evidenceGets[e] # D!None /\ evidenceGets' = [evidenceGets EXCEPT ![e] = a]
      /\ UNCHANGED <<stored, rows, rowsOld, selected, files, uploads, updates, uploadOpen, overlaps>>
  BY <1>0 DEF D!AnswerEvidence, DialogTables
<1>2. evidenceGets[e] \in DialogGet
  BY <1>0, <1>1 DEF DialogTables
<1>3. n \in Nat
  BY <1>0, <1>2 DEF DialogTables, DialogRow, DialogGet
<1>4. a \in DialogGet /\ a.of = evidenceGets[e].of
  <2> HIDE DEF n
  <2> QED BY <1>2, <1>3 DEF DialogGet
<1> HIDE DEF a
<1>5. a # D!None
  BY <1>4, NoneApart
<1>6. evidenceGets' \in [EvidenceFetches -> {D!None} \cup DialogGet]
      /\ \A g \in EvidenceFetches : (evidenceGets'[g] = D!None <=> evidenceGets[g] = D!None)
                                    /\ evidenceGets'[g].of = evidenceGets[g].of
  BY <1>0, <1>1, <1>4, <1>5 DEF DialogTables
<1>7. DialogTables' /\ CountsFollow'
  BY <1>0, <1>1, <1>6 DEF DialogTables, CountsFollow
<1>8. EvidenceFollows'
  BY <1>0, <1>1, <1>6 DEF EvidenceFollows, NotRaced
<1>9. StepsFollow'
  BY <1>0, <1>1 DEF StepsFollow, OneSending, StatusFollows
<1> QED BY <1>7, <1>8, <1>9 DEF DialogInv

(* It arrives, and is shown. *)
LEMMA ArriveDialog == ASSUME DialogInv, NEW e \in EvidenceFetches, D!EvidenceArrives(e) PROVE DialogInv'
<1>0. DialogTables /\ CountsFollow /\ EvidenceFollows /\ StepsFollow
  BY DEF DialogInv
<1>1. evidenceGets[e] # D!None /\ evidenceGets' = [evidenceGets EXCEPT ![e] = D!None]
      /\ files' = [of |-> evidenceGets[e].of, count |-> evidenceGets[e].count]
      /\ UNCHANGED <<stored, rows, rowsOld, selected, uploads, updates, uploadOpen, overlaps>>
  BY DEF D!EvidenceArrives
<1>2. evidenceGets[e] \in DialogGet
  BY <1>0, <1>1 DEF DialogTables
<1>3. files' \in [of : Disputes \cup {"none"}, count : Nat] /\ files'.of = evidenceGets[e].of
  BY <1>1, <1>2 DEF DialogGet
<1>4. evidenceGets' \in [EvidenceFetches -> {D!None} \cup DialogGet] /\ evidenceGets'[e] = D!None
      /\ \A g \in EvidenceFetches : g # e => evidenceGets'[g] = evidenceGets[g]
  BY <1>0, <1>1 DEF DialogTables
<1>5. DialogTables' /\ CountsFollow'
  BY <1>0, <1>1, <1>3, <1>4 DEF DialogTables, CountsFollow
<1>6. EvidenceFollows'
  BY <1>0, <1>1, <1>3, <1>4 DEF EvidenceFollows, NotRaced
<1>7. StepsFollow'
  BY <1>0, <1>1 DEF StepsFollow, OneSending, StatusFollows
<1> QED BY <1>5, <1>6, <1>7 DEF DialogInv

(* It fails: the history excuses what is shown then. *)
LEMMA FailDialog == ASSUME DialogInv, NEW e \in EvidenceFetches, D!EvidenceFails(e) PROVE DialogInv'
<1>0. DialogTables /\ CountsFollow /\ EvidenceFollows /\ StepsFollow
  BY DEF DialogInv
<1>1. evidenceGets' = [evidenceGets EXCEPT ![e] = D!None] /\ "failed" \in overlaps'
      /\ UNCHANGED <<stored, rows, rowsOld, selected, files, uploads, updates, uploadOpen>>
  BY DEF D!EvidenceFails
<1>2. evidenceGets' \in [EvidenceFetches -> {D!None} \cup DialogGet]
  BY <1>0, <1>1 DEF DialogTables
<1>3. DialogTables' /\ CountsFollow'
  BY <1>0, <1>1, <1>2 DEF DialogTables, CountsFollow
<1>4. EvidenceFollows' /\ StepsFollow'
  BY <1>1 DEF EvidenceFollows, NotRaced, StepsFollow
<1> QED BY <1>3, <1>4 DEF DialogInv

(* An upload begins, with the dispute as it is selected. *)
LEMMA UploadDialog == ASSUME DialogInv, NEW u \in Uploads, D!Upload(u) PROVE DialogInv'
<1>0. DialogTables /\ CountsFollow /\ EvidenceFollows /\ StepsFollow
  BY DEF DialogInv
<1> DEFINE new == [of |-> selected.of, was |-> selected, pc |-> "sent"]
<1>1. selected # D!None /\ uploads[u] = D!None /\ uploads' = [uploads EXCEPT ![u] = new]
      /\ overlaps' = overlaps \cup D!Busy
      /\ UNCHANGED <<stored, rows, rowsOld, selected, files, evidenceGets, updates, uploadOpen>>
  BY DEF D!Upload
<1>2. selected \in DialogView
  BY <1>0, <1>1 DEF DialogTables
<1>3. new \in DialogUpload /\ new.of = selected.of /\ new.was = selected /\ new.pc = "sent"
  BY <1>2 DEF DialogUpload, DialogView
<1> HIDE DEF new
<1>4. uploads' \in [Uploads -> {D!None} \cup DialogUpload] /\ uploads'[u] = new
      /\ \A v \in Uploads : v # u => uploads'[v] = uploads[v]
  BY <1>0, <1>1, <1>3 DEF DialogTables
<1>5. DialogTables'
  BY <1>0, <1>1, <1>4 DEF DialogTables
<1>6. CountsFollow'
  BY <1>0, <1>1, <1>3, <1>4 DEF CountsFollow
<1>7. EvidenceFollows'
  BY <1>0, <1>1 DEF EvidenceFollows, NotRaced
<1>8. StepsFollow'
  <2> SUFFICES ASSUME overlaps' = {} PROVE OneSending' /\ StatusFollows'
    BY DEF StepsFollow
  <2>1. overlaps = {} /\ ~D!Sending
    BY <1>1 DEF D!Busy
  <2>2. (\A v \in Uploads : uploads[v] = D!None) /\ \A w \in Updates : updates[w] = D!None
    BY <2>1 DEF D!Sending
  <2>3. StatusFollows
    BY <1>0, <2>1 DEF StepsFollow
  <2>4. selected.status = stored[selected.of].status
    BY <1>1, <2>2, <2>3 DEF StatusFollows
  <2> QED BY <1>1, <1>3, <1>4, <2>2, <2>3, <2>4 DEF OneSending, StatusFollows
<1> QED BY <1>5, <1>6, <1>7, <1>8 DEF DialogInv

(* The server stores what is uploaded. *)
LEMMA StoreDialog == ASSUME DialogInv, NEW u \in Uploads, D!StoreEvidence(u) PROVE DialogInv'
<1>0. DialogTables /\ CountsFollow /\ EvidenceFollows /\ StepsFollow
  BY DEF DialogInv
<1> DEFINE d == uploads[u].of
           a == [uploads[u] EXCEPT !.pc = "ok"]
           more == [stored[d] EXCEPT !.count = @ + 1]
<1>1. uploads[u] # D!None /\ uploads' = [uploads EXCEPT ![u] = a] /\ stored' = [stored EXCEPT ![d] = more]
      /\ UNCHANGED <<rows, rowsOld, selected, files, evidenceGets, updates, uploadOpen, overlaps>>
  BY <1>0 DEF D!StoreEvidence, DialogTables
<1>2. uploads[u] \in DialogUpload
  BY <1>0, <1>1 DEF DialogTables
<1>3. d \in Disputes /\ uploads[u].was \in DialogView
  BY <1>2 DEF DialogUpload
<1>4. a \in DialogUpload /\ a.of = d /\ a.was = uploads[u].was
  BY <1>2 DEF DialogUpload
<1> HIDE DEF a
<1>5. a # D!None
  BY <1>4, NoneApart
<1> HIDE DEF d
<1>6. stored[d] \in DialogRow
  BY <1>0, <1>3 DEF DialogTables
<1>7. more \in DialogRow /\ more.status = stored[d].status /\ more.count = stored[d].count + 1
  BY <1>6 DEF DialogRow
<1> HIDE DEF more
<1>8. stored' \in [Disputes -> DialogRow] /\ stored'[d] = more /\ \A x \in Disputes : x # d => stored'[x] = stored[x]
  BY <1>0, <1>1, <1>3, <1>7 DEF DialogTables
<1>9. \A x \in Disputes : stored[x].count \in Nat
  BY <1>0 DEF DialogTables, DialogRow
<1>10. \A x \in Disputes : stored'[x].status = stored[x].status
  BY <1>3, <1>7, <1>8
<1>11. \A x \in Disputes, n \in Nat : n <= stored[x].count => n <= stored'[x].count
  BY <1>3, <1>7, <1>8, <1>9
<1>12. uploads' \in [Uploads -> {D!None} \cup DialogUpload] /\ uploads'[u] = a
       /\ \A v \in Uploads : v # u => uploads'[v] = uploads[v]
  BY <1>0, <1>1, <1>4 DEF DialogTables
<1>13. DialogTables'
  BY <1>0, <1>1, <1>8, <1>12 DEF DialogTables
<1>14. CountsFollow'
  <2>1. \A x \in Disputes : rows'[x].count <= stored'[x].count
    BY <1>0, <1>1, <1>11 DEF DialogTables, DialogRow, CountsFollow
  <2>2. ASSUME selected' # D!None PROVE selected'.count <= stored'[selected'.of].count
    <3>1. selected \in DialogView /\ selected.count <= stored[selected.of].count
      BY <1>0, <1>1, <2>2 DEF DialogTables, CountsFollow
    <3>2. selected.of \in Disputes /\ selected.count \in Nat
      BY <3>1 DEF DialogView
    <3> QED BY <1>1, <1>11, <3>1, <3>2
  <2>3. ASSUME NEW v \in Uploads, uploads'[v] # D!None
        PROVE  /\ uploads'[v].was.of = uploads'[v].of
               /\ uploads'[v].was.count <= stored'[uploads'[v].of].count
               /\ uploads'[v].pc = "ok" => uploads'[v].was.count + 1 <= stored'[uploads'[v].of].count
    <3>1. uploads[v] # D!None
      BY <1>1, <1>12, <2>3
    <3>2. uploads[v] \in DialogUpload
      BY <1>0, <3>1 DEF DialogTables
    <3>3. uploads[v].of \in Disputes /\ uploads[v].was.count \in Nat
      BY <3>2 DEF DialogUpload, DialogView
    <3>4. uploads[v].was.of = uploads[v].of /\ uploads[v].was.count <= stored[uploads[v].of].count
          /\ (uploads[v].pc = "ok" => uploads[v].was.count + 1 <= stored[uploads[v].of].count)
      BY <1>0, <3>1 DEF CountsFollow
    <3>5. CASE v = u
      <4>1. uploads'[v].was = uploads[v].was /\ uploads'[v].of = d /\ uploads[v].of = d
        BY <1>4, <1>12, <3>5 DEF d
      <4>2. uploads[v].was.count <= stored[d].count /\ stored'[d].count = stored[d].count + 1
        BY <1>7, <1>8, <3>4, <4>1
      <4>3. stored[d].count \in Nat
        BY <1>3, <1>9
      <4>4. uploads[v].was.count + 1 <= stored'[d].count /\ uploads[v].was.count <= stored'[d].count
        BY <3>3, <4>2, <4>3
      <4> QED BY <3>4, <4>1, <4>4
    <3>6. CASE v # u
      <4>1. uploads'[v] = uploads[v]
        BY <1>12, <3>6
      <4>2. uploads[v].was.count <= stored'[uploads[v].of].count
        BY <1>11, <3>3, <3>4
      <4>3. uploads[v].pc = "ok" => uploads[v].was.count + 1 <= stored'[uploads[v].of].count
        <5>1. uploads[v].was.count + 1 \in Nat
          BY <3>3
        <5> QED BY <1>11, <3>3, <3>4, <5>1
      <4> QED BY <3>4, <4>1, <4>2, <4>3
    <3> QED BY <3>5, <3>6
  <2> QED BY <2>1, <2>2, <2>3 DEF CountsFollow
<1>15. EvidenceFollows'
  BY <1>0, <1>1 DEF EvidenceFollows, NotRaced
<1>16. StepsFollow'
  <2> SUFFICES ASSUME overlaps' = {} PROVE OneSending' /\ StatusFollows'
    BY DEF StepsFollow
  <2>1. OneSending /\ StatusFollows
    BY <1>0, <1>1 DEF StepsFollow
  <2>2. \A v \in Uploads : (uploads'[v] = D!None <=> uploads[v] = D!None)
                           /\ uploads'[v].of = uploads[v].of /\ uploads'[v].was = uploads[v].was
    BY <1>1, <1>4, <1>5, <1>12 DEF d
  <2>3. OneSending'
    BY <1>1, <2>1, <2>2 DEF OneSending
  <2>4. \A v \in Uploads : uploads[v] # D!None => uploads[v].of \in Disputes
    BY <1>0 DEF DialogTables, DialogUpload
  <2>5. \A w \in Updates : updates[w] # D!None => updates[w].of \in Disputes
    BY <1>0 DEF DialogTables, DialogUpdate
  <2>6. selected # D!None => selected.of \in Disputes
    BY <1>0 DEF DialogTables, DialogView
  <2> QED BY <1>1, <1>10, <2>1, <2>2, <2>3, <2>4, <2>5, <2>6 DEF StatusFollows
<1> QED BY <1>13, <1>14, <1>15, <1>16 DEF DialogInv

(* The upload is answered: its dispute is selected again, counting it. *)
LEMMA UploadedDialog == ASSUME DialogInv, NEW u \in Uploads, D!UploadDone(u) PROVE DialogInv'
<1>0. DialogTables /\ CountsFollow /\ EvidenceFollows /\ StepsFollow
  BY DEF DialogInv
<1> DEFINE d == uploads[u].of
           was == uploads[u].was
           sel == [was EXCEPT !.count = @ + 1]
<1>1. uploads[u] # D!None /\ uploads[u].pc = "ok" /\ uploadOpen' = FALSE /\ D!GetEvidence(d) /\ selected' = sel
      /\ uploads' = [uploads EXCEPT ![u] = D!None] /\ overlaps' = overlaps \cup D!Racing
      /\ UNCHANGED <<stored, rows, rowsOld, files, updates>>
  BY DEF D!UploadDone
<1>2. uploads[u] \in DialogUpload
  BY <1>0, <1>1 DEF DialogTables
<1>3. d \in Disputes /\ was \in DialogView
  BY <1>2 DEF DialogUpload
<1>4. was.of = d /\ was.count + 1 <= stored[d].count
  BY <1>0, <1>1 DEF CountsFollow
<1>5. Gets(d)
  BY <1>0, <1>1, <1>3, GetsEvidence
<1> HIDE DEF d, was
<1>6. sel \in DialogView /\ sel.of = d /\ sel.status = was.status /\ sel.count = was.count + 1
  BY <1>3, <1>4 DEF DialogView
<1> HIDE DEF sel
<1>7. uploads' \in [Uploads -> {D!None} \cup DialogUpload] /\ uploads'[u] = D!None
      /\ \A v \in Uploads : v # u => uploads'[v] = uploads[v]
  BY <1>0, <1>1 DEF DialogTables
<1>8. DialogTables'
  <2>1. evidenceGets' \in [EvidenceFetches -> {D!None} \cup DialogGet]
    BY <1>5 DEF Gets
  <2>2. selected' \in {D!None} \cup DialogView /\ uploadOpen' \in BOOLEAN
    BY <1>1, <1>6
  <2> QED BY <1>0, <1>1, <1>7, <2>1, <2>2 DEF DialogTables
<1>9. CountsFollow'
  BY <1>0, <1>1, <1>4, <1>6, <1>7 DEF CountsFollow
<1>10. EvidenceFollows'
  BY <1>0, <1>1, <1>3, <1>5, <1>6, GotFollows
<1>11. StepsFollow'
  <2> SUFFICES ASSUME overlaps' = {} PROVE OneSending' /\ StatusFollows'
    BY DEF StepsFollow
  <2>1. OneSending /\ StatusFollows
    BY <1>0, <1>1 DEF StepsFollow
  <2>2. \A w \in Updates : updates[w] = D!None
    BY <1>1, <2>1 DEF OneSending
  <2>3. sel.status = stored[sel.of].status
    BY <1>1, <1>6, <2>1 DEF StatusFollows, d, was
  <2> QED BY <1>1, <1>7, <2>1, <2>2, <2>3 DEF OneSending, StatusFollows
<1> QED BY <1>8, <1>9, <1>10, <1>11 DEF DialogInv

(* An upload fails: the history excuses what is shown then. *)
LEMMA UploadFailsDialog == ASSUME DialogInv, NEW u \in Uploads, D!UploadFails(u) PROVE DialogInv'
<1>0. DialogTables /\ CountsFollow
  BY DEF DialogInv
<1>1. uploads' = [uploads EXCEPT ![u] = D!None] /\ "failed" \in overlaps'
      /\ UNCHANGED <<stored, rows, rowsOld, selected, files, evidenceGets, updates, uploadOpen>>
  BY DEF D!UploadFails
<1>2. uploads' \in [Uploads -> {D!None} \cup DialogUpload] /\ uploads'[u] = D!None
      /\ \A v \in Uploads : v # u => uploads'[v] = uploads[v]
  BY <1>0, <1>1 DEF DialogTables
<1>3. DialogTables' /\ CountsFollow'
  BY <1>0, <1>1, <1>2 DEF DialogTables, CountsFollow
<1>4. EvidenceFollows' /\ StepsFollow'
  BY <1>1 DEF EvidenceFollows, NotRaced, StepsFollow
<1> QED BY <1>3, <1>4 DEF DialogInv

(* An update begins: along a step from the status that is shown. *)
LEMMA ClickDialog == ASSUME DialogInv, NEW w \in Updates, D!ClickUpdate(w) PROVE DialogInv'
<1>0. DialogTables /\ CountsFollow /\ EvidenceFollows /\ StepsFollow
  BY DEF DialogInv
<1>1. PICK d \in Disputes, status \in D!Statuses :
        /\ \/ /\ selected # D!None /\ selected.of = d
              /\ <<selected.status, status>> \in D!Steps
           \/ /\ selected = D!None
              /\ rows[d].status = "OPEN" /\ status = "UNDER_REVIEW"
        /\ updates' = [updates EXCEPT ![w] =
             [of |-> d, status |-> status, closes |-> selected # D!None, pc |-> "sent"]]
        /\ overlaps' = overlaps \cup D!Busy \cup
                         IF selected = D!None /\ stored[d].status # "OPEN" THEN {"old row"} ELSE {}
  BY DEF D!ClickUpdate
<1>2. updates[w] = D!None
      /\ UNCHANGED <<stored, rows, rowsOld, selected, files, evidenceGets, uploads, uploadOpen>>
  BY DEF D!ClickUpdate
<1> DEFINE closes == selected # D!None
           new == [of |-> d, status |-> status, closes |-> closes, pc |-> "sent"]
<1>3. closes \in BOOLEAN /\ (closes = FALSE => selected = D!None)
  OBVIOUS
<1>4. updates' = [updates EXCEPT ![w] = new]
  BY <1>1
<1> HIDE DEF closes
<1>5. new \in DialogUpdate /\ new.of = d /\ new.status = status /\ new.closes = closes /\ new.pc = "sent"
  BY <1>3 DEF DialogUpdate
<1> HIDE DEF new
<1>6. updates' \in [Updates -> {D!None} \cup DialogUpdate] /\ updates'[w] = new
      /\ \A v \in Updates : v # w => updates'[v] = updates[v]
  BY <1>0, <1>4, <1>5 DEF DialogTables
<1>7. DialogTables'
  BY <1>0, <1>2, <1>6 DEF DialogTables
<1>8. CountsFollow'
  BY <1>0, <1>2 DEF CountsFollow
<1>9. EvidenceFollows'
  BY <1>0, <1>1, <1>2 DEF EvidenceFollows, NotRaced
<1>10. StepsFollow'
  <2> SUFFICES ASSUME overlaps' = {} PROVE OneSending' /\ StatusFollows'
    BY DEF StepsFollow
  <2>1. overlaps = {} /\ ~D!Sending /\ (selected = D!None => stored[d].status = "OPEN")
    BY <1>1 DEF D!Busy
  <2>2. (\A u \in Uploads : uploads[u] = D!None) /\ \A v \in Updates : updates[v] = D!None
    BY <2>1 DEF D!Sending
  <2>3. OneSending'
    BY <1>2, <1>6, <2>2 DEF OneSending
  <2>4. StatusFollows
    BY <1>0, <2>1 DEF StepsFollow
  <2>5. selected # D!None => selected.status = stored[selected.of].status
    BY <2>2, <2>4 DEF StatusFollows
  <2>6. <<stored[d].status, status>> \in D!Steps
    BY <1>1, <2>1, <2>5, StatusesAre
  <2>7. \A v \in Updates : updates'[v] # D!None => v = w
    BY <1>6, <2>2
  <2>8. <<stored'[new.of].status, new.status>> \in D!Steps
    BY <1>2, <1>5, <2>6
  <2>9. new.closes = FALSE => selected' = D!None
    BY <1>2, <1>3, <1>5
  <2>10. ASSUME NEW v \in Updates, updates'[v] # D!None
         PROVE  /\ updates'[v].pc = "sent" => <<stored'[updates'[v].of].status, updates'[v].status>> \in D!Steps
                /\ updates'[v].closes = FALSE => selected' = D!None
    <3>1. updates'[v] = new
      BY <1>6, <2>7, <2>10
    <3> QED BY <2>8, <2>9, <3>1
  <2>11. selected' # D!None => selected'.status = stored'[selected'.of].status
    BY <1>2, <2>5
  <2>12. \A u \in Uploads : uploads'[u] = D!None
    BY <1>2, <2>2
  <2> QED BY <2>3, <2>10, <2>11, <2>12 DEF StatusFollows
<1> QED BY <1>7, <1>8, <1>9, <1>10 DEF DialogInv

(* The server takes the status. *)
LEMMA UpdateDialog == ASSUME DialogInv, NEW w \in Updates, D!UpdateDispute(w) PROVE DialogInv'
<1>0. DialogTables /\ CountsFollow /\ EvidenceFollows /\ StepsFollow
  BY DEF DialogInv
<1> DEFINE d == updates[w].of
           a == [updates[w] EXCEPT !.pc = "ok"]
           moved == [stored[d] EXCEPT !.status = updates[w].status]
<1>1. updates[w] # D!None /\ updates' = [updates EXCEPT ![w] = a] /\ stored' = [stored EXCEPT ![d] = moved]
      /\ updates[w].pc = "sent"
      /\ UNCHANGED <<rows, rowsOld, selected, files, evidenceGets, uploads, uploadOpen, overlaps>>
  BY <1>0 DEF D!UpdateDispute, DialogTables
<1>2. updates[w] \in DialogUpdate
  BY <1>0, <1>1 DEF DialogTables
<1>3. d \in Disputes /\ updates[w].status \in D!Statuses
  BY <1>2 DEF DialogUpdate
<1>4. a \in DialogUpdate /\ a.of = d /\ a.closes = updates[w].closes /\ a.pc = "ok"
  BY <1>2 DEF DialogUpdate
<1>5. stored[d] \in DialogRow
  BY <1>0, <1>3 DEF DialogTables
<1> HIDE DEF a, d
<1>6. moved \in DialogRow /\ moved.count = stored[d].count
  BY <1>3, <1>5 DEF DialogRow
<1> HIDE DEF moved
<1>7. a # D!None
  BY <1>4, NoneApart
<1>8. stored' \in [Disputes -> DialogRow] /\ stored'[d] = moved /\ \A x \in Disputes : x # d => stored'[x] = stored[x]
  BY <1>0, <1>1, <1>3, <1>6 DEF DialogTables
<1>9. \A x \in Disputes : stored'[x].count = stored[x].count
  BY <1>6, <1>8
<1>10. updates' \in [Updates -> {D!None} \cup DialogUpdate] /\ updates'[w] = a
       /\ \A v \in Updates : v # w => updates'[v] = updates[v]
  BY <1>0, <1>1, <1>4 DEF DialogTables
<1>11. DialogTables'
  BY <1>0, <1>1, <1>8, <1>10 DEF DialogTables
<1>12. CountsFollow'
  <2>1. \A v \in Uploads : uploads[v] # D!None => uploads[v].of \in Disputes
    BY <1>0 DEF DialogTables, DialogUpload
  <2>2. selected # D!None => selected.of \in Disputes
    BY <1>0 DEF DialogTables, DialogView
  <2> QED BY <1>0, <1>1, <1>9, <2>1, <2>2 DEF CountsFollow
<1>13. EvidenceFollows'
  BY <1>0, <1>1 DEF EvidenceFollows, NotRaced
<1>14. StepsFollow'
  <2> SUFFICES ASSUME overlaps' = {} PROVE OneSending' /\ StatusFollows'
    BY DEF StepsFollow
  <2>1. OneSending /\ StatusFollows
    BY <1>0, <1>1 DEF StepsFollow
  <2>2. (\A u \in Uploads : uploads[u] = D!None) /\ \A v \in Updates : updates[v] # D!None => v = w
    BY <1>1, <2>1 DEF OneSending
  <2>3. \A v \in Updates : updates'[v] # D!None => v = w
    BY <1>10, <2>2
  <2>4. OneSending'
    BY <1>1, <2>2, <2>3 DEF OneSending
  <2>5. a.closes = FALSE => selected = D!None
    BY <1>1, <1>4, <2>1 DEF StatusFollows
  <2>6. a.closes = TRUE \/ a.closes = FALSE
    BY <1>4 DEF DialogUpdate
  <2>7. selected # D!None => a.closes = TRUE
    BY <2>5, <2>6
  <2>8. ASSUME NEW v \in Updates, updates'[v] # D!None
        PROVE  /\ updates'[v].pc = "sent" => <<stored'[updates'[v].of].status, updates'[v].status>> \in D!Steps
               /\ updates'[v].closes = FALSE => selected' = D!None
    <3>1. updates'[v] = a
      BY <1>10, <2>3, <2>8
    <3> QED BY <1>1, <1>4, <2>5, <3>1
  <2>9. selected' # D!None =>
          \E v \in Updates : updates'[v] # D!None /\ updates'[v].pc = "ok" /\ updates'[v].closes = TRUE
    <3> SUFFICES ASSUME selected' # D!None
                 PROVE  updates'[w] # D!None /\ updates'[w].pc = "ok" /\ updates'[w].closes = TRUE
      OBVIOUS
    <3>1. a.closes = TRUE
      BY <1>1, <2>7
    <3> QED BY <1>4, <1>7, <1>10, <3>1
  <2>10. \A u \in Uploads : uploads'[u] = D!None
    BY <1>1, <2>2
  <2> QED BY <2>4, <2>8, <2>9, <2>10 DEF StatusFollows
<1> QED BY <1>11, <1>12, <1>13, <1>14 DEF DialogInv

(* The update is answered: the dialog closes if it came from there. *)
LEMMA UpdatedDialog == ASSUME DialogInv, NEW w \in Updates, D!UpdateDone(w) PROVE DialogInv'
<1>0. DialogTables /\ CountsFollow /\ EvidenceFollows /\ StepsFollow
  BY DEF DialogInv
<1>1. updates[w] # D!None /\ updates[w].pc = "ok" /\ rowsOld' = TRUE
      /\ updates' = [updates EXCEPT ![w] = D!None]
      /\ UNCHANGED <<stored, rows, files, evidenceGets, uploads, uploadOpen, overlaps>>
  BY DEF D!UpdateDone
<1>2. updates[w] \in DialogUpdate
  BY <1>0, <1>1 DEF DialogTables
<1>3. updates[w].closes = TRUE \/ updates[w].closes = FALSE
  BY <1>2 DEF DialogUpdate
<1>4. (updates[w].closes = TRUE /\ selected' = D!None) \/ (updates[w].closes = FALSE /\ selected' = selected)
  <2>1. CASE updates[w].closes = TRUE
    BY <2>1 DEF D!UpdateDone
  <2>2. CASE updates[w].closes = FALSE
    BY <2>2 DEF D!UpdateDone
  <2> QED BY <1>3, <2>1, <2>2
<1>5. selected' = D!None \/ selected' = selected
  BY <1>4
<1>6. updates' \in [Updates -> {D!None} \cup DialogUpdate] /\ updates'[w] = D!None
      /\ \A v \in Updates : v # w => updates'[v] = updates[v]
  BY <1>0, <1>1 DEF DialogTables
<1>7. DialogTables'
  <2>1. rowsOld' \in BOOLEAN
    BY <1>1
  <2> QED BY <1>0, <1>1, <1>5, <1>6, <2>1 DEF DialogTables
<1>8. CountsFollow'
  BY <1>0, <1>1, <1>5 DEF CountsFollow
<1>9. EvidenceFollows'
  BY <1>0, <1>1, <1>5 DEF EvidenceFollows, NotRaced
<1>10. StepsFollow'
  <2> SUFFICES ASSUME overlaps' = {} PROVE OneSending' /\ StatusFollows'
    BY DEF StepsFollow
  <2>1. OneSending /\ StatusFollows
    BY <1>0, <1>1 DEF StepsFollow
  <2>2. (\A u \in Uploads : uploads[u] = D!None) /\ \A v \in Updates : updates'[v] = D!None
    BY <1>1, <1>6, <2>1 DEF OneSending
  <2>3. selected' = D!None
    BY <1>1, <1>4, <2>1 DEF StatusFollows
  <2> QED BY <1>1, <2>2, <2>3 DEF OneSending, StatusFollows
<1> QED BY <1>7, <1>8, <1>9, <1>10 DEF DialogInv

(* An update fails: the history excuses what is shown then. *)
LEMMA UpdateFailsDialog == ASSUME DialogInv, NEW w \in Updates, D!UpdateFails(w) PROVE DialogInv'
<1>0. DialogTables /\ CountsFollow
  BY DEF DialogInv
<1>1. updates' = [updates EXCEPT ![w] = D!None] /\ "failed" \in overlaps'
      /\ UNCHANGED <<stored, rows, rowsOld, selected, files, evidenceGets, uploads, uploadOpen>>
  BY DEF D!UpdateFails
<1>2. updates' \in [Updates -> {D!None} \cup DialogUpdate]
  BY <1>0, <1>1 DEF DialogTables
<1>3. DialogTables' /\ CountsFollow'
  BY <1>0, <1>1, <1>2 DEF DialogTables, CountsFollow
<1>4. EvidenceFollows' /\ StepsFollow'
  BY <1>1 DEF EvidenceFollows, NotRaced, StepsFollow
<1> QED BY <1>3, <1>4 DEF DialogInv

(* Every step of the dialog and its server keeps the invariant. *)
LEMMA NextDialog == DialogInv /\ D!Next => DialogInv'
<1> SUFFICES ASSUME DialogInv, D!Next PROVE DialogInv'
  OBVIOUS
<1>1. CASE \E d \in Disputes : D!View(d)
  BY <1>1, ViewDialog
<1>2. CASE D!CloseDialog \/ D!ToggleUpload \/ D!RowsArrive
  BY <1>2, CloseDialogs, ToggleDialog, RowsDialog
<1>3. CASE \E e \in EvidenceFetches : D!AnswerEvidence(e) \/ D!EvidenceArrives(e) \/ D!EvidenceFails(e)
  BY <1>3, AnswerDialog, ArriveDialog, FailDialog
<1>4. CASE \E u \in Uploads : D!Upload(u) \/ D!StoreEvidence(u) \/ D!UploadDone(u) \/ D!UploadFails(u)
  BY <1>4, UploadDialog, StoreDialog, UploadedDialog, UploadFailsDialog
<1>5. CASE \E w \in Updates : D!ClickUpdate(w) \/ D!UpdateDispute(w) \/ D!UpdateDone(w) \/ D!UpdateFails(w)
  BY <1>5, ClickDialog, UpdateDialog, UpdatedDialog, UpdateFailsDialog
<1> QED BY <1>1, <1>2, <1>3, <1>4, <1>5 DEF D!Next

(* A step of another part leaves it as it is. *)
LEMMA RestingDialog == DialogInv /\ UNCHANGED ofDisputeDialog => DialogInv'
<1> SUFFICES ASSUME DialogInv, UNCHANGED ofDisputeDialog PROVE DialogInv'
  OBVIOUS
<1>1. UNCHANGED <<stored, rows, rowsOld, selected, files, evidenceGets, uploads, updates, uploadOpen, overlaps>>
  BY DEF ofDisputeDialog
<1>2. DialogTables' /\ CountsFollow'
  BY <1>1 DEF DialogInv, DialogTables, CountsFollow
<1>3. EvidenceFollows'
  BY <1>1 DEF DialogInv, EvidenceFollows, NotRaced
<1>4. StepsFollow'
  BY <1>1 DEF DialogInv, StepsFollow, OneSending, StatusFollows
<1> QED BY <1>2, <1>3, <1>4 DEF DialogInv

(* The invariant gives the dialog's properties and types. *)
LEMMA DialogImplies == DialogInv => D!EvidenceIsSelecteds /\ D!CountIsStored /\ D!TypeOK
<1> SUFFICES ASSUME DialogInv PROVE D!EvidenceIsSelecteds /\ D!CountIsStored /\ D!TypeOK
  OBVIOUS
<1>0. DialogTables /\ CountsFollow /\ EvidenceFollows
  BY DEF DialogInv
<1>1. D!EvidenceIsSelecteds
  BY <1>0 DEF EvidenceFollows, NotRaced, D!EvidenceIsSelecteds, D!Getting
<1>2. D!CountIsStored
  BY <1>0 DEF CountsFollow, D!CountIsStored
<1>3. selected.of \in Disputes \cup {"none"}
  BY <1>0 DEF DialogTables, DialogView, D!None
<1>4. D!TypeOK
  BY <1>0, <1>3 DEF DialogTables, DialogRow, D!TypeOK
<1> QED BY <1>1, <1>2, <1>4

(* And a step of the dialog moves a dispute along the buttons' steps. *)
MovesAlong ==
  overlaps' = {} => \A d \in Disputes :
    stored'[d].status # stored[d].status => <<stored[d].status, stored'[d].status>> \in D!Steps
LEMMA DialogSteps == ASSUME DialogInv, D!Next PROVE MovesAlong
<1>0. DialogTables /\ StepsFollow
  BY DEF DialogInv
<1>1. CASE UNCHANGED stored
  BY <1>1 DEF MovesAlong
<1>2. ASSUME NEW u \in Uploads, D!StoreEvidence(u) PROVE MovesAlong
  <2>1. \A d \in Disputes : stored'[d].status = stored[d].status
    <3> DEFINE of == uploads[u].of
               more == [stored[of] EXCEPT !.count = @ + 1]
    <3>1. stored' = [stored EXCEPT ![of] = more] /\ uploads[u] # D!None
      BY <1>0, <1>2 DEF D!StoreEvidence, DialogTables
    <3>2. of \in Disputes
      BY <1>0, <3>1 DEF DialogTables, DialogUpload
    <3> HIDE DEF of
    <3>3. stored[of] \in DialogRow
      BY <1>0, <3>2 DEF DialogTables
    <3>4. more.status = stored[of].status
      BY <3>3 DEF DialogRow
    <3> HIDE DEF more
    <3> QED BY <1>0, <3>1, <3>2, <3>4 DEF DialogTables
  <2> QED BY <2>1 DEF MovesAlong
<1>3. ASSUME NEW w \in Updates, D!UpdateDispute(w) PROVE MovesAlong
  <2> SUFFICES ASSUME overlaps' = {}, NEW d \in Disputes, stored'[d].status # stored[d].status
               PROVE  <<stored[d].status, stored'[d].status>> \in D!Steps
    BY DEF MovesAlong
  <2> DEFINE of == updates[w].of
             moved == [stored[of] EXCEPT !.status = updates[w].status]
  <2>1. updates[w] # D!None /\ updates[w].pc = "sent" /\ overlaps = {} /\ stored' = [stored EXCEPT ![of] = moved]
    BY <1>0, <1>3 DEF D!UpdateDispute, DialogTables
  <2>2. of \in Disputes
    BY <1>0, <2>1 DEF DialogTables, DialogUpdate
  <2>3. <<stored[of].status, updates[w].status>> \in D!Steps
    BY <1>0, <2>1 DEF StepsFollow, StatusFollows
  <2> HIDE DEF of
  <2>4. stored[of] \in DialogRow
    BY <1>0, <2>2 DEF DialogTables
  <2>5. moved.status = updates[w].status
    BY <2>4 DEF DialogRow
  <2> HIDE DEF moved
  <2>6. d = of
    BY <1>0, <2>1, <2>2 DEF DialogTables
  <2>7. stored'[d].status = updates[w].status
    BY <1>0, <2>1, <2>2, <2>5, <2>6 DEF DialogTables
  <2> QED BY <2>3, <2>6, <2>7
<1> QED BY <1>1, <1>2, <1>3
        DEF D!Next, D!View, D!CloseDialog, D!ToggleUpload, D!RowsArrive, D!AnswerEvidence, D!EvidenceArrives,
            D!EvidenceFails, D!Upload, D!UploadDone, D!UploadFails, D!ClickUpdate, D!UpdateDone, D!UpdateFails

(***************************************************************************)
(* The searches of the fraud network.                                      *)
(***************************************************************************)
Graphs == Seq(Entities \X Entities)

(* An edge leads both ways between two nodes, and closed sets are those     *)
(* that no edge leaves.                                                     *)
LEMMA GraphFacts ==
  ASSUME NEW g \in Graphs
  PROVE  /\ N!Nodes(g) \subseteq Entities /\ IsFiniteSet(N!Nodes(g))
         /\ \A a, b : b \in N!Neighbors(g, a) <=> N!Adjacent(g, a, b)
         /\ \A a, b : N!Adjacent(g, a, b) => N!Adjacent(g, b, a) /\ b \in N!Nodes(g)
         /\ \A Z \in N!Closed(g) : Z \subseteq Entities
         /\ \A Z \in N!Closed(g) : \A a, b : a \in Z /\ N!Adjacent(g, a, b) => b \in Z
         /\ \A Z \in SUBSET Entities :
              (\A a \in Z : N!Neighbors(g, a) \subseteq Z) => Z \in N!Closed(g)
         /\ \A a \in N!Nodes(g) : \E i \in DOMAIN g : g[i][1] = a \/ g[i][2] = a
<1> DEFINE I == 1..Len(g)
<1>1. DOMAIN g = I /\ IsFiniteSet(I) /\ Len(g) \in Nat
  BY FS_Interval DEF Graphs
<1>2. \A i \in I : g[i] = <<g[i][1], g[i][2]>> /\ g[i][1] \in Entities /\ g[i][2] \in Entities
  BY DEF Graphs
<1> HIDE DEF I
<1>3. N!Nodes(g) = {g[i][1] : i \in I} \cup {g[i][2] : i \in I}
  BY <1>1 DEF N!Nodes
<1>4. IsFiniteSet({g[i][1] : i \in I}) /\ IsFiniteSet({g[i][2] : i \in I})
  <2> DEFINE first == [i \in I |-> g[i][1]]  second == [i \in I |-> g[i][2]]
             firsts == {g[i][1] : i \in I}  seconds == {g[i][2] : i \in I}
  <2>1. first \in Surjection(I, firsts) /\ second \in Surjection(I, seconds)
    BY DEF Surjection
  <2> QED BY <1>1, <2>1, FS_Surjection
<1>5. N!Nodes(g) \subseteq Entities /\ IsFiniteSet(N!Nodes(g))
  <2>1. N!Nodes(g) \subseteq Entities
    BY <1>2, <1>3
  <2>2. IsFiniteSet({g[i][1] : i \in I} \cup {g[i][2] : i \in I})
    <3> DEFINE firsts == {g[i][1] : i \in I}  seconds == {g[i][2] : i \in I}
    <3>1. IsFiniteSet(firsts) /\ IsFiniteSet(seconds)
      BY <1>4
    <3> HIDE DEF firsts, seconds
    <3>2. IsFiniteSet(firsts \cup seconds)
      BY <3>1, FS_Union
    <3> QED BY <3>2 DEF firsts, seconds
  <2> QED BY <1>3, <2>1, <2>2
<1>6. \A a, b : N!Adjacent(g, a, b) <=> \E i \in I : (g[i][1] = a /\ g[i][2] = b) \/ (g[i][1] = b /\ g[i][2] = a)
  BY <1>1, <1>2 DEF N!Adjacent
<1>7. \A a, b : b \in N!Neighbors(g, a) <=> \E i \in I : (g[i][1] = a /\ g[i][2] = b) \/ (g[i][1] = b /\ g[i][2] = a)
  BY <1>1 DEF N!Neighbors
<1>8. N!Closed(g) = {Z \in SUBSET Entities : \A i \in I : g[i][1] \in Z <=> g[i][2] \in Z}
  BY <1>1 DEF N!Closed
<1>9. \A a, b : b \in N!Neighbors(g, a) <=> N!Adjacent(g, a, b)
  BY <1>6, <1>7
<1>10. \A a, b : N!Adjacent(g, a, b) => N!Adjacent(g, b, a) /\ b \in N!Nodes(g)
  BY <1>3, <1>6
<1>11. \A Z \in N!Closed(g) : Z \subseteq Entities
  BY <1>8
<1>12. \A Z \in N!Closed(g) : \A a, b : a \in Z /\ N!Adjacent(g, a, b) => b \in Z
  BY <1>6, <1>8
<1>13. \A Z \in SUBSET Entities : (\A a \in Z : N!Neighbors(g, a) \subseteq Z) => Z \in N!Closed(g)
  <2> SUFFICES ASSUME NEW Z \in SUBSET Entities, \A a \in Z : N!Neighbors(g, a) \subseteq Z,
                      NEW i \in I
               PROVE  g[i][1] \in Z <=> g[i][2] \in Z
    BY <1>8
  <2>1. g[i][2] \in N!Neighbors(g, g[i][1]) /\ g[i][1] \in N!Neighbors(g, g[i][2])
    BY <1>7
  <2> QED BY <2>1
<1>14. \A a \in N!Nodes(g) : \E i \in DOMAIN g : g[i][1] = a \/ g[i][2] = a
  BY <1>1, <1>3
<1> QED BY <1>5, <1>9, <1>10, <1>11, <1>12, <1>13, <1>14

(* The cluster of an entity: what every closed set with it contains. *)
ClusterOf(g, a) == {b \in Entities : \A Z \in N!Closed(g) : a \in Z => b \in Z}

LEMMA ClusterFacts ==
  ASSUME NEW g \in Graphs
  PROVE  /\ N!Clusters(g) = {ClusterOf(g, a) : a \in N!Nodes(g)}
         /\ \A a \in Entities : a \in ClusterOf(g, a) /\ ClusterOf(g, a) \in N!Closed(g)
         /\ \A a \in Entities : \A b \in ClusterOf(g, a) : ClusterOf(g, b) = ClusterOf(g, a)
         /\ \A a \in N!Nodes(g) : ClusterOf(g, a) \subseteq N!Nodes(g)
         /\ \A Z \in N!Closed(g) : \A a \in Z : ClusterOf(g, a) \subseteq Z
<1>1. N!Clusters(g) = {ClusterOf(g, a) : a \in N!Nodes(g)}
  BY DEF N!Clusters, ClusterOf
<1>2. ASSUME NEW a \in Entities PROVE a \in ClusterOf(g, a) /\ ClusterOf(g, a) \in N!Closed(g)
  <2>1. a \in ClusterOf(g, a) /\ ClusterOf(g, a) \in SUBSET Entities
    BY DEF ClusterOf
  <2>2. ASSUME NEW b \in ClusterOf(g, a), NEW c \in N!Neighbors(g, b) PROVE c \in ClusterOf(g, a)
    <3>1. N!Adjacent(g, b, c) /\ c \in Entities
      BY GraphFacts
    <3>2. ASSUME NEW Z \in N!Closed(g), a \in Z PROVE c \in Z
      <4>1. b \in Z
        BY <3>2 DEF ClusterOf
      <4> QED BY <3>1, <4>1, GraphFacts
    <3> QED BY <3>1, <3>2 DEF ClusterOf
  <2>3. \A b \in ClusterOf(g, a) : N!Neighbors(g, b) \subseteq ClusterOf(g, a)
    BY <2>2
  <2> QED BY <2>1, <2>3, GraphFacts
<1>3. ASSUME NEW Z \in N!Closed(g), NEW a \in Z PROVE ClusterOf(g, a) \subseteq Z
  BY <1>3 DEF ClusterOf
<1>4. ASSUME NEW a \in Entities, NEW b \in ClusterOf(g, a) PROVE ClusterOf(g, b) = ClusterOf(g, a)
  <2>1. b \in Entities /\ ClusterOf(g, b) \in N!Closed(g) /\ ClusterOf(g, a) \in N!Closed(g)
    BY <1>2 DEF ClusterOf
  <2>2. ClusterOf(g, b) \subseteq ClusterOf(g, a)
    BY <1>3, <2>1
  <2>3. a \in ClusterOf(g, b)
    <3> DEFINE rest == Entities \ ClusterOf(g, b)
    <3>1. SUFFICES ASSUME a \notin ClusterOf(g, b) PROVE FALSE
      OBVIOUS
    <3>2. ASSUME NEW x \in rest, NEW y \in N!Neighbors(g, x) PROVE y \in rest
      <4>1. N!Adjacent(g, y, x) /\ y \in Entities
        BY GraphFacts
      <4>2. y \notin ClusterOf(g, b)
        BY <2>1, <4>1, GraphFacts
      <4> QED BY <4>1, <4>2
    <3>3. rest \in N!Closed(g)
      <4>1. rest \in SUBSET Entities /\ \A x \in rest : N!Neighbors(g, x) \subseteq rest
        BY <3>2
      <4> HIDE DEF rest
      <4> QED BY <4>1, GraphFacts
    <3>4. b \in rest
      BY <3>1, <3>3 DEF ClusterOf
    <3>5. b \in ClusterOf(g, b)
      BY <1>2, <2>1
    <3> QED BY <3>4, <3>5
  <2>4. ClusterOf(g, a) \subseteq ClusterOf(g, b)
    BY <1>3, <2>1, <2>3
  <2> QED BY <2>2, <2>4
<1>5. ASSUME NEW a \in N!Nodes(g) PROVE ClusterOf(g, a) \subseteq N!Nodes(g)
  <2>1. N!Nodes(g) \in SUBSET Entities /\ \A b \in N!Nodes(g) : N!Neighbors(g, b) \subseteq N!Nodes(g)
    BY GraphFacts
  <2>2. N!Nodes(g) \in N!Closed(g)
    BY <2>1, GraphFacts
  <2> QED BY <1>3, <2>2
<1> QED BY <1>1, <1>2, <1>3, <1>4, <1>5

LEMMA SameNetworkOps ==
  ASSUME NEW f, NEW X
  PROVE  /\ N!SumFunctionOnSet(f, X) = SumFunctionOnSet(f, X)
         /\ N!Cardinality(X) = Cardinality(X)
<1>1. N!SumFunctionOnSet(f, X) = SumFunctionOnSet(f, X)
  BY DEF N!SumFunctionOnSet, N!FoldFunctionOnSet, N!MapThenFoldSet,
         SumFunctionOnSet, FoldFunctionOnSet, MapThenFoldSet
<1>2. N!Cardinality(X) = Cardinality(X)
  BY Zenon DEF N!Cardinality, Cardinality
<1> QED BY <1>1, <1>2

(* Every node of a graph has a connection, and those of some nodes add up. *)
LEMMA NodesConnect ==
  ASSUME NEW g \in Graphs, NEW X \in SUBSET N!Nodes(g)
  PROVE  /\ IsFiniteSet(X) /\ Cardinality(X) \in Nat /\ N!Connections(g, X) \in Nat
         /\ X # {} => N!Connections(g, X) > 0
<1> DEFINE of == [n \in X |-> N!ConnectionsOf(g, n)]
<1>1. IsFiniteSet(X) /\ Cardinality(X) \in Nat
  BY GraphFacts, FS_Subset, FS_CardinalityType
<1>2. ASSUME NEW n \in X PROVE of[n] \in Nat /\ of[n] > 0
  <2> DEFINE sources == {i \in DOMAIN g : g[i][1] = n}
             targets == {i \in DOMAIN g : g[i][2] = n}
  <2>1. IsFiniteSet(DOMAIN g)
    BY FS_Interval DEF Graphs
  <2>2. IsFiniteSet(sources) /\ IsFiniteSet(targets)
    BY <2>1, FS_Subset
  <2>3. sources # {} \/ targets # {}
    <3>1. PICK i \in DOMAIN g : g[i][1] = n \/ g[i][2] = n
      BY GraphFacts
    <3> QED BY <3>1
  <2>4. of[n] = Cardinality(sources) + Cardinality(targets)
    <3>1. of[n] = N!ConnectionsOf(g, n)
      OBVIOUS
    <3>2. N!ConnectionsOf(g, n) = N!Cardinality(sources) + N!Cardinality(targets)
      BY Zenon DEF N!ConnectionsOf
    <3> HIDE DEF of, sources, targets
    <3> QED BY <3>1, <3>2, SameNetworkOps
  <2> HIDE DEF of, sources, targets
  <2>5. Cardinality(sources) \in Nat /\ Cardinality(targets) \in Nat
    BY <2>2, FS_CardinalityType
  <2>6. /\ sources # {} => Cardinality(sources) # 0
        /\ targets # {} => Cardinality(targets) # 0
    BY <2>2, FS_EmptySet
  <2> QED BY <2>3, <2>4, <2>5, <2>6
<1>3. N!Connections(g, X) = SumFunctionOnSet(of, X)
  BY SameNetworkOps DEF N!Connections
<1> HIDE DEF of
<1>4. /\ SumFunctionOnSet(of, X) \in Nat
      /\ \A n \in X : of[n] <= SumFunctionOnSet(of, X)
  BY <1>1, <1>2, SumOfNats
<1>5. X # {} => SumFunctionOnSet(of, X) > 0
  BY <1>2, <1>4
<1> QED BY <1>1, <1>3, <1>4, <1>5

(* The risk score as a bound on the size and the connections. *)
LEMMA RiskTells ==
  ASSUME NEW g \in Graphs, NEW X \in SUBSET N!Nodes(g)
  PROVE  Cardinality(X) >= 3 /\ N!Risky(g, X) <=>
           Cardinality(X) >= 4 \/ (Cardinality(X) = 3 /\ N!Connections(g, X) >= 8)
<1> DEFINE size == Cardinality(X)  sum == N!Connections(g, X)
           base == 30 + N!Lesser(5 * size, 30)  degree == N!Lesser(2 * sum, 25 * size)
<1>1. size \in Nat /\ sum \in Nat
  BY NodesConnect
<1>2. X # {} => sum > 0
  BY NodesConnect
<1>3. size > 0 => X # {}
  <2>1. X = {} => size = 0
    BY FS_EmptySet
  <2> QED BY <2>1
<1>4. N!Risky(g, X) <=> size * base + degree > 50 * size
  BY SameNetworkOps DEF N!Risky
<1> HIDE DEF size, sum
<1>5. /\ base \in Nat /\ degree \in Nat
      /\ size >= 4 => base >= 50
      /\ size = 3 => base = 45 /\ (degree > 15 <=> sum >= 8)
      /\ size >= 4 => degree > 0
  BY <1>1, <1>2, <1>3 DEF N!Lesser
<1> HIDE DEF base, degree
<1>6. CASE size >= 4
  <2>1. base >= 50 /\ degree > 0
    BY <1>5, <1>6
  <2>2. size * base >= size * 50
    BY <1>1, <1>5, <1>6, <2>1
  <2>3. size * base \in Int /\ size * 50 = 50 * size /\ 50 * size \in Int
    BY <1>1, <1>5
  <2>4. size * base + degree > 50 * size
    BY <1>5, <2>1, <2>2, <2>3
  <2> QED BY <1>1, <1>4, <1>6, <2>4 DEF size, sum
<1>7. CASE size = 3
  <2>1. 3 * 45 + degree > 50 * 3 <=> sum >= 8
    BY <1>1, <1>5, <1>7
  <2>2. N!Risky(g, X) <=> sum >= 8
    BY <1>4, <1>5, <1>7, <2>1
  <2> QED BY <1>7, <2>2 DEF size, sum
<1>8. CASE size < 3
  BY <1>1, <1>8 DEF size, sum
<1> QED BY <1>1, <1>6, <1>7, <1>8

(***************************************************************************)
(* detectFraudRings: what is done is whole clusters, those that are rings   *)
(* among the rings; the component and the queue lie in one cluster, and     *)
(* what neighbors the component is in one of them.                          *)
(***************************************************************************)
IsRing(g, c) == Cardinality(c) >= 3 /\ N!Risky(g, c)
Listed(rings, c) == \E i \in DOMAIN rings : rings[i] = c
Done(visited, queue, component) == visited \ (queue \cup component)

Frontier(g, visited, queue, component) ==
  /\ visited \subseteq N!Nodes(g) /\ queue \cup component \subseteq visited
  /\ queue \cap component = {}
  /\ \A n \in component : N!Neighbors(g, n) \subseteq component \cup queue
  /\ \A m, n \in component \cup queue : n \in ClusterOf(g, m)

Whole(g, done) == \A n \in done : ClusterOf(g, n) \subseteq done
Collected(g, done, rings) ==
  /\ Whole(g, done)
  /\ \A i, j \in DOMAIN rings : rings[i] = rings[j] => i = j
  /\ \A i \in DOMAIN rings : \E n \in done : rings[i] = ClusterOf(g, n)
  /\ \A n \in done : Listed(rings, ClusterOf(g, n)) <=> IsRing(g, ClusterOf(g, n))

LEMMA RingBegins ==
  ASSUME NEW g \in Graphs, NEW visited, NEW n \in N!Nodes(g) \ visited,
         Frontier(g, visited, {}, {})
  PROVE  /\ Frontier(g, visited \cup {n}, {n}, {})
         /\ Done(visited \cup {n}, {n}, {}) = Done(visited, {}, {})
<1>1. n \in ClusterOf(g, n)
  BY GraphFacts, ClusterFacts
<1> QED BY <1>1 DEF Frontier, Done

Marked(g, visited, n) == visited \cup (N!Neighbors(g, n) \ visited)
Waiting(g, visited, queue, n) == (queue \ {n}) \cup (N!Neighbors(g, n) \ visited)

LEMMA RingVisits ==
  ASSUME NEW g \in Graphs, NEW visited, NEW queue, NEW component, NEW current \in queue,
         Frontier(g, visited, queue, component),
         Whole(g, Done(visited, queue, component)),
         NEW reached, reached = component \cup {current}
  PROVE  /\ Frontier(g, Marked(g, visited, current), Waiting(g, visited, queue, current), reached)
         /\ Done(Marked(g, visited, current), Waiting(g, visited, queue, current), reached)
              = Done(visited, queue, component)
<1> DEFINE new == N!Neighbors(g, current) \ visited
           marked == visited \cup new
           waiting == (queue \ {current}) \cup new
<1> DEFINE neighbors == N!Neighbors(g, current)
<1>0. current \in Entities /\ current \in N!Nodes(g) /\ N!Nodes(g) \subseteq Entities
  BY GraphFacts DEF Frontier
<1>1. neighbors \subseteq N!Nodes(g)
  BY GraphFacts
<1>2. \A m \in neighbors : m \in ClusterOf(g, current)
  <2>1. current \in ClusterOf(g, current) /\ ClusterOf(g, current) \in N!Closed(g)
    BY <1>0, ClusterFacts
  <2> QED BY <2>1, GraphFacts
<1>3. \A m \in neighbors : current \in ClusterOf(g, m)
  <2> TAKE m \in neighbors
  <2>1. N!Adjacent(g, m, current) /\ m \in Entities
    BY <1>0, <1>1, GraphFacts
  <2>2. m \in ClusterOf(g, m) /\ ClusterOf(g, m) \in N!Closed(g)
    BY <2>1, ClusterFacts
  <2> QED BY <2>1, <2>2, GraphFacts
<1>4. neighbors \cap visited \subseteq queue \cup component
  <2> SUFFICES ASSUME NEW m \in neighbors, m \in visited, m \notin queue \cup component
               PROVE  FALSE
    OBVIOUS
  <2>1. m \in Done(visited, queue, component)
    BY DEF Done
  <2>2. current \in Done(visited, queue, component)
    BY <1>3, <2>1 DEF Whole
  <2> QED BY <2>2 DEF Done
<1>5. \A m, n \in component \cup queue \cup new : n \in ClusterOf(g, m)
  <2>1. ASSUME NEW m \in component \cup queue \cup new
        PROVE  m \in Entities /\ ClusterOf(g, m) = ClusterOf(g, current)
    <3>1. m \in ClusterOf(g, current)
      BY <1>2 DEF Frontier
    <3> QED BY <1>0, <3>1, ClusterFacts DEF ClusterOf
  <2>2. ASSUME NEW m \in component \cup queue \cup new PROVE m \in ClusterOf(g, current)
    BY <2>1, ClusterFacts
  <2> QED BY <2>1, <2>2
<1> HIDE DEF neighbors
<1>0a. marked = Marked(g, visited, current) /\ waiting = Waiting(g, visited, queue, current)
  BY DEF Marked, Waiting
<1>6. new \subseteq neighbors /\ neighbors \subseteq new \cup queue \cup component
  BY <1>4 DEF neighbors
<1>7. current \notin new
  BY DEF Frontier
<1>8. \A n \in component \cup {current} :
        N!Neighbors(g, n) \subseteq (component \cup {current}) \cup ((queue \ {current}) \cup new)
  BY <1>6 DEF Frontier, neighbors
<1>9. visited \cup new \subseteq N!Nodes(g)
  BY <1>1, <1>6 DEF Frontier
<1>10. ((queue \ {current}) \cup new) \cap (component \cup {current}) = {}
  BY <1>7 DEF Frontier
<1>11. Frontier(g, marked, waiting, reached)
  BY <1>5, <1>8, <1>9, <1>10 DEF Frontier
<1>12. Done(marked, waiting, reached) = Done(visited, queue, component)
  BY DEF Done
<1> QED BY <1>0a, <1>11, <1>12

LEMMA RingEnds ==
  ASSUME NEW g \in Graphs, NEW visited, NEW component, component # {}, NEW rings \in Seq(SUBSET Entities),
         Frontier(g, visited, {}, component), Collected(g, Done(visited, {}, component), rings),
         NEW after, after = IF IsRing(g, component) THEN Append(rings, component) ELSE rings
  PROVE  /\ Frontier(g, visited, {}, {})
         /\ Collected(g, Done(visited, {}, {}), after)
         /\ after \in Seq(SUBSET Entities)
<1> DEFINE done == Done(visited, {}, component)
           then == Done(visited, {}, {})
<1>1. PICK a \in component : TRUE
  OBVIOUS
<1>2. component \subseteq N!Nodes(g) /\ component \subseteq Entities /\ a \in Entities
  BY <1>1, GraphFacts DEF Frontier
<1>3. component = ClusterOf(g, a)
  <2>1. component \subseteq ClusterOf(g, a)
    BY <1>1 DEF Frontier
  <2>2. component \in N!Closed(g)
    <3>1. \A n \in component : N!Neighbors(g, n) \subseteq component
      BY DEF Frontier
    <3> QED BY <1>2, <3>1, GraphFacts
  <2>3. ClusterOf(g, a) \subseteq component
    BY <1>1, <2>2, ClusterFacts
  <2> QED BY <2>1, <2>3
<1>4. \A n \in component : ClusterOf(g, n) = component
  BY <1>2, <1>3, ClusterFacts
<1>5. then = done \cup component /\ done \cap component = {}
  BY DEF Done, Frontier
<1>6. Frontier(g, visited, {}, {})
  BY DEF Frontier
<1>7. /\ \A n \in done : ClusterOf(g, n) \subseteq done
      /\ \A i, j \in DOMAIN rings : rings[i] = rings[j] => i = j
      /\ \A i \in DOMAIN rings : \E n \in done : rings[i] = ClusterOf(g, n)
      /\ \A n \in done : Listed(rings, ClusterOf(g, n)) <=> IsRing(g, ClusterOf(g, n))
  BY DEF Collected, Whole
<1>8. \A n \in done : ClusterOf(g, n) # component
  <2>1. \A n \in done : n \in Entities /\ n \in ClusterOf(g, n)
    BY GraphFacts, ClusterFacts DEF Frontier, Done
  <2> QED BY <1>5, <2>1
<1>9. ~ Listed(rings, component)
  BY <1>7, <1>8 DEF Listed
<1> HIDE DEF done, then
<1>10. /\ after \in Seq(SUBSET Entities)
       /\ \A i, j \in DOMAIN after : after[i] = after[j] => i = j
       /\ \A c : Listed(after, c) <=> Listed(rings, c) \/ (c = component /\ IsRing(g, component))
  <2>1. CASE ~ IsRing(g, component)
    BY <1>7, <2>1
  <2>2. CASE IsRing(g, component)
    <3>1. after = Append(rings, component) /\ Len(rings) \in Nat
      BY <2>2
    <3>2. component \in SUBSET Entities
      BY <1>2
    <3>3. /\ after \in Seq(SUBSET Entities)
          /\ DOMAIN after = 1..Len(rings) + 1
          /\ \A i \in 1..Len(rings) : after[i] = rings[i]
          /\ after[Len(rings) + 1] = component
          /\ DOMAIN rings = 1..Len(rings)
      BY <3>1, <3>2
    <3>4. \A i \in 1..Len(rings) : after[i] # component
      BY <1>9, <3>3 DEF Listed
    <3>5. ASSUME NEW i \in DOMAIN after, NEW j \in DOMAIN after, after[i] = after[j] PROVE i = j
      <4>1. i \in 1..Len(rings) /\ j \in 1..Len(rings) => i = j
        BY <1>7, <3>3, <3>5
      <4>2. i = Len(rings) + 1 \/ i \in 1..Len(rings)
        BY <3>1, <3>3
      <4>3. j = Len(rings) + 1 \/ j \in 1..Len(rings)
        BY <3>1, <3>3
      <4> QED BY <3>3, <3>4, <3>5, <4>1, <4>2, <4>3
    <3>6. ASSUME NEW c PROVE Listed(after, c) <=> Listed(rings, c) \/ c = component
      <4>1. \A i : i \in 1..Len(rings) + 1 <=> i \in 1..Len(rings) \/ i = Len(rings) + 1
        BY <3>1
      <4> QED BY <3>3, <4>1 DEF Listed
    <3> QED BY <2>2, <3>3, <3>5, <3>6
  <2> QED BY <2>1, <2>2
<1>11. \A n \in then : ClusterOf(g, n) \subseteq then
  BY <1>4, <1>5, <1>7
<1>12. \A i \in DOMAIN after : \E n \in then : after[i] = ClusterOf(g, n)
  <2> TAKE i \in DOMAIN after
  <2>1. Listed(rings, after[i]) \/ after[i] = component
    BY <1>10 DEF Listed
  <2> QED BY <1>1, <1>3, <1>5, <1>7, <2>1 DEF Listed
<1>13. \A n \in then : Listed(after, ClusterOf(g, n)) <=> IsRing(g, ClusterOf(g, n))
  BY <1>4, <1>5, <1>7, <1>8, <1>9, <1>10
<1>14. Collected(g, then, after)
  BY <1>10, <1>11, <1>12, <1>13 DEF Collected, Whole
<1> QED BY <1>6, <1>10, <1>14 DEF then

(***************************************************************************)
(* findCycles: the calls of one depth are all the paths of that length with *)
(* a neighbor of their end, and the cycles found the shorter circles.       *)
(***************************************************************************)
Path(g, path) ==
  /\ path \in Seq(N!Nodes(g))
  /\ \A i, j \in 1..Len(path) : path[i] = path[j] => i = j
  /\ \A i \in 1..Len(path) - 1 : N!Adjacent(g, path[i], path[i + 1])
CallsAt(g, depth) ==
  {c \in [start : N!Nodes(g), current : N!Nodes(g), path : Seq(N!Nodes(g))] :
     /\ Len(c.path) = depth /\ Path(g, c.path)
     /\ depth = 0 => c.current = c.start
     /\ depth > 0 => c.start = c.path[1] /\ N!Adjacent(g, c.path[depth], c.current)}
CirclesBelow(g, depth) == {p \in N!Circles(g) : Len(p) < depth}

LEMMA CircleIsPath ==
  ASSUME NEW g \in Graphs, NEW p
  PROVE  p \in N!Circles(g) <=> /\ Path(g, p) /\ Len(p) \in 3..MaxLength
                                /\ N!Adjacent(g, p[Len(p)], p[1])
<1> DEFINE nodes == N!Nodes(g)
<1>1. p \in Seq(nodes) <=> \E n \in Nat : p \in [1..n -> nodes]
  BY SeqDef
<1>2. p \in Seq(nodes) => Len(p) \in Nat /\ p \in [1..Len(p) -> nodes] /\ DOMAIN p = 1..Len(p)
  BY LenProperties
<1>3. \A n \in Nat : p \in [1..n -> nodes] => p \in Seq(nodes) /\ Len(p) = n
  <2> TAKE n \in Nat
  <2> HAVE p \in [1..n -> nodes]
  <2>1. p \in Seq(nodes)
    BY <1>1
  <2>2. 1..n = 1..Len(p)
    BY <1>2, <2>1
  <2> QED BY <1>2, <2>1, <2>2
<1>4. (\E n \in 3..MaxLength : p \in [1..n -> nodes]) <=> p \in Seq(nodes) /\ Len(p) \in 3..MaxLength
  <2> HIDE DEF nodes
  <2>1. \A n \in 3..MaxLength : n \in Nat
    BY FundsAssumption
  <2> QED BY <1>2, <1>3, <2>1
<1>5. p \in N!Circles(g) <=>
        /\ \E n \in 3..MaxLength : p \in [1..n -> nodes]
        /\ N!IsInjective(p)
        /\ \A i \in 1..Len(p) - 1 : N!Adjacent(g, p[i], p[i + 1])
        /\ N!Adjacent(g, p[Len(p)], p[1])
  BY DEF N!Circles
<1>6. p \in Seq(nodes) => (N!IsInjective(p) <=> \A i, j \in 1..Len(p) : p[i] = p[j] => i = j)
  BY <1>2 DEF N!IsInjective
<1> QED BY <1>4, <1>5, <1>6 DEF Path

(* A path of a depth that has no call is none: a longer circle would pass   *)
(* through one.                                                             *)
LEMMA CirclesPass ==
  ASSUME NEW g \in Graphs, NEW depth \in Nat, NEW p \in N!Circles(g), depth <= Len(p)
  PROVE  CallsAt(g, depth) # {}
<1> DEFINE nodes == N!Nodes(g)
           path == SubSeq(p, 1, depth)
           current == IF depth < Len(p) THEN p[depth + 1] ELSE p[1]
           c == [start |-> p[1], current |-> current, path |-> path]
<1>1. /\ p \in Seq(nodes) /\ Len(p) \in Nat /\ Len(p) >= 3
      /\ \A i, j \in 1..Len(p) : p[i] = p[j] => i = j
      /\ \A i \in 1..Len(p) - 1 : N!Adjacent(g, p[i], p[i + 1])
      /\ N!Adjacent(g, p[Len(p)], p[1])
  BY CircleIsPath DEF Path
<1>2. \A i \in 1..Len(p) : p[i] \in nodes
  BY <1>1
<1> HIDE DEF nodes
<1>3. path \in Seq(nodes) /\ Len(path) = depth /\ \A i \in 1..depth : path[i] = p[i]
  BY <1>1, <1>2, SubSeqProperties
<1>4. p[1] \in nodes /\ current \in nodes
  BY <1>1, <1>2
<1>5. depth > 0 => N!Adjacent(g, p[depth], current)
  BY <1>1
<1>6. depth = 0 => current = p[1]
  BY <1>1
<1> HIDE DEF path, current
<1>7. Path(g, path)
  <2>1. \A i, j \in 1..depth : i \in 1..Len(p) /\ j \in 1..Len(p)
    BY <1>1
  <2>2. \A i \in 1..depth - 1 : i \in 1..Len(p) - 1 /\ i \in 1..depth /\ i + 1 \in 1..depth
    BY <1>1
  <2> QED BY <1>1, <1>3, <2>1, <2>2 DEF Path, nodes
<1>8. depth > 0 => path[1] = p[1] /\ path[depth] = p[depth]
  BY <1>3
<1>9. c \in CallsAt(g, depth)
  <2>1. c \in [start : nodes, current : nodes, path : Seq(nodes)]
    BY <1>3, <1>4
  <2> QED BY <1>3, <1>5, <1>6, <1>7, <1>8, <2>1 DEF CallsAt, nodes
<1> QED BY <1>9

(* The calls of the next depth are those that the calls of a depth make.    *)
LEMMA CallsGoOn ==
  ASSUME NEW g \in Graphs, NEW depth \in Nat,
         NEW next, next = UNION {{N!Call(c.start, n, Append(c.path, c.current)) : n \in N!Neighbors(g, c.current)} :
                                   c \in {d \in CallsAt(g, depth) : d.current \notin N!ToSet(d.path)}}
  PROVE  next = CallsAt(g, depth + 1)
<1> DEFINE nodes == N!Nodes(g)
           calls == [start : nodes, current : nodes, path : Seq(nodes)]
           going == {d \in CallsAt(g, depth) : d.current \notin N!ToSet(d.path)}
<1>1. ASSUME NEW c \in going, NEW n \in N!Neighbors(g, c.current)
      PROVE  N!Call(c.start, n, Append(c.path, c.current)) \in CallsAt(g, depth + 1)
  <2> DEFINE path == c.path  end == c.current  longer == Append(path, end)
  <2>1. /\ path \in Seq(nodes) /\ end \in nodes /\ c.start \in nodes /\ Len(path) = depth
        /\ \A i, j \in 1..depth : path[i] = path[j] => i = j
        /\ \A i \in 1..depth - 1 : N!Adjacent(g, path[i], path[i + 1])
        /\ depth = 0 => end = c.start
        /\ depth > 0 => c.start = path[1] /\ N!Adjacent(g, path[depth], end)
    BY DEF CallsAt, Path
  <2>2. \A i \in 1..depth : path[i] # end
    <3>1. DOMAIN path = 1..depth
      BY <2>1
    <3> QED BY <3>1 DEF N!ToSet
  <2>3. n \in nodes /\ N!Adjacent(g, end, n)
    BY GraphFacts
  <2> HIDE DEF nodes, path, end
  <2>4. /\ longer \in Seq(nodes) /\ Len(longer) = depth + 1
        /\ \A i \in 1..depth : longer[i] = path[i]
        /\ longer[depth + 1] = end
    BY <2>1
  <2>5. Path(g, longer)
    <3>1. ASSUME NEW i \in 1..depth + 1, NEW j \in 1..depth + 1, longer[i] = longer[j] PROVE i = j
      <4>1. (i \in 1..depth \/ i = depth + 1) /\ (j \in 1..depth \/ j = depth + 1)
        OBVIOUS
      <4> QED BY <2>1, <2>2, <2>4, <3>1, <4>1
    <3>2. ASSUME NEW i \in 1..(depth + 1) - 1 PROVE N!Adjacent(g, longer[i], longer[i + 1])
      <4>1. CASE i = depth
        <5>1. depth \in 1..depth /\ depth > 0
          BY <4>1
        <5>2. longer[depth] = path[depth] /\ longer[depth + 1] = end
          BY <2>4, <5>1
        <5>3. N!Adjacent(g, path[depth], end)
          BY <2>1, <5>1
        <5> HIDE DEF longer
        <5> QED BY <4>1, <5>2, <5>3
      <4>2. CASE i < depth
        <5>1. i \in 1..depth - 1 /\ i \in 1..depth /\ i + 1 \in 1..depth
          BY <4>2
        <5>2. longer[i] = path[i] /\ longer[i + 1] = path[i + 1]
          BY <2>4, <5>1
        <5>3. N!Adjacent(g, path[i], path[i + 1])
          BY <2>1, <5>1
        <5> HIDE DEF longer
        <5> QED BY <5>2, <5>3
      <4>3. i = depth \/ i < depth
        OBVIOUS
      <4> HIDE DEF longer
      <4> QED BY <4>1, <4>2, <4>3
    <3> QED BY <2>4, <3>1, <3>2 DEF Path, nodes
  <2>6. c.start = longer[1]
    BY <2>1, <2>4
  <2> HIDE DEF longer
  <2>7. N!Call(c.start, n, longer) \in calls
    BY <2>1, <2>3, <2>4 DEF N!Call
  <2>8. /\ N!Call(c.start, n, longer).path = longer /\ N!Call(c.start, n, longer).current = n
        /\ N!Call(c.start, n, longer).start = c.start
    BY DEF N!Call
  <2>9. N!Call(c.start, n, longer) \in CallsAt(g, depth + 1)
    BY <2>3, <2>4, <2>5, <2>6, <2>7, <2>8 DEF CallsAt, nodes
  <2> QED BY <2>9 DEF longer, path, end
<1>2. ASSUME NEW e \in CallsAt(g, depth + 1)
      PROVE  \E c \in going : e.current \in N!Neighbors(g, c.current) /\ e = N!Call(c.start, e.current, Append(c.path, c.current))
  <2> DEFINE longer == e.path  path == SubSeq(longer, 1, depth)  end == longer[depth + 1]
             c == [start |-> e.start, current |-> end, path |-> path]
  <2>1. /\ longer \in Seq(nodes) /\ Len(longer) = depth + 1
        /\ \A i, j \in 1..depth + 1 : longer[i] = longer[j] => i = j
        /\ \A i \in 1..depth : N!Adjacent(g, longer[i], longer[i + 1])
        /\ e.start = longer[1] /\ N!Adjacent(g, end, e.current)
        /\ e \in calls
    BY DEF CallsAt, Path
  <2>2. \A i \in 1..depth + 1 : longer[i] \in nodes
    BY <2>1
  <2>3. e.current \in N!Neighbors(g, end)
    BY <2>1, GraphFacts
  <2>4. e = [start |-> e.start, current |-> e.current, path |-> e.path]
    BY <2>1
  <2> HIDE DEF nodes, longer
  <2>5. path \in Seq(nodes) /\ Len(path) = depth /\ \A i \in 1..depth : path[i] = longer[i]
    BY <2>1, <2>2, SubSeqProperties
  <2>6. end \in nodes /\ e.start \in nodes
    BY <2>1, <2>2
  <2>7. longer = Append(path, end)
    <3>1. Append(path, end) \in Seq(nodes) /\ Len(Append(path, end)) = depth + 1
      BY <2>5, <2>6
    <3>2. \A i \in 1..depth + 1 : Append(path, end)[i] = longer[i]
      BY <2>5, <2>6
    <3> HIDE DEF path, end
    <3> QED BY <2>1, <3>1, <3>2, SeqEqual
  <2>8. Path(g, path)
    <3>1. \A i, j \in 1..depth : i \in 1..depth + 1 /\ j \in 1..depth + 1
      OBVIOUS
    <3>2. \A i \in 1..depth - 1 : i \in 1..depth /\ i + 1 \in 1..depth
      OBVIOUS
    <3> HIDE DEF path
    <3> QED BY <2>1, <2>5, <3>1, <3>2 DEF Path, nodes
  <2>9. depth > 0 => e.start = path[1] /\ N!Adjacent(g, path[depth], end)
    BY <2>1, <2>5
  <2>10. depth = 0 => end = e.start
    BY <2>1
  <2>11. end \notin N!ToSet(path)
    <3>1. DOMAIN path = 1..depth
      BY <2>5
    <3>2. \A i \in 1..depth : path[i] # end
      <4> TAKE i \in 1..depth
      <4>1. i \in 1..depth + 1 /\ depth + 1 \in 1..depth + 1 /\ i # depth + 1
        OBVIOUS
      <4> QED BY <2>1, <2>5, <4>1
    <3> HIDE DEF path, end
    <3> QED BY <3>1, <3>2 DEF N!ToSet
  <2> HIDE DEF path, end
  <2>12. c \in calls
    BY <2>5, <2>6 DEF nodes
  <2>13. c.path = path /\ c.current = end /\ c.start = e.start
    OBVIOUS
  <2> HIDE DEF c, calls
  <2>14. c \in CallsAt(g, depth)
    BY <2>5, <2>8, <2>9, <2>10, <2>12, <2>13 DEF CallsAt, calls, nodes
  <2>15. c \in going
    BY <2>11, <2>13, <2>14
  <2>16. e = N!Call(c.start, e.current, Append(c.path, c.current))
    BY <2>4, <2>7, <2>13 DEF N!Call, longer
  <2> QED BY <2>3, <2>13, <2>15, <2>16
<1> HIDE DEF going
<1>3. next \subseteq CallsAt(g, depth + 1)
  BY <1>1 DEF going
<1>4. CallsAt(g, depth + 1) \subseteq next
  BY <1>2 DEF going
<1> QED BY <1>3, <1>4

(* The circles of a length are the paths of the calls that come back to     *)
(* their start.                                                             *)
LEMMA CallsClose ==
  ASSUME NEW g \in Graphs, NEW depth \in Nat, depth <= MaxLength,
         NEW closed, closed = {c.path : c \in {d \in CallsAt(g, depth) :
                         d.current \in N!ToSet(d.path) /\ d.current = d.start /\ Len(d.path) >= 3}}
  PROVE  CirclesBelow(g, depth) \cup closed = CirclesBelow(g, depth + 1)
<1> DEFINE nodes == N!Nodes(g)
           closing == {d \in CallsAt(g, depth) :
                         d.current \in N!ToSet(d.path) /\ d.current = d.start /\ Len(d.path) >= 3}
<1>1. ASSUME NEW c \in closing PROVE c.path \in N!Circles(g) /\ Len(c.path) = depth
  <2>1. /\ Path(g, c.path) /\ Len(c.path) = depth /\ depth >= 3
        /\ c.start = c.path[1] /\ N!Adjacent(g, c.path[depth], c.current) /\ c.current = c.start
    BY DEF CallsAt
  <2>2. Len(c.path) \in 3..MaxLength
    BY <2>1, FundsAssumption
  <2> QED BY <2>1, <2>2, CircleIsPath
<1>2. ASSUME NEW p \in N!Circles(g), Len(p) = depth PROVE \E c \in closing : c.path = p
  <2> DEFINE c == [start |-> p[1], current |-> p[1], path |-> p]
  <2>1. Path(g, p) /\ depth >= 3 /\ N!Adjacent(g, p[depth], p[1])
    BY <1>2, CircleIsPath
  <2>2. p \in Seq(nodes) /\ p[1] \in nodes /\ p[1] \in N!ToSet(p)
    <3>1. p \in Seq(nodes) /\ 1 \in DOMAIN p /\ 1 \in 1..Len(p)
      BY <1>2, <2>1 DEF Path
    <3> QED BY <3>1 DEF N!ToSet
  <2>3. c \in CallsAt(g, depth)
    BY <1>2, <2>1, <2>2 DEF CallsAt
  <2>4. c \in closing
    BY <1>2, <2>1, <2>2, <2>3
  <2> QED BY <2>4
<1>3. \A p \in N!Circles(g) : Len(p) \in Nat
  BY CircleIsPath DEF Path
<1> HIDE DEF closing
<1>4. closed = {c.path : c \in closing}
  BY DEF closing
<1>5. CirclesBelow(g, depth) \cup closed \subseteq CirclesBelow(g, depth + 1)
  BY <1>1, <1>3, <1>4 DEF CirclesBelow
<1>6. ASSUME NEW p \in CirclesBelow(g, depth + 1) PROVE p \in CirclesBelow(g, depth) \cup closed
  <2>1. p \in N!Circles(g) /\ Len(p) \in Nat /\ Len(p) < depth + 1
    BY <1>3 DEF CirclesBelow
  <2>2. CASE Len(p) < depth
    BY <2>1, <2>2 DEF CirclesBelow
  <2>3. CASE Len(p) = depth
    <3>1. PICK c \in closing : c.path = p
      BY <1>2, <2>1, <2>3
    <3> QED BY <1>4, <3>1
  <2> QED BY <2>1, <2>2, <2>3
<1> QED BY <1>5, <1>6

(***************************************************************************)
(* The whole search.                                                       *)
(***************************************************************************)
Searches ==
  [pc : {"idle", "rings", "cycles"}, graph : Graphs, visited : SUBSET Entities, queue : SUBSET Entities,
   component : SUBSET Entities, rings : Seq(SUBSET Entities), calls : SUBSET [start : Entities,
   current : Entities, path : Seq(Entities)], cycles : SUBSET Seq(Entities)]

(* Whatever the search has read is a prefix of the edges.                   *)
Read(graph, all) == Len(graph) <= Len(all) /\ \A i \in 1..Len(graph) : graph[i] = all[i]

RingSearch(s) ==
  s.pc = "rings" =>
    /\ Frontier(s.graph, s.visited, s.queue, s.component)
    /\ Collected(s.graph, Done(s.visited, s.queue, s.component), s.rings)

CycleSearch(s) ==
  s.pc = "cycles" =>
    \/ s.calls = {} /\ s.cycles = N!Circles(s.graph)
    \/ \E depth \in 0..MaxLength + 1 :
         s.calls = CallsAt(s.graph, depth) /\ s.cycles = CirclesBelow(s.graph, depth)

NetInv ==
  /\ edges \in Graphs /\ Len(edges) <= MaxEdges
  /\ search \in Searches /\ Read(search.graph, edges)
  /\ search.pc # "rings" => search.rings = << >> /\ search.queue = {} /\ search.component = {}
  /\ RingSearch(search) /\ CycleSearch(search)

LEMMA InitNet == N!Init => NetInv
<1> SUFFICES ASSUME N!Init PROVE NetInv
  OBVIOUS
<1>1. edges = << >> /\ search = N!NoSearch /\ << >> \in Graphs /\ << >> \in Seq(SUBSET Entities)
  BY DEF N!Init, Graphs
<1>2. search.pc = "idle" /\ search.graph = << >> /\ search.rings = << >>
      /\ search.queue = {} /\ search.component = {}
  BY <1>1 DEF N!NoSearch
<1>3. search \in Searches
  BY <1>1 DEF N!NoSearch, Searches
<1>4. Len(edges) <= MaxEdges /\ Read(search.graph, edges)
  BY <1>1, <1>2, FundsAssumption DEF Read
<1> QED BY <1>1, <1>2, <1>3, <1>4 DEF NetInv, RingSearch, CycleSearch

LEMMA RestingNet == NetInv /\ UNCHANGED ofNetworkAnalysis => NetInv'
<1> SUFFICES ASSUME NetInv, edges' = edges, search' = search PROVE NetInv'
  BY DEF ofNetworkAnalysis
<1> QED BY DEF NetInv

(* A recorded edge is one more behind what was read.                        *)
LEMMA NetRecords == NetInv /\ (\E a, b \in Entities : N!EdgeRecorded(a, b)) => NetInv'
<1> SUFFICES ASSUME NetInv, NEW a \in Entities, NEW b \in Entities, N!EdgeRecorded(a, b) PROVE NetInv'
  OBVIOUS
<1> DEFINE edge == <<a, b>>  pairs == Entities \X Entities
<1>1. edge \in pairs /\ edges \in Seq(pairs)
  BY DEF NetInv, Graphs
<1>2. edges' = Append(edges, edge) /\ search' = search /\ Len(edges) < MaxEdges
  BY DEF N!EdgeRecorded
<1> HIDE DEF edge, pairs
<1>3. /\ edges' \in Seq(pairs) /\ Len(edges') = Len(edges) + 1 /\ Len(edges) \in Nat
      /\ \A i \in 1..Len(edges) : edges'[i] = edges[i]
  BY <1>1, <1>2
<1>4. Len(edges') <= MaxEdges
  BY <1>2, <1>3, FundsAssumption
<1>5. Read(search.graph, edges')
  <2>1. search.graph \in Graphs /\ Read(search.graph, edges)
    BY DEF NetInv, Searches
  <2>2. Len(search.graph) \in Nat
    BY <2>1 DEF Graphs
  <2> QED BY <1>3, <2>1, <2>2 DEF Read
<1> QED BY <1>2, <1>3, <1>4, <1>5 DEF NetInv, Graphs, pairs

(* A search begins with the edges as they are. *)
LEMMA NetDetectsRings == NetInv /\ N!DetectFraudRings => NetInv'
<1> SUFFICES ASSUME NetInv, N!DetectFraudRings PROVE NetInv'
  OBVIOUS
<1>1. edges' = edges /\ search' = [N!NoSearch EXCEPT !.pc = "rings", !.graph = edges] /\ edges \in Graphs
  BY DEF N!DetectFraudRings, NetInv
<1>2. /\ search'.pc = "rings" /\ search'.graph = edges /\ search'.visited = {} /\ search'.queue = {}
      /\ search'.component = {} /\ search'.rings = << >>
  BY <1>1 DEF N!NoSearch
<1>3. search' \in Searches
  <2>1. << >> \in Seq(SUBSET Entities)
    OBVIOUS
  <2> QED BY <1>1, <2>1 DEF N!NoSearch, Searches
<1>4. Read(search'.graph, edges)
  BY <1>1, <1>2 DEF Read, Graphs
<1>5. RingSearch(search')
  <2>1. Frontier(edges, {}, {}, {})
    BY DEF Frontier
  <2>2. Done({}, {}, {}) = {}
    BY DEF Done
  <2>3. Collected(edges, {}, << >>)
    BY DEF Collected, Whole
  <2> QED BY <1>2, <2>1, <2>2, <2>3 DEF RingSearch
<1>6. CycleSearch(search')
  BY <1>2 DEF CycleSearch
<1> QED BY <1>1, <1>2, <1>3, <1>4, <1>5, <1>6 DEF NetInv

LEMMA NetDetectsCycles == NetInv /\ N!DetectMoneyLaundering => NetInv'
<1> SUFFICES ASSUME NetInv, N!DetectMoneyLaundering PROVE NetInv'
  OBVIOUS
<1> DEFINE first == {N!Call(n, n, << >>) : n \in N!Nodes(edges)}
<1>1. edges' = edges /\ edges \in Graphs
      /\ search' = [N!NoSearch EXCEPT !.pc = "cycles", !.graph = edges, !.calls = first]
  BY DEF N!DetectMoneyLaundering, NetInv
<1>2. /\ search'.pc = "cycles" /\ search'.graph = edges /\ search'.calls = first
      /\ search'.cycles = {} /\ search'.rings = << >> /\ search'.queue = {} /\ search'.component = {}
  BY <1>1 DEF N!NoSearch
<1>3. N!Nodes(edges) \subseteq Entities
  BY <1>1, GraphFacts
<1>4. search' \in Searches
  <2>1. << >> \in Seq(SUBSET Entities) /\ << >> \in Seq(Entities)
    OBVIOUS
  <2>2. first \in SUBSET [start : Entities, current : Entities, path : Seq(Entities)]
    <3>1. \A n \in Entities : N!Call(n, n, << >>) \in [start : Entities, current : Entities, path : Seq(Entities)]
      BY <2>1 DEF N!Call
    <3> QED BY <1>3, <3>1
  <2> HIDE DEF first
  <2> QED BY <1>1, <2>1, <2>2 DEF N!NoSearch, Searches
<1>5. first = CallsAt(edges, 0)
  <2> DEFINE nodes == N!Nodes(edges)  calls == [start : nodes, current : nodes, path : Seq(nodes)]
  <2>1. ASSUME NEW n \in nodes PROVE N!Call(n, n, << >>) \in CallsAt(edges, 0)
    <3>1. << >> \in Seq(nodes) /\ Len(<< >>) = 0
      OBVIOUS
    <3>2. Path(edges, << >>)
      BY DEF Path
    <3> QED BY <3>1, <3>2 DEF CallsAt, N!Call
  <2>2. ASSUME NEW c \in CallsAt(edges, 0) PROVE c = N!Call(c.start, c.start, << >>) /\ c.start \in nodes
    <3>1. c \in calls /\ Len(c.path) = 0 /\ c.current = c.start
      BY DEF CallsAt
    <3>2. c.path = << >> /\ c.start \in nodes
      BY <3>1
    <3> QED BY <3>1, <3>2 DEF N!Call
  <2> QED BY <2>1, <2>2
<1>6. {} = CirclesBelow(edges, 0)
  BY <1>1, CircleIsPath DEF CirclesBelow, Path
<1>7. CycleSearch(search')
  <2>1. 0 \in 0..MaxLength + 1
    BY FundsAssumption
  <2> HIDE DEF first
  <2> QED BY <1>2, <1>5, <1>6, <2>1 DEF CycleSearch
<1>8. Read(search'.graph, edges)
  BY <1>1, <1>2 DEF Read, Graphs
<1>9. RingSearch(search')
  BY <1>2 DEF RingSearch
<1> HIDE DEF first
<1> QED BY <1>1, <1>2, <1>4, <1>7, <1>8, <1>9 DEF NetInv

LEMMA NetBegins == NetInv /\ (\E n \in Entities : N!BeginComponent(n)) => NetInv'
<1> SUFFICES ASSUME NetInv, NEW n \in Entities, N!BeginComponent(n) PROVE NetInv'
  OBVIOUS
<1> DEFINE s == search  t == search'  g == s.graph
<1>1. /\ s \in Searches /\ g \in Graphs /\ RingSearch(s) /\ edges' = edges
      /\ s.pc = "rings" /\ s.queue = {} /\ s.component = {} /\ n \in N!Nodes(g) \ s.visited
      /\ t = [s EXCEPT !.visited = s.visited \cup {n}, !.queue = {n}]
  BY DEF NetInv, N!BeginComponent, Searches
<1>2. /\ t \in Searches /\ t.pc = "rings" /\ t.graph = g /\ t.visited = s.visited \cup {n}
      /\ t.queue = {n} /\ t.component = {} /\ t.rings = s.rings
  BY <1>1 DEF Searches
<1> HIDE DEF s, t
<1>3. Frontier(g, s.visited, {}, {}) /\ Collected(g, Done(s.visited, {}, {}), s.rings)
  BY <1>1 DEF RingSearch
<1>4. RingSearch(t)
  <2>1. /\ Frontier(g, s.visited \cup {n}, {n}, {})
        /\ Done(s.visited \cup {n}, {n}, {}) = Done(s.visited, {}, {})
    BY <1>1, <1>3, RingBegins
  <2> QED BY <1>2, <1>3, <2>1 DEF RingSearch
<1>5. CycleSearch(t)
  BY <1>2 DEF CycleSearch
<1> QED BY <1>1, <1>2, <1>4, <1>5 DEF NetInv, s, t

LEMMA NetVisits == NetInv /\ (\E n \in Entities : N!VisitNext(n)) => NetInv'
<1> SUFFICES ASSUME NetInv, NEW n \in Entities, N!VisitNext(n) PROVE NetInv'
  OBVIOUS
<1> DEFINE s == search  t == search'  g == s.graph
           new == N!Neighbors(g, n) \ s.visited
           queue == (s.queue \ {n}) \cup new
           component == s.component \cup {n}
           visited == s.visited \cup new
<1>1. /\ s \in Searches /\ g \in Graphs /\ RingSearch(s) /\ edges' = edges
      /\ s.pc = "rings" /\ n \in s.queue
      /\ t = [s EXCEPT !.component = component, !.visited = visited, !.queue = queue]
  BY DEF NetInv, N!VisitNext, Searches
<1>2. new \subseteq Entities /\ new = N!Neighbors(g, n) \ s.visited
  BY <1>1, GraphFacts
<1> HIDE DEF new
<1>3. component \in SUBSET Entities /\ queue \in SUBSET Entities /\ visited \in SUBSET Entities
  BY <1>1, <1>2 DEF Searches
<1>4. /\ Frontier(g, s.visited, s.queue, s.component)
      /\ Collected(g, Done(s.visited, s.queue, s.component), s.rings)
  BY <1>1 DEF RingSearch
<1>5. Whole(g, Done(s.visited, s.queue, s.component))
  BY <1>4 DEF Collected
<1>6. /\ Frontier(g, visited, queue, component)
      /\ Done(visited, queue, component) = Done(s.visited, s.queue, s.component)
  <2>1. g \in Graphs /\ n \in s.queue /\ component = s.component \cup {n}
    BY <1>1
  <2>2. visited = Marked(g, s.visited, n) /\ queue = Waiting(g, s.visited, s.queue, n)
    BY <1>2 DEF Marked, Waiting
  <2> HIDE DEF queue, component, visited, s, g
  <2>3. /\ Frontier(g, Marked(g, s.visited, n), Waiting(g, s.visited, s.queue, n), component)
        /\ Done(Marked(g, s.visited, n), Waiting(g, s.visited, s.queue, n), component)
             = Done(s.visited, s.queue, s.component)
    BY <1>4, <1>5, <2>1, RingVisits
  <2> QED BY <2>2, <2>3
<1> HIDE DEF queue, component, visited
<1>7. /\ t \in Searches /\ t.pc = "rings" /\ t.graph = g /\ t.visited = visited
      /\ t.queue = queue /\ t.component = component /\ t.rings = s.rings
  BY <1>1, <1>3 DEF Searches
<1> HIDE DEF s, t
<1>8. RingSearch(t)
  BY <1>4, <1>6, <1>7 DEF RingSearch
<1>9. CycleSearch(t)
  BY <1>7 DEF CycleSearch
<1> QED BY <1>1, <1>7, <1>8, <1>9 DEF NetInv, s, t

LEMMA NetFinds == NetInv /\ N!ComponentFound => NetInv'
<1> SUFFICES ASSUME NetInv, N!ComponentFound PROVE NetInv'
  OBVIOUS
<1> DEFINE s == search  t == search'  g == s.graph
           after == IF IsRing(g, s.component) THEN Append(s.rings, s.component) ELSE s.rings
<1>1. /\ s \in Searches /\ g \in Graphs /\ RingSearch(s) /\ edges' = edges
      /\ s.pc = "rings" /\ s.queue = {} /\ s.component # {}
      /\ t = [s EXCEPT !.component = {}, !.rings = after]
  <2>1. t = [s EXCEPT !.component = {},
                      !.rings = IF N!Cardinality(s.component) >= 3 /\ N!Risky(g, s.component)
                                  THEN Append(s.rings, s.component) ELSE s.rings]
    BY Zenon DEF N!ComponentFound
  <2>2. N!Cardinality(s.component) >= 3 /\ N!Risky(g, s.component) <=> IsRing(g, s.component)
    BY SameNetworkOps DEF IsRing
  <2>3. s \in Searches /\ g \in Graphs /\ RingSearch(s)
    BY DEF NetInv, Searches
  <2>4. edges' = edges /\ s.pc = "rings" /\ s.queue = {} /\ s.component # {}
    BY DEF N!ComponentFound
  <2> QED BY <2>1, <2>2, <2>3, <2>4, Zenon
<1>2. s.rings \in Seq(SUBSET Entities)
  BY <1>1 DEF Searches
<1>3. /\ Frontier(g, s.visited, {}, s.component)
      /\ Collected(g, Done(s.visited, {}, s.component), s.rings)
  BY <1>1 DEF RingSearch
<1> HIDE DEF s, t, g
<1>4. /\ Frontier(g, s.visited, {}, {})
      /\ Collected(g, Done(s.visited, {}, {}), after)
      /\ after \in Seq(SUBSET Entities)
  BY <1>1, <1>2, <1>3, RingEnds
<1> HIDE DEF after
<1>5. /\ t \in Searches /\ t.pc = "rings" /\ t.graph = g /\ t.visited = s.visited
      /\ t.queue = {} /\ t.component = {} /\ t.rings = after
  BY <1>1, <1>4 DEF Searches, g
<1>6. RingSearch(t)
  BY <1>4, <1>5 DEF RingSearch
<1>7. CycleSearch(t)
  BY <1>5 DEF CycleSearch
<1> QED BY <1>1, <1>5, <1>6, <1>7 DEF NetInv, s, t, g

LEMMA NetCycles == NetInv /\ N!FindCycles => NetInv'
<1> SUFFICES ASSUME NetInv, N!FindCycles PROVE NetInv'
  OBVIOUS
<1> DEFINE s == search  t == search'  g == s.graph
           short == {c \in s.calls : Len(c.path) <= MaxLength}
           closing == {c \in short : c.current \in N!ToSet(c.path) /\ c.current = c.start /\ Len(c.path) >= 3}
           going == {c \in short : c.current \notin N!ToSet(c.path)}
           found == {c.path : c \in closing}
           next == UNION {{N!Call(c.start, n, Append(c.path, c.current)) : n \in N!Neighbors(g, c.current)} :
                            c \in going}
<1>1. /\ s \in Searches /\ g \in Graphs /\ CycleSearch(s) /\ edges' = edges /\ s.pc = "cycles" /\ s.calls # {}
      /\ t = [s EXCEPT !.cycles = s.cycles \cup found, !.calls = next]
  BY DEF NetInv, N!FindCycles, Searches
<1>2. /\ N!Nodes(g) \subseteq Entities
      /\ \A depth : CallsAt(g, depth) \subseteq [start : Entities, current : Entities, path : Seq(Entities)]
      /\ N!Circles(g) \subseteq Seq(Entities)
  <2>1. N!Nodes(g) \subseteq Entities
    BY <1>1, GraphFacts
  <2>2. \A p \in Seq(N!Nodes(g)) : p \in Seq(Entities)
    BY <2>1, SeqMonotonic
  <2>3. \A depth : CallsAt(g, depth) \subseteq [start : Entities, current : Entities, path : Seq(Entities)]
    <3>1. [start : N!Nodes(g), current : N!Nodes(g), path : Seq(N!Nodes(g))]
            \subseteq [start : Entities, current : Entities, path : Seq(Entities)]
      BY <2>1, <2>2
    <3> QED BY <3>1 DEF CallsAt
  <2>4. N!Circles(g) \subseteq Seq(Entities)
    BY <1>1, <2>2, CircleIsPath DEF Path
  <2> QED BY <2>1, <2>3, <2>4
<1>3. PICK depth \in 0..MaxLength + 1 : s.calls = CallsAt(g, depth) /\ s.cycles = CirclesBelow(g, depth)
  BY <1>1 DEF CycleSearch
<1>4. \A c \in s.calls : Len(c.path) = depth
  BY <1>3 DEF CallsAt
<1>5. depth \in Nat /\ MaxLength \in Nat
  BY FundsAssumption
<1> HIDE DEF s, t, g
<1>6. CASE depth <= MaxLength
  <2>1. short = CallsAt(g, depth)
    BY <1>3, <1>4, <1>6
  <2> HIDE DEF short
  <2>2. next = CallsAt(g, depth + 1)
    BY <1>1, <1>5, <2>1, CallsGoOn
  <2>3. CirclesBelow(g, depth) \cup found = CirclesBelow(g, depth + 1)
    BY <1>1, <1>5, <1>6, <2>1, CallsClose
  <2> HIDE DEF found, next
  <2>4. /\ t.calls = CallsAt(g, depth + 1) /\ t.cycles = CirclesBelow(g, depth + 1)
        /\ t.pc = "cycles" /\ t.graph = g /\ t.rings = s.rings
        /\ t.queue = s.queue /\ t.component = s.component
    BY <1>1, <1>3, <2>2, <2>3 DEF Searches, g
  <2>5. depth + 1 \in 0..MaxLength + 1
    BY <1>5, <1>6
  <2>6. CycleSearch(t) /\ RingSearch(t)
    BY <2>4, <2>5 DEF CycleSearch, RingSearch
  <2>7. t \in Searches
    <3>1. /\ next \in SUBSET [start : Entities, current : Entities, path : Seq(Entities)]
          /\ s.cycles \cup found \in SUBSET Seq(Entities)
      BY <1>2, <1>3, <2>2, <2>3 DEF CirclesBelow
    <3> QED BY <1>1, <3>1 DEF Searches
  <2> QED BY <1>1, <2>4, <2>6, <2>7 DEF NetInv, s, t, g
<1>7. CASE depth = MaxLength + 1
  <2>1. short = {}
    BY <1>4, <1>5, <1>7
  <2>2. next = {} /\ found = {}
    BY <2>1
  <2> HIDE DEF found, next
  <2>3. /\ t.calls = {} /\ t.cycles = CirclesBelow(g, depth)
        /\ t.pc = "cycles" /\ t.graph = g /\ t.rings = s.rings
        /\ t.queue = s.queue /\ t.component = s.component
    BY <1>1, <1>3, <2>2 DEF Searches, g
  <2>4. CirclesBelow(g, depth) = N!Circles(g)
    BY <1>1, <1>5, <1>7, CircleIsPath DEF CirclesBelow
  <2>5. CycleSearch(t) /\ RingSearch(t)
    BY <2>3, <2>4 DEF CycleSearch, RingSearch
  <2>6. t \in Searches
    <3>1. s.cycles \cup found = s.cycles
      BY <2>2
    <3> QED BY <1>1, <2>2, <3>1 DEF Searches
  <2> QED BY <1>1, <2>3, <2>5, <2>6 DEF NetInv, s, t, g
<1> QED BY <1>5, <1>6, <1>7

LEMMA NextNet == NetInv /\ N!Next => NetInv'
BY NetRecords, NetDetectsRings, NetBegins, NetVisits, NetFinds, NetDetectsCycles, NetCycles DEF N!Next

LEMMA NetTypes == NetInv => N!TypeOK
<1> SUFFICES ASSUME NetInv PROVE N!TypeOK
  OBVIOUS
<1>1. /\ edges \in Graphs /\ Len(edges) <= MaxEdges /\ search \in Searches
      /\ search.graph \in Graphs /\ Read(search.graph, edges) /\ RingSearch(search)
      /\ search.pc \in {"idle", "rings", "cycles"}
      /\ search.queue \subseteq Entities /\ search.component \subseteq Entities /\ search.visited \subseteq Entities
      /\ search.calls \subseteq [start : Entities, current : Entities, path : Seq(Entities)]
  BY DEF NetInv, Searches
<1>2. N!IsPrefix(search.graph, edges)
  <2> DEFINE g == search.graph  len == Len(search.graph)  pairs == Entities \X Entities
  <2>1. g \in Seq(pairs) /\ edges \in Seq(pairs) /\ len \in Nat /\ Len(edges) \in Nat
    BY <1>1 DEF Graphs
  <2>2. len <= Len(edges) /\ \A i \in 1..len : g[i] = edges[i]
    BY <1>1 DEF Read
  <2> HIDE DEF pairs
  <2>3. \A i \in 1..len : g[i] \in pairs /\ edges[i] \in pairs
    BY <2>1, <2>2
  <2> HIDE DEF g
  <2>4. /\ SubSeq(g, 1, len) \in Seq(pairs) /\ SubSeq(edges, 1, len) \in Seq(pairs)
        /\ Len(SubSeq(g, 1, len)) = len /\ Len(SubSeq(edges, 1, len)) = len
        /\ \A i \in 1..len : SubSeq(g, 1, len)[i] = g[i] /\ SubSeq(edges, 1, len)[i] = edges[i]
    BY <2>1, <2>3, SubSeqProperties
  <2>5. SubSeq(g, 1, len) = SubSeq(edges, 1, len)
    BY <2>2, <2>4, SeqEqual
  <2> QED BY <2>2, <2>5 DEF N!IsPrefix, g
<1>3. search.queue \cup search.component \subseteq search.visited
  <2>1. search.pc = "rings" => Frontier(search.graph, search.visited, search.queue, search.component)
    BY <1>1 DEF RingSearch
  <2>2. search.pc # "rings" => search.queue = {} /\ search.component = {}
    BY DEF NetInv
  <2> QED BY <2>1, <2>2 DEF Frontier
<1>4. \A c \in search.calls : {c.start, c.current} \cup N!ToSet(c.path) \subseteq Entities
  <2> TAKE c \in search.calls
  <2>1. c.start \in Entities /\ c.current \in Entities /\ c.path \in Seq(Entities)
    BY <1>1
  <2>2. N!ToSet(c.path) \subseteq Entities
    BY <2>1 DEF N!ToSet
  <2> QED BY <2>1, <2>2
<1> QED BY <1>1, <1>2, <1>3, <1>4 DEF N!TypeOK, Graphs

LEMMA RingsTell == NetInv => N!RingsAreClusters
<1> SUFFICES ASSUME NetInv, search.pc = "rings" PROVE N!RingsAreClusters
  BY DEF N!RingsAreClusters
<1> DEFINE g == search.graph  rings == search.rings
           done == Done(search.visited, search.queue, search.component)
<1>1. /\ g \in Graphs /\ rings \in Seq(SUBSET Entities)
      /\ Frontier(g, search.visited, search.queue, search.component)
      /\ Collected(g, done, rings)
  BY DEF NetInv, Searches, RingSearch
<1>2. done \subseteq N!Nodes(g)
  BY <1>1 DEF Frontier, Done
<1>3. N!RingsDetected => done = N!Nodes(g)
  BY <1>1 DEF N!RingsDetected, Frontier, Done
<1> HIDE DEF done
<1>4. N!IsInjective(rings)
  BY <1>1 DEF Collected, N!IsInjective
<1>5. N!Clusters(g) = {ClusterOf(g, a) : a \in N!Nodes(g)}
  BY <1>1, ClusterFacts
<1>6. \A ring \in N!ToSet(rings) : ring \in N!Clusters(g)
  BY <1>1, <1>2, <1>5 DEF Collected, N!ToSet
<1>7. ASSUME N!RingsDetected, NEW c \in N!Clusters(g)
      PROVE  c \in N!ToSet(rings) <=>
               N!Cardinality(c) >= 4 \/ (N!Cardinality(c) = 3 /\ N!Connections(g, c) >= 8)
  <2>1. PICK a \in N!Nodes(g) : c = ClusterOf(g, a)
    BY <1>5
  <2>2. c \in SUBSET N!Nodes(g)
    BY <1>1, <2>1, ClusterFacts
  <2>3. Listed(rings, c) <=> IsRing(g, c)
    BY <1>1, <1>3, <1>7, <2>1 DEF Collected
  <2>4. c \in N!ToSet(rings) <=> Listed(rings, c)
    BY DEF N!ToSet, Listed
  <2>5. IsRing(g, c) <=> Cardinality(c) >= 4 \/ (Cardinality(c) = 3 /\ N!Connections(g, c) >= 8)
    BY <1>1, <2>2, RiskTells DEF IsRing
  <2> QED BY <2>3, <2>4, <2>5, SameNetworkOps
<1> QED BY <1>4, <1>6, <1>7 DEF N!RingsAreClusters

LEMMA CirclesTell == NetInv => N!CirclesAreFound
<1> SUFFICES ASSUME NetInv, N!CyclesDetected PROVE search.cycles = N!Circles(search.graph)
  BY DEF N!CirclesAreFound
<1>1. search.pc = "cycles" /\ search.calls = {} /\ search.graph \in Graphs /\ CycleSearch(search)
  BY DEF NetInv, Searches, N!CyclesDetected
<1>2. CASE search.cycles = N!Circles(search.graph)
  BY <1>2
<1>3. CASE \E depth \in 0..MaxLength + 1 :
             search.calls = CallsAt(search.graph, depth) /\ search.cycles = CirclesBelow(search.graph, depth)
  <2>1. PICK depth \in 0..MaxLength + 1 :
           search.calls = CallsAt(search.graph, depth) /\ search.cycles = CirclesBelow(search.graph, depth)
    BY <1>3
  <2>2. depth \in Nat
    BY FundsAssumption
  <2>3. \A p \in N!Circles(search.graph) : ~ depth <= Len(p)
    BY <1>1, <2>1, <2>2, CirclesPass
  <2>4. \A p \in N!Circles(search.graph) : Len(p) < depth
    BY <1>1, <2>2, <2>3, CircleIsPath
  <2> QED BY <2>1, <2>4 DEF CirclesBelow
<1> QED BY <1>1, <1>2, <1>3 DEF CycleSearch

(* Who is similar at all shares a neighbor, whenever the edges were read.   *)
LEMMA SimilarShare ==
  ASSUME NEW g \in Graphs, NEW h \in Graphs, NEW a, NEW b, N!Similarity(g, a, h, b) > 0
  PROVE  \E m : m \in N!Neighbors(g, a) /\ m \in N!Neighbors(h, b)
<1>1. ASSUME NEW r \in Graphs, NEW n
      PROVE  /\ N!NeighborSet(r, n) \subseteq N!Neighbors(r, n)
             /\ N!Neighbors(r, n) \subseteq N!Nodes(r)
  <2>1. N!NeighborSet(r, n) \subseteq N!Neighbors(r, n)
    BY DEF N!NeighborSet, N!Neighbors, N!ToSet
  <2> QED BY <2>1, GraphFacts
<1> DEFINE all == N!NeighborSet(g, a) \cup N!NeighborSet(h, b)
           common == N!NeighborSet(g, a) \cap N!NeighborSet(h, b)
<1>2. IsFiniteSet(all)
  <2>1. IsFiniteSet(N!Nodes(g)) /\ IsFiniteSet(N!Nodes(h))
    BY GraphFacts
  <2>2. IsFiniteSet(N!Nodes(g) \cup N!Nodes(h))
    BY <2>1, FS_Union
  <2>3. all \subseteq N!Nodes(g) \cup N!Nodes(h)
    BY <1>1
  <2> QED BY <2>2, <2>3, FS_Subset
<1>3. all # {} /\ (N!Cardinality(common) * 10000 + N!Cardinality(all) \div 2) \div N!Cardinality(all) > 0
  <2>1. N!Similarity(g, a, h, b) = IF all = {} THEN 0
          ELSE (N!Cardinality(common) * 10000 + N!Cardinality(all) \div 2) \div N!Cardinality(all)
    BY DEF N!Similarity
  <2> QED BY <2>1
<1> HIDE DEF all, common
<1>4. common # {}
  <2> SUFFICES ASSUME common = {} PROVE FALSE
    OBVIOUS
  <2>1. Cardinality(common) = 0 /\ Cardinality(all) \in Nat /\ Cardinality(all) # 0
    BY <1>2, <1>3, FS_EmptySet, FS_CardinalityType
  <2>2. (0 * 10000 + Cardinality(all) \div 2) \div Cardinality(all) > 0
    BY <1>3, <2>1, SameNetworkOps
  <2> HIDE DEF all
  <2>3. \A k \in Nat \ {0} : (0 * 10000 + k \div 2) \div k = 0
    <3> TAKE k \in Nat \ {0}
    <3>1. 0 <= k \div 2 /\ k \div 2 < k /\ k \div 2 \in Int
      OBVIOUS
    <3>2. (k \div 2) \div k = 0
      BY <3>1
    <3>3. 0 * 10000 + k \div 2 = k \div 2
      BY <3>1
    <3> QED BY <3>2, <3>3
  <2> QED BY <2>1, <2>2, <2>3
<1>5. PICK m : m \in common
  BY <1>4
<1> QED BY <1>1, <1>5 DEF common

LEMMA SimilarTell == NetInv => N!SimilarAreTogether
<1> SUFFICES ASSUME NetInv, NEW a \in Entities, NEW b \in Entities \ {a}, NEW then \in 0..Len(edges),
                    N!Similarity(SubSeq(edges, 1, then), a, edges, b) > 0
             PROVE  /\ \A c \in N!Closed(edges) : a \in c <=> b \in c
                    /\ search.graph = edges => \A ring \in N!ToSet(search.rings) : a \in ring <=> b \in ring
  BY DEF N!SimilarAreTogether
<1> DEFINE before == SubSeq(edges, 1, then)
<1>1. edges \in Graphs /\ search \in Searches
  BY DEF NetInv
<1>2. before \in Graphs /\ \A i \in DOMAIN before : i \in DOMAIN edges /\ before[i] = edges[i]
  <2> DEFINE pairs == Entities \X Entities
  <2>1. edges \in Seq(pairs) /\ Len(edges) \in Nat /\ DOMAIN edges = 1..Len(edges)
    BY <1>1 DEF Graphs
  <2> HIDE DEF pairs
  <2>2. \A i \in 1..then : i \in 1..Len(edges) /\ edges[i] \in pairs
    BY <2>1
  <2>3. before \in Seq(pairs) /\ Len(before) = then /\ \A i \in 1..then : before[i] = edges[i]
    BY <2>2, SubSeqProperties
  <2>4. DOMAIN before = 1..then
    BY <2>3
  <2> QED BY <2>1, <2>2, <2>3, <2>4 DEF Graphs, pairs
<1> HIDE DEF before
<1>3. PICK m : m \in N!Neighbors(before, a) /\ m \in N!Neighbors(edges, b)
  BY <1>1, <1>2, SimilarShare DEF before
<1>4. m \in N!Neighbors(edges, a)
  BY <1>2, <1>3 DEF N!Neighbors
<1>5. /\ N!Adjacent(edges, a, m) /\ N!Adjacent(edges, m, a)
      /\ N!Adjacent(edges, b, m) /\ N!Adjacent(edges, m, b)
  BY <1>1, <1>3, <1>4, GraphFacts
<1>6. \A c \in N!Closed(edges) : a \in c <=> b \in c
  BY <1>1, <1>5, GraphFacts
<1>7. ASSUME search.graph = edges, NEW ring \in N!ToSet(search.rings) PROVE a \in ring <=> b \in ring
  <2>1. search.pc = "rings"
    <3>1. search.rings # << >>
      BY <1>7 DEF N!ToSet
    <3> QED BY <3>1 DEF NetInv
  <2>2. ring \in N!Clusters(edges)
    BY <1>7, <2>1, RingsTell DEF N!RingsAreClusters
  <2>3. ring \in N!Closed(edges)
    BY <1>1, <2>2, ClusterFacts, GraphFacts
  <2> QED BY <1>6, <2>3
<1> QED BY <1>6, <1>7

(***************************************************************************)
(* The pages together.                                                     *)
(***************************************************************************)
(* What every screen of the dashboard keeps. *)
ScreensInv == ListInv /\ DialogInv /\ KeyInv /\ SettingsInv

LEMMA InitScreens == SumInit => ScreensInv
BY InitList, InitDialog, InitKeys, InitSettings DEF SumInit, ScreensInv

(* One part moves, and the others rest. *)
LEMMA NextScreens == ScreensInv /\ [SumNext]_sumVars => ScreensInv'
<1> SUFFICES ASSUME ScreensInv, [SumNext]_sumVars PROVE ScreensInv'
  OBVIOUS
<1>0. ListInv /\ DialogInv /\ KeyInv /\ SettingsInv
  BY DEF ScreensInv
<1>1. L!Next \/ UNCHANGED ofListPages
  BY DEF SumNext, sumVars
<1>2. D!Next \/ UNCHANGED ofDisputeDialog
  BY DEF SumNext, sumVars
<1>3. K!Next \/ UNCHANGED ofKeyPage
  BY DEF SumNext, sumVars
<1>4. S!Next \/ UNCHANGED ofSettingsPage
  BY DEF SumNext, sumVars
<1>5. ListInv'
  BY <1>0, <1>1, NextList, RestingList
<1>6. DialogInv'
  BY <1>0, <1>2, NextDialog, RestingDialog
<1>7. KeyInv'
  BY <1>0, <1>3, NextKeys, RestingKeys
<1>8. SettingsInv'
  BY <1>0, <1>4, NextSettings, RestingSettings
<1> QED BY <1>5, <1>6, <1>7, <1>8 DEF ScreensInv

(* With nothing under way a list, a dialog or a form shows what the server
   has, what a row offers is accepted - but for a split's execution, which
   payment-split.service.ts:103 keeps to its merchant - and a dispute moves
   along its buttons' steps, unless requests raced or failed in the ways each
   part names (refunds, payment-splits, disputes, api-keys and settings page.tsx). *)
THEOREM ScreensFollowServersHolds == SumSpec => ScreensFollowServers
<1>1. SumInit => ScreensInv
  BY InitScreens
<1>2. ScreensInv /\ [SumNext]_sumVars => ScreensInv'
  BY NextScreens
<1>3. ScreensInv => L!ListFollowsServer /\ L!OfferedIsAccepted
  BY ListImplies DEF ScreensInv
<1>4. ScreensInv => D!EvidenceIsSelecteds /\ D!CountIsStored
  BY DialogImplies DEF ScreensInv
<1>5. ScreensInv => K!ListIsLive
  BY KeysImply DEF ScreensInv
<1>6. ScreensInv => S!NoteMeansSaved /\ S!OnlyEditsAreSaved
  BY SettingsImplies DEF ScreensInv
<1>7. ScreensInv /\ [SumNext]_sumVars => [MovesAlong]_ofDisputeDialog
  <2> SUFFICES ASSUME ScreensInv, [SumNext]_sumVars PROVE MovesAlong \/ UNCHANGED ofDisputeDialog
    OBVIOUS
  <2>1. D!Next \/ UNCHANGED ofDisputeDialog
    BY DEF SumNext, sumVars
  <2> QED BY <2>1, DialogSteps DEF ScreensInv
<1>8. [MovesAlong]_ofDisputeDialog <=>
        [overlaps' = {} => \A d \in Disputes :
           stored'[d].status # stored[d].status => <<stored[d].status, stored'[d].status>> \in D!Steps]_(D!dialogVars)
  BY DEF MovesAlong, ofDisputeDialog, D!dialogVars
<1>9. SumSpec => []ScreensInv
  BY <1>1, <1>2, PTL DEF SumSpec
<1>10. SumSpec => D!DisputesMoveAlongSteps
  BY <1>1, <1>2, <1>7, <1>8, PTL DEF SumSpec, D!DisputesMoveAlongSteps
<1> QED BY <1>3, <1>4, <1>5, <1>6, <1>9, <1>10, PTL DEF ScreensFollowServers

(* The forms, the requests and the servers' rows of every page are well
   formed, for any numbers of them (all the modelled pages of the frontend
   and the searches of network-analysis.service.ts). *)
THEOREM PagesTypesHold == SumSpec => []TypesOK
<1> DEFINE Inv == ScreensInv /\ FormInv /\ LiveInv /\ OrderInv /\ NetInv
<1>1. SumInit => Inv
  BY InitScreens, InitForm, InitLive, InitOrder, InitNet DEF SumInit
<1>2. Inv /\ [SumNext]_sumVars => Inv'
  <2> SUFFICES ASSUME Inv, [SumNext]_sumVars PROVE Inv'
    OBVIOUS
  <2>1. ScreensInv'
    BY NextScreens
  <2>2. FormInv' /\ OrderInv'
    BY NextForm, RestingForm, NextOrder, RestingOrder DEF SumNext, sumVars
  <2>3. LiveInv'
    BY NextLive, RestingLive DEF SumNext, sumVars
  <2>4. NetInv'
    BY NextNet, RestingNet DEF SumNext, sumVars
  <2> QED BY <2>1, <2>2, <2>3, <2>4
<1>3. Inv => TypesOK
  BY ListImplies, DialogImplies, KeysImply, FormImplies, SettingsImplies, LiveImplies, OrderImplies,
     NetTypes DEF TypesOK, ScreensInv
<1> QED BY <1>1, <1>2, <1>3, PTL DEF SumSpec

(* The rings found are the clusters of linked entities that are large or busy
   enough, each whole and once, the circular patterns are the closed walks of
   3 to MaxLength entities, and entities that are similar at all are linked,
   for any entities, edges and MaxLength and whatever is recorded while a
   search runs (network-analysis.service.ts:67-276). *)
THEOREM SearchesAreExactHold == SumSpec => []SearchesAreExact
<1>1. SumInit => NetInv
  BY InitNet DEF SumInit
<1>2. NetInv /\ [SumNext]_sumVars => NetInv'
  BY NextNet, RestingNet DEF SumNext, sumVars
<1>3. NetInv => SearchesAreExact
  BY RingsTell, CirclesTell, SimilarTell DEF SearchesAreExact
<1> QED BY <1>1, <1>2, <1>3, PTL DEF SumSpec
=============================================================================
