------------------------------ MODULE EvmBridge ------------------------------
(***************************************************************************)
(* The Solidity bridges EthereumBridge.sol and PolygonBridge.sol, which    *)
(* differ in the largest fee.  A transaction is one step: nonReentrant     *)
(* keeps calls out while tokens move, and a failed require, an arithmetic  *)
(* underflow or a failed transfer reverts all of it.                       *)
(***************************************************************************)
EXTENDS Integers, FiniteSets, Functions

CONSTANTS
  SwapIds, Accounts, Owner,
  Refusers,     \* accounts that are contracts refusing plain transfers
  Tokens,       \* ERC-20 tokens
  Native,       \* address(0): ETH or MATIC
  Secrets, Digests,
  Amounts,      \* bound: amounts a caller may ask for or send
  Fees,         \* bound: basis points the owner may ask for
  MaxFee,       \* largest fee of setFeeBasisPoints: 1000 on Ethereum, 500 on Polygon
  MaxFirstFee,  \* largest fee of the constructor: 500 on Polygon, any on Ethereum
  Times,        \* bound: block timestamps and time locks
  MaxHeld,      \* bound: tokens the bridge may come to hold, and the owner withdraw
  NoAccount, NoSecret, NoDigest

ASSUME ConstantsAssumption ==
  /\ IsFiniteSet(SwapIds) \* they are bytes32
  /\ Native \notin Tokens
  /\ Amounts \subseteq Nat \ {0} /\ Fees \subseteq Nat /\ Times \subseteq Nat
  /\ MaxFee \in Nat /\ MaxFirstFee \in Nat /\ MaxHeld \in Nat
  /\ NoAccount \notin Accounts /\ NoSecret \notin Secrets /\ NoDigest \notin Digests

VARIABLES
  supportedTokens, tokenBalances, feeBasisPoints, paused,
  swaps,     \* the mapping swaps; an entry with id 0 is NoSwap
  revealed,  \* the secret of the SwapCompleted event of a swap
  held,      \* what the bridge really holds: its ETH and its ERC-20 balances
  withdrawn, \* history: what withdrawFees has paid out
  now        \* block.timestamp

vars == <<supportedTokens, tokenBalances, feeBasisPoints, paused, swaps,
          revealed, held, withdrawn, now>>

Assets == Tokens \cup {Native}

NoSwap ==
  [status |-> "none", initiator |-> NoAccount, recipient |-> NoAccount,
   amount |-> 0, token |-> Native, hashLock |-> NoDigest, timeLock |-> 0]

Swap ==
  [status : {"initiated", "completed", "refunded"}, initiator : Accounts,
   recipient : Accounts, amount : Nat, token : Assets, hashLock : Digests,
   timeLock : Nat]

Init ==
  /\ supportedTokens = {Native}
  /\ tokenBalances = [t \in Assets |-> 0]
  /\ feeBasisPoints \in {f \in Fees : f <= MaxFirstFee}
  /\ paused = FALSE
  /\ swaps = [id \in SwapIds |-> NoSwap]
  /\ revealed = [id \in SwapIds |-> NoSecret]
  /\ held = [t \in Assets |-> 0]
  /\ withdrawn = [t \in Assets |-> 0]
  /\ now \in Times

-----------------------------------------------------------------------------
FeeOf(amount) == (amount * feeBasisPoints) \div 10000

(* What a call brings in of an asset: its native value, which is only       *)
(* compared with a native amount and otherwise stays, and an ERC-20 amount. *)
Received(t, token, amount, value) ==
  IF t = Native THEN value ELSE IF t = token THEN amount ELSE 0

(* Slip: the swap records the amount before the fee. *)
InitiateSwapGross(id, sender, recipient, amount, token, hashLock, timeLock, value) ==
  /\ ~paused
  /\ token \in supportedTokens
  /\ timeLock > now
  /\ swaps[id] = NoSwap
  /\ token = Native => value >= amount
  /\ held' = [t \in Assets |-> held[t] + Received(t, token, amount, value)]
  /\ \A t \in Assets : held'[t] <= MaxHeld
  /\ tokenBalances' = [tokenBalances EXCEPT ![token] = @ + amount - FeeOf(amount)]
  /\ swaps' = [swaps EXCEPT ![id] =
       [status |-> "initiated", initiator |-> sender, recipient |-> recipient,
        amount |-> amount, token |-> token, hashLock |-> hashLock,
        timeLock |-> timeLock]]
  /\ UNCHANGED <<supportedTokens, feeBasisPoints, paused, revealed, withdrawn, now>>

InitiateSwap(id, sender, recipient, amount, token, hashLock, timeLock, value) ==
  LET amountAfterFee == amount - FeeOf(amount) IN
  /\ ~paused
  /\ amount > 0
  /\ token \in supportedTokens
  /\ timeLock > now
  /\ swaps[id] = NoSwap
  /\ FeeOf(amount) <= amount
  /\ token = Native => value >= amount
  /\ held' = [t \in Assets |-> held[t] + Received(t, token, amount, value)]
  /\ \A t \in Assets : held'[t] <= MaxHeld
  /\ tokenBalances' = [tokenBalances EXCEPT ![token] = @ + amountAfterFee]
  /\ swaps' = [swaps EXCEPT ![id] =
       [status |-> "initiated", initiator |-> sender, recipient |-> recipient,
        amount |-> amountAfterFee, token |-> token, hashLock |-> hashLock,
        timeLock |-> timeLock]]
  /\ UNCHANGED <<supportedTokens, feeBasisPoints, paused, revealed, withdrawn, now>>

(* _transferToken and the deduction from the books that follows it.         *)
TransferToken(token, to, amount) ==
  /\ token = Native => to \notin Refusers
  /\ held[token] >= amount
  /\ held' = [held EXCEPT ![token] = @ - amount]

(* Slip: the books forget the payout. *)
DeductNothing(token, amount) == UNCHANGED tokenBalances

Deduct(token, amount) ==
  /\ tokenBalances[token] >= amount
  /\ tokenBalances' = [tokenBalances EXCEPT ![token] = @ - amount]

(* The comparison of the secret with the hash lock is commented out.        *)
CompleteSwap(id, secret) ==
  LET swap == swaps[id] IN
  /\ ~paused
  /\ swap.status = "initiated"
  /\ swaps' = [swaps EXCEPT ![id].status = "completed"]
  /\ TransferToken(swap.token, swap.recipient, swap.amount)
  /\ Deduct(swap.token, swap.amount)
  /\ revealed' = [revealed EXCEPT ![id] = secret]
  /\ UNCHANGED <<supportedTokens, feeBasisPoints, paused, withdrawn, now>>

(* Slip: a refund does not wait for the time lock. *)
RefundSwapEarly(id, sender) ==
  LET swap == swaps[id] IN
  /\ swap.status = "initiated"
  /\ sender = swap.initiator
  /\ swaps' = [swaps EXCEPT ![id].status = "refunded"]
  /\ TransferToken(swap.token, swap.initiator, swap.amount)
  /\ Deduct(swap.token, swap.amount)
  /\ UNCHANGED <<supportedTokens, feeBasisPoints, paused, revealed, withdrawn, now>>

RefundSwap(id, sender) ==
  LET swap == swaps[id] IN
  /\ swap.status = "initiated"
  /\ now >= swap.timeLock
  /\ sender = swap.initiator
  /\ swaps' = [swaps EXCEPT ![id].status = "refunded"]
  /\ TransferToken(swap.token, swap.initiator, swap.amount)
  /\ Deduct(swap.token, swap.amount)
  /\ UNCHANGED <<supportedTokens, feeBasisPoints, paused, revealed, withdrawn, now>>

-----------------------------------------------------------------------------
AddSupportedToken(token) ==
  /\ token # Native
  /\ token \notin supportedTokens
  /\ supportedTokens' = supportedTokens \cup {token}
  /\ UNCHANGED <<tokenBalances, feeBasisPoints, paused, swaps, revealed, held, withdrawn, now>>

RemoveSupportedToken(token) ==
  /\ token \in supportedTokens
  /\ supportedTokens' = supportedTokens \ {token}
  /\ UNCHANGED <<tokenBalances, feeBasisPoints, paused, swaps, revealed, held, withdrawn, now>>

SetFeeBasisPoints(bps) ==
  /\ bps <= MaxFee
  /\ feeBasisPoints' = bps
  /\ UNCHANGED <<supportedTokens, tokenBalances, paused, swaps, revealed, held, withdrawn, now>>

(* Slip: fees are paid out of what the books do not count. *)
WithdrawUnbooked(token, amount) ==
  /\ TransferToken(token, Owner, amount)
  /\ withdrawn[token] + amount <= MaxHeld
  /\ withdrawn' = [withdrawn EXCEPT ![token] = @ + amount]
  /\ UNCHANGED <<supportedTokens, tokenBalances, feeBasisPoints, paused, swaps, revealed, now>>

(* The limit is tokenBalances, which holds the principal of the open swaps  *)
(* and no fee.                                                              *)
WithdrawFees(token, amount) ==
  /\ TransferToken(token, Owner, amount)
  /\ Deduct(token, amount)
  /\ withdrawn[token] + amount <= MaxHeld
  /\ withdrawn' = [withdrawn EXCEPT ![token] = @ + amount]
  /\ UNCHANGED <<supportedTokens, feeBasisPoints, paused, swaps, revealed, now>>

Pause ==
  /\ ~paused
  /\ paused' = TRUE
  /\ UNCHANGED <<supportedTokens, tokenBalances, feeBasisPoints, swaps, revealed, held, withdrawn, now>>

Unpause ==
  /\ paused
  /\ paused' = FALSE
  /\ UNCHANGED <<supportedTokens, tokenBalances, feeBasisPoints, swaps, revealed, held, withdrawn, now>>

Receive(value) ==
  /\ held[Native] + value <= MaxHeld
  /\ held' = [held EXCEPT ![Native] = @ + value]
  /\ tokenBalances' = [tokenBalances EXCEPT ![Native] = @ + value]
  /\ UNCHANGED <<supportedTokens, feeBasisPoints, paused, swaps, revealed, withdrawn, now>>

Tick ==
  /\ now' \in Times
  /\ now' > now
  /\ UNCHANGED <<supportedTokens, tokenBalances, feeBasisPoints, paused, swaps,
                 revealed, held, withdrawn>>

Next ==
  \/ \E id \in SwapIds, s, r \in Accounts, a \in Amounts, v \in Amounts \cup {0},
        t \in Assets, d \in Digests, l \in Times :
       InitiateSwap(id, s, r, a, t, d, l, v)
  \/ \E id \in SwapIds, s \in Secrets : CompleteSwap(id, s)
  \/ \E id \in SwapIds, s \in Accounts : RefundSwap(id, s)
  \/ \E t \in Assets : AddSupportedToken(t) \/ RemoveSupportedToken(t)
  \/ \E f \in Fees : SetFeeBasisPoints(f)
  \/ \E t \in Assets, a \in Amounts : WithdrawFees(t, a)
  \/ Pause \/ Unpause
  \/ \E v \in Amounts : Receive(v)
  \/ Tick

Spec == Init /\ [][Next]_vars

-----------------------------------------------------------------------------
TypeOK ==
  /\ supportedTokens \subseteq Assets
  /\ tokenBalances \in [Assets -> Nat]
  /\ feeBasisPoints \in Nat
  /\ paused \in BOOLEAN
  /\ swaps \in [SwapIds -> Swap \cup {NoSwap}]
  /\ revealed \in [SwapIds -> Secrets \cup {NoSecret}]
  /\ held \in [Assets -> Nat]
  /\ withdrawn \in [Assets -> Nat]
  /\ now \in Nat

(***************************************************************************)
(* The books never claim more than the bridge holds, so a payout that the  *)
(* books allow is never short of tokens.                                   *)
(***************************************************************************)
BooksWithinHoldings == \A t \in Assets : tokenBalances[t] <= held[t]

(***************************************************************************)
(* What the bridge holds beyond its books, the fees and the excess of      *)
(* native payments, only ever grows: no operation pays it out.             *)
(***************************************************************************)
Beyond(t) == held[t] - tokenBalances[t]
BeyondNeverShrinks == [][\A t \in Assets : Beyond(t)' >= Beyond(t)]_vars

(***************************************************************************)
(* But for what withdrawFees took, the books cover the principal of all    *)
(* open swaps of a token together: completions and refunds in any order    *)
(* never spend one swap's principal on another.                            *)
(***************************************************************************)
Owed(t) ==
  [id \in SwapIds |->
     IF swaps[id].status = "initiated" /\ swaps[id].token = t THEN swaps[id].amount ELSE 0]
Principal(t) == SumFunction(Owed(t))
OpenSwapsCovered ==
  \A t \in Assets : Principal(t) <= tokenBalances[t] + withdrawn[t]

(***************************************************************************)
(* EthereumBridge.sol:260 says of withdrawFees "Withdraw accumulated       *)
(* fees": a withdrawal leaves the principal of the open swaps in the books.*)
(***************************************************************************)
WithdrawalLeavesPrincipal ==
  [][withdrawn' # withdrawn =>
       \A t \in Assets : Principal(t)' <= tokenBalances'[t]]_vars

(***************************************************************************)
(* The comparison of a secret with the hash lock is commented out, so any  *)
(* secret opens a swap.  With all digests identified the bridge keeps the  *)
(* rest of the promise: a swap is claimed or returned, once, and not       *)
(* returned before its time lock (completeSwap, refundSwap).               *)
(***************************************************************************)
Phase == [none |-> "none", initiated |-> "locked",
          completed |-> "claimed", refunded |-> "returned"]

Promise == INSTANCE SwapPromise WITH
  Digests <- {"any"},
  Sha256  <- [s \in Secrets |-> "any"],
  phase   <- [id \in SwapIds |-> Phase[swaps[id].status]],
  digest  <- [id \in SwapIds |-> IF swaps[id].status = "none" THEN NoDigest ELSE "any"],
  expiry  <- [id \in SwapIds |-> swaps[id].timeLock]

SettlesOnce == Promise!Spec
=============================================================================
