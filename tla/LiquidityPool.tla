---------------------------- MODULE LiquidityPool ----------------------------
(***************************************************************************)
(* The liquidity pool contract on Stellar: constant-product pools, one per *)
(* pair of tokens, and LP tokens kept per provider, not per pool.  The     *)
(* contract keeps books only: it moves no tokens.  A call that panics      *)
(* leaves no trace, so it is not a step.  i128 overflow is left out.       *)
(***************************************************************************)
EXTENDS Integers, FiniteSets, Functions

CONSTANTS
  Pools,         \* the pairs (token_a, token_b) of distinct tokens, in order
  Providers,
  PoolAmounts,   \* bound: the amounts paid in, and the LP tokens burnt
  MinOuts,       \* bound: the values of min_amount_out
  PoolFees,      \* bound: fees in basis points
  MaxPoolCalls,  \* bound: calls that change a pool
  NoPool         \* a pair without a pool

ASSUME PoolAssumption ==
  /\ IsFiniteSet(Pools) /\ IsFiniteSet(Providers)  \* addresses are 32 bytes
  /\ NoPool \notin [reserve_a : Int, reserve_b : Int, lp_token_supply : Int, fee_rate : Nat]
  /\ PoolAmounts \subseteq Int /\ MinOuts \subseteq Int /\ PoolFees \subseteq Nat
  /\ MaxPoolCalls \in Nat

VARIABLES
  pool,         \* POOLS
  lp,           \* LP_TOKENS
  poolFee,      \* FEE, which a pool takes over when it is created
  initialized,  \* ADMIN is set; the admin's calls are the admin's own
  poolPaused,
  calls

poolVars == <<pool, lp, poolFee, initialized, poolPaused, calls>>

-----------------------------------------------------------------------------
Pool == [reserve_a : Int, reserve_b : Int, lp_token_supply : Int, fee_rate : Nat]

DefaultFee == 30

(* Division of i128, which rounds towards zero. *)
Abs(x) == IF x < 0 THEN -x ELSE x
Quot(x, y) ==
  LET q == Abs(x) \div Abs(y) IN IF x < 0 <=> y < 0 THEN q ELSE -q

(* Newton's iteration from above, until it no longer descends.  The first  *)
(* y, (n + 1) / 2, is the one of x = n.                                     *)
Newton(n, x) == (x + n \div x) \div 2

sqrt(n) ==
  LET descend[x \in 1..n] ==
        IF Newton(n, x) < x THEN descend[Newton(n, x)] ELSE x
  IN  IF n = 0 THEN 0 ELSE descend[n]

PoolInit ==
  /\ pool = [p \in Pools |-> NoPool]
  /\ lp = [u \in Providers |-> 0]
  /\ poolFee = DefaultFee
  /\ initialized = FALSE
  /\ poolPaused = FALSE
  /\ calls = 0

Call ==
  /\ ~poolPaused
  /\ calls < MaxPoolCalls
  /\ calls' = calls + 1
  /\ UNCHANGED <<poolFee, initialized, poolPaused>>

Exists(p) == pool[p] # NoPool
(* Slip: the balance is replaced. *)
CreditAnew(u, n) == lp' = [lp EXCEPT ![u] = n]

Credit(u, n) == lp' = [lp EXCEPT ![u] = lp[u] + n]

(* add_liquidity to a pair that has no pool. *)
CreatePool(u, p, a, b) ==
  /\ Call
  /\ a > 0 /\ b > 0
  /\ ~Exists(p)
  /\ pool' = [pool EXCEPT ![p] =
       [reserve_a |-> a, reserve_b |-> b, lp_token_supply |-> sqrt(a * b),
        fee_rate |-> poolFee]]
  /\ Credit(u, sqrt(a * b))

(* add_liquidity to a pool without shares: its reserves are replaced. *)
RefillPool(u, p, a, b) ==
  /\ Call
  /\ a > 0 /\ b > 0
  /\ Exists(p) /\ pool[p].lp_token_supply = 0
  /\ pool' = [pool EXCEPT ![p] =
       [reserve_a |-> a, reserve_b |-> b, lp_token_supply |-> sqrt(a * b),
        fee_rate |-> pool[p].fee_rate]]
  /\ Credit(u, sqrt(a * b))

(* add_liquidity to a pool with shares, within 1% of its ratio. *)
OptimalB(p, a) == Quot(a * pool[p].reserve_b, pool[p].reserve_a)
SharesFor(p, a) == Quot(a * pool[p].lp_token_supply, pool[p].reserve_a)

AddLiquidity(u, p, a, b) ==
  /\ Call
  /\ a > 0 /\ b > 0
  /\ Exists(p) /\ pool[p].lp_token_supply # 0 /\ pool[p].reserve_a # 0
  /\ b >= Quot(OptimalB(p, a) * 99, 100)
  /\ b <= Quot(OptimalB(p, a) * 101, 100)
  /\ pool' = [pool EXCEPT ![p] =
       [reserve_a |-> pool[p].reserve_a + a,
        reserve_b |-> pool[p].reserve_b + b,
        lp_token_supply |-> pool[p].lp_token_supply + SharesFor(p, a),
        fee_rate |-> pool[p].fee_rate]]
  /\ Credit(u, SharesFor(p, a))

(* Slip: the shares are burnt first, and the amounts divided by what is left. *)
RemoveLiquidityBurntFirst(u, p, n) ==
  LET left == pool[p].lp_token_supply - n IN
  /\ Call
  /\ lp[u] >= n
  /\ Exists(p) /\ left # 0
  /\ pool' = [pool EXCEPT ![p] =
       [reserve_a |-> pool[p].reserve_a - Quot(n * pool[p].reserve_a, left),
        reserve_b |-> pool[p].reserve_b - Quot(n * pool[p].reserve_b, left),
        lp_token_supply |-> left,
        fee_rate |-> pool[p].fee_rate]]
  /\ Credit(u, -n)

(* remove_liquidity looks at the provider's LP tokens of any pool, and at   *)
(* no lower bound of the amount.                                            *)
RemoveLiquidity(u, p, n) ==
  /\ Call
  /\ lp[u] >= n
  /\ Exists(p) /\ pool[p].lp_token_supply # 0
  /\ pool' = [pool EXCEPT ![p] =
       [reserve_a |-> pool[p].reserve_a
                        - Quot(n * pool[p].reserve_a, pool[p].lp_token_supply),
        reserve_b |-> pool[p].reserve_b
                        - Quot(n * pool[p].reserve_b, pool[p].lp_token_supply),
        lp_token_supply |-> pool[p].lp_token_supply - n,
        fee_rate |-> pool[p].fee_rate]]
  /\ Credit(u, -n)

(* Slip: the fee is added. *)
AmountOutFeeAdded(in, out, amount, rate) ==
  Quot(Quot(amount * out, in + amount) * (10000 + rate), 10000)

(* The output of a swap: the constant product formula, then the fee. *)
AmountOut(in, out, amount, rate) ==
  Quot(Quot(amount * out, in + amount) * (10000 - rate), 10000)

SwapAForB(p, amount, min) ==
  LET out == AmountOut(pool[p].reserve_a, pool[p].reserve_b, amount, pool[p].fee_rate) IN
  /\ Call
  /\ amount > 0
  /\ Exists(p) /\ pool[p].reserve_a + amount # 0
  /\ out >= min
  /\ pool' = [pool EXCEPT ![p] =
       [reserve_a |-> pool[p].reserve_a + amount,
        reserve_b |-> pool[p].reserve_b - out,
        lp_token_supply |-> pool[p].lp_token_supply,
        fee_rate |-> pool[p].fee_rate]]
  /\ UNCHANGED lp

SwapBForA(p, amount, min) ==
  LET out == AmountOut(pool[p].reserve_b, pool[p].reserve_a, amount, pool[p].fee_rate) IN
  /\ Call
  /\ amount > 0
  /\ Exists(p) /\ pool[p].reserve_b + amount # 0
  /\ out >= min
  /\ pool' = [pool EXCEPT ![p] =
       [reserve_a |-> pool[p].reserve_a - out,
        reserve_b |-> pool[p].reserve_b + amount,
        lp_token_supply |-> pool[p].lp_token_supply,
        fee_rate |-> pool[p].fee_rate]]
  /\ UNCHANGED lp

(* The admin's calls; the pools work before initialize as well. *)
InitializePool(f) ==
  /\ ~initialized
  /\ initialized' = TRUE
  /\ poolFee' = f
  /\ poolPaused' = FALSE
  /\ UNCHANGED <<pool, lp, calls>>

(* Slip: what is stored is the multiplier, not the fee. *)
SetPoolFeeAsMultiplier(f) ==
  /\ initialized
  /\ poolFee' = 10000 - f
  /\ UNCHANGED <<pool, lp, initialized, poolPaused, calls>>

SetPoolFee(f) ==
  /\ initialized
  /\ poolFee' = f
  /\ UNCHANGED <<pool, lp, initialized, poolPaused, calls>>

SetPoolPaused(b) ==
  /\ initialized
  /\ poolPaused' = b
  /\ UNCHANGED <<pool, lp, poolFee, initialized, calls>>

PoolNext ==
  \/ \E f \in PoolFees : InitializePool(f) \/ SetPoolFee(f)
  \/ \E b \in BOOLEAN : SetPoolPaused(b)
  \/ \E p \in Pools :
       \/ \E u \in Providers :
            \/ \E a, b \in PoolAmounts :
                 CreatePool(u, p, a, b) \/ RefillPool(u, p, a, b) \/ AddLiquidity(u, p, a, b)
            \/ \E n \in PoolAmounts : RemoveLiquidity(u, p, n)
       \/ \E n \in PoolAmounts, min \in MinOuts : SwapAForB(p, n, min) \/ SwapBForA(p, n, min)

PoolSpec == PoolInit /\ [][PoolNext]_poolVars

-----------------------------------------------------------------------------
(* Every stored value has its type. *)
PoolTypeOK ==
  /\ pool \in [Pools -> Pool \cup {NoPool}]
  /\ lp \in [Providers -> Int]
  /\ poolFee \in Nat
  /\ initialized \in BOOLEAN /\ poolPaused \in BOOLEAN
  /\ calls \in 0..MaxPoolCalls

Supply(p) == IF Exists(p) THEN pool[p].lp_token_supply ELSE 0

(* The LP tokens of all providers are the supplies of all pools: a provider *)
(* holds one balance for every pool, so the two sides are kept by different *)
(* records of different calls and only their totals can agree.              *)
SharesMatchSupply == SumFunction(lp) = SumFunction([p \in Pools |-> Supply(p)])

(* A pool whose reserves and shares stand as its providers expect them. *)
Sound(p) ==
  /\ Exists(p)
  /\ pool[p].reserve_a \in Nat /\ pool[p].reserve_b \in Nat
  /\ pool[p].lp_token_supply \in Nat \ {0}

(* A call that leaves the shares of a sound pool alone, whether a swap at   *)
(* any fee, an addition too small for a share or the removal of none, never *)
(* lowers the product of its reserves: lib.rs, new_reserve_a *              *)
(* new_reserve_b >= k, in spite of two roundings.                           *)
ProductNeverFalls ==
  [][\A p \in Pools :
       Sound(p) /\ pool'[p].lp_token_supply = pool[p].lp_token_supply =>
         pool'[p].reserve_a * pool'[p].reserve_b >= pool[p].reserve_a * pool[p].reserve_b]_poolVars

(* A call that burns shares of a sound pool, and no more than it has, takes *)
(* no more of either reserve than they stand for: what is left per share    *)
(* does not fall for the providers that stay.                               *)
RemovalTakesItsShare ==
  [][\A p \in Pools :
       Sound(p) /\ pool'[p].lp_token_supply \in 0 .. pool[p].lp_token_supply - 1 =>
         /\ pool'[p].reserve_a * pool[p].lp_token_supply
              >= pool[p].reserve_a * pool'[p].lp_token_supply
         /\ pool'[p].reserve_b * pool[p].lp_token_supply
              >= pool[p].reserve_b * pool'[p].lp_token_supply]_poolVars
=============================================================================
