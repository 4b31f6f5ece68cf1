--------------------------- MODULE ContractsProofs ---------------------------
(***************************************************************************)
(* Proofs about the contracts on Stellar that MCContracts puts side by     *)
(* side, for any pools, providers, merchants and orchestrations, and any   *)
(* amounts and numbers of calls.  The atomic swap has a module of its own. *)
(***************************************************************************)
EXTENDS MCContracts, SumLemmas, AtomicSwapProofs

(***************************************************************************)
(* The liquidity pool.  Its arithmetic first: quotients that round towards *)
(* zero and the root that mints the first shares.                          *)
(***************************************************************************)

(* Rounding down: the quotient of natural numbers. *)
LEMMA FloorOf ==
  ASSUME NEW x \in Nat, NEW y \in Nat \ {0}
  PROVE  /\ x \div y \in Nat
         /\ (x \div y) * y <= x
         /\ x < (x \div y + 1) * y
  BY Z3

(* A quotient of naturals rounds down. *)
LEMMA QuotOfNaturals ==
  ASSUME NEW x \in Nat, NEW y \in Nat \ {0}
  PROVE  /\ Quot(x, y) \in Nat
         /\ Quot(x, y) * y <= x
<1>1. Quot(x, y) = x \div y
  BY DEF Quot, Abs
<1> QED
  BY <1>1, FloorOf

(* A negative numerator gives no positive quotient. *)
LEMMA QuotOfNegative ==
  ASSUME NEW x \in Int, x < 0, NEW y \in Nat \ {0}
  PROVE  Quot(x, y) \in Int /\ Quot(x, y) <= 0
<1>1. -x \in Nat /\ Quot(x, y) = -((-x) \div y)
  BY DEF Quot, Abs
<1>2. (-x) \div y \in Nat
  BY <1>1, FloorOf
<1> QED
  BY <1>1, <1>2

(* Products of natural numbers keep the order, and are natural numbers. *)
LEMMA ProductOrder ==
  ASSUME NEW a \in Int, NEW b \in Int, NEW c \in Nat, a <= b
  PROVE  a * c <= b * c
  BY Z3

(* The product of naturals is one. *)
LEMMA ProductType ==
  ASSUME NEW a \in Nat, NEW b \in Nat
  PROVE  a * b \in Nat
  BY Z3

(* The order of two products. *)
LEMMA OrderOfProducts ==
  ASSUME NEW a \in Nat, NEW b \in Nat, NEW c \in Nat, NEW d \in Nat, a >= c, b >= d
  PROVE  a * b >= c * d
<1>1. c * b <= a * b /\ d * c <= b * c
  BY ProductOrder
<1>2. c * b = b * c /\ d * c = c * d
  OBVIOUS
<1>3. a * b \in Nat /\ c * b \in Nat /\ c * d \in Nat
  BY ProductType
<1> QED
  BY <1>1, <1>2, <1>3

(* Nothing of zero. *)
LEMMA QuotOfZero ==
  ASSUME NEW x \in Nat, NEW y \in Nat \ {0}
  PROVE  Quot(0 * x, y) = 0
<1>1. 0 * x = 0
  OBVIOUS
<1>2. Quot(0, y) \in Nat /\ Quot(0, y) * y <= 0
  BY QuotOfNaturals
<1>3. ASSUME NEW q \in Nat, q * y <= 0 PROVE q = 0
  BY <1>3, Z3
<1> QED
  BY <1>1, <1>2, <1>3

(* A swap pays out no more than the constant product formula allows. *)
LEMMA OutputBound ==
  ASSUME NEW in \in Nat, NEW out \in Nat, NEW amount \in Nat \ {0}, NEW rate \in Nat
  PROVE  /\ AmountOut(in, out, amount, rate) \in Int
         /\ AmountOut(in, out, amount, rate) * (in + amount) <= amount * out
<1> DEFINE gross == Quot(amount * out, in + amount)
           net   == Quot(gross * (10000 - rate), 10000)
<1>1. amount * out \in Nat /\ in + amount \in Nat \ {0}
  BY ProductType
<1>2. gross \in Nat /\ gross * (in + amount) <= amount * out
  BY <1>1, QuotOfNaturals
<1> HIDE DEF gross
<1>3. net \in Int /\ net <= gross
  <2>1. CASE rate <= 10000
    <3>1. 10000 - rate \in Nat
      BY <2>1
    <3>2. gross * (10000 - rate) \in Nat
      BY <1>2, <3>1, ProductType
    <3>3. net \in Nat /\ net * 10000 <= gross * (10000 - rate)
      BY <3>2, QuotOfNaturals
    <3>4. (10000 - rate) * gross <= 10000 * gross
      BY <1>2, <3>1, ProductOrder
    <3>5. gross * (10000 - rate) = (10000 - rate) * gross
      BY <1>2, <3>1
    <3> HIDE DEF net
    <3> QED
      BY <1>2, <3>2, <3>3, <3>4, <3>5
  <2>2. CASE rate > 10000 /\ gross = 0
    <3>1. gross * (10000 - rate) = 0
      BY <2>2
    <3>2. net = 0
      BY <3>1, QuotOfNaturals
    <3> QED
      BY <2>2, <3>2
  <2>3. CASE rate > 10000 /\ gross # 0
    <3>1. gross * (10000 - rate) \in Int /\ gross * (10000 - rate) < 0
      BY <1>2, <2>3, Z3
    <3>2. net \in Int /\ net <= 0
      BY <3>1, QuotOfNegative
    <3> HIDE DEF net
    <3> QED
      BY <1>2, <3>2
  <2> QED
    BY <1>2, <2>1, <2>2, <2>3
<1>4. AmountOut(in, out, amount, rate) = net
  BY DEF AmountOut, gross
<1> HIDE DEF net
<1>5. net * (in + amount) <= gross * (in + amount)
  BY <1>1, <1>2, <1>3, ProductOrder
<1> QED
  BY <1>1, <1>2, <1>3, <1>4, <1>5

(* After a swap the product of the two reserves is no lower. *)
LEMMA SwapProduct ==
  ASSUME NEW in \in Nat, NEW out \in Nat, NEW amount \in Nat \ {0}, NEW paid \in Int,
         paid * (in + amount) <= amount * out
  PROVE  (in + amount) * (out - paid) >= in * out
<1>1. (in + amount) * (out - paid) = in * out + amount * out - paid * (in + amount)
  BY Z3
<1>2. /\ in * out \in Int /\ amount * out \in Int /\ paid * (in + amount) \in Int
  OBVIOUS
<1> QED
  BY <1>1, <1>2

(* A removal of n of s shares leaves the rest of the shares their part. *)
LEMMA RemovalShare ==
  ASSUME NEW reserve \in Nat, NEW s \in Nat \ {0}, NEW n \in Nat
  PROVE  /\ Quot(n * reserve, s) \in Nat
         /\ (reserve - Quot(n * reserve, s)) * s >= reserve * (s - n)
<1> DEFINE share == Quot(n * reserve, s)
<1>1. n * reserve \in Nat
  BY ProductType
<1>2. share \in Nat /\ share * s <= n * reserve
  BY <1>1, QuotOfNaturals
<1> HIDE DEF share
<1>3. /\ (reserve - share) * s = reserve * s - share * s
      /\ reserve * (s - n) = reserve * s - n * reserve
  BY <1>2, Z3
<1>4. reserve * s \in Int /\ share * s \in Int
  BY <1>2
<1>5. (reserve - share) * s >= reserve * (s - n)
  BY <1>1, <1>2, <1>3, <1>4
<1> QED
  BY <1>2, <1>5 DEF share

(* The function that descends by Newton's iteration. *)
Descends(n, g) ==
  g = [x \in 1..n |-> IF Newton(n, x) < x THEN g[Newton(n, x)] ELSE x]

(* The root is where it ends. *)
LEMMA SqrtIsChosen ==
  ASSUME NEW n \in Nat \ {0}
  PROVE  sqrt(n) = (CHOOSE g : Descends(n, g))[n]
BY DEF sqrt, Descends

(* An iteration stays between 1 and n. *)
LEMMA NewtonInRange ==
  ASSUME NEW n \in Nat \ {0}, NEW y \in 1..n
  PROVE  Newton(n, y) \in 1..n
<1> DEFINE q == n \div y
<1>1. q \in Nat /\ q * y <= n /\ n < (q + 1) * y
  BY FloorOf
<1>2. q <= n
  <2>1. q <= q * y
    BY <1>1, Z3
  <2> QED BY <1>1, <2>1
<1>3. q >= 1
  <2>1. q = 0 => n < y
    BY <1>1
  <2> QED BY <1>1, <2>1
<1> HIDE DEF q
<1>4. (y + q) \div 2 \in 1..n
  BY <1>1, <1>2, <1>3
<1> QED BY <1>4 DEF Newton, q

(* It never goes below the root. *)
LEMMA NewtonAboveRoot ==
  ASSUME NEW n \in Nat \ {0}, NEW y \in 1..n
  PROVE  n < (Newton(n, y) + 1) * (Newton(n, y) + 1)
<1> DEFINE q == n \div y
           m == Newton(n, y)
<1>1. q \in Nat /\ n < (q + 1) * y
  BY FloorOf
<1>2. m \in 1..n
  BY NewtonInRange
<1>3. y + q + 1 <= 2 * (m + 1)
  <2> HIDE DEF q
  <2>1. m = (y + q) \div 2
    BY DEF Newton, q
  <2> HIDE DEF m
  <2> QED BY <1>1, <2>1
<1> HIDE DEF q, m
<1>4. (y + (q + 1)) * (y + (q + 1)) >= 4 * (y * (q + 1))
  <2>1. ASSUME NEW a \in Int, NEW b \in Int PROVE (a + b) * (a + b) = 4 * (a * b) + (a - b) * (a - b)
    BY Z3
  <2>2. ASSUME NEW a \in Int PROVE a * a \in Nat
    BY Z3
  <2>3. (y - (q + 1)) * (y - (q + 1)) \in Nat /\ y * (q + 1) \in Int
    BY <1>1, <2>2
  <2>4. (y + (q + 1)) * (y + (q + 1)) = 4 * (y * (q + 1)) + (y - (q + 1)) * (y - (q + 1))
    BY <1>1, <2>1
  <2> QED BY <2>3, <2>4
<1>5. (2 * (m + 1)) * (2 * (m + 1)) >= (y + (q + 1)) * (y + (q + 1))
  <2>1. ASSUME NEW a \in Nat, NEW b \in Nat, a <= b PROVE a * a <= b * b
    BY <2>1, Z3
  <2>2. y + (q + 1) \in Nat /\ 2 * (m + 1) \in Nat /\ y + (q + 1) <= 2 * (m + 1)
    BY <1>1, <1>2, <1>3
  <2> QED BY <2>1, <2>2
<1>6. (2 * (m + 1)) * (2 * (m + 1)) = 4 * ((m + 1) * (m + 1))
  BY <1>2, Z3
<1>7. y * (q + 1) = (q + 1) * y /\ (q + 1) * y \in Int /\ (m + 1) * (m + 1) \in Int
  BY <1>1, <1>2
<1>8. 4 * ((m + 1) * (m + 1)) > 4 * n
  BY <1>1, <1>4, <1>5, <1>6, <1>7
<1> QED BY <1>7, <1>8 DEF m

(* Where it stops, it has not passed the root either. *)
LEMMA NewtonStops ==
  ASSUME NEW n \in Nat \ {0}, NEW x \in 1..n, Newton(n, x) >= x
  PROVE  x * x <= n
<1> DEFINE q == n \div x
<1>1. q \in Nat /\ q * x <= n
  BY FloorOf
<1>2. q >= x
  <2> HIDE DEF q
  <2>1. (x + q) \div 2 >= x
    BY DEF Newton, q
  <2> QED BY <1>1, <2>1
<1> HIDE DEF q
<1>3. x * x <= q * x
  BY <1>1, <1>2, Z3
<1>4. x * x \in Int /\ q * x \in Int
  BY <1>1
<1> QED BY <1>1, <1>3, <1>4

(* A function that descends as far as the numbers up to k. *)
DescendsTo(n, k, g) ==
  /\ g = [x \in 1..n |-> g[x]]
  /\ \A x \in 1..n :
       x <= k => g[x] = IF Newton(n, x) < x THEN g[Newton(n, x)] ELSE x

(* There is one for every k. *)
LEMMA DescendsToAll ==
  ASSUME NEW n \in Nat \ {0}, NEW k \in Nat
  PROVE  \E g : DescendsTo(n, k, g)
<1> DEFINE bad == {j \in Nat : ~ \E g : DescendsTo(n, j, g)}
<1>1. 0 \notin bad
  <2> DEFINE z == [x \in 1..n |-> x]
  <2>1. \A x \in 1..n : ~ (x <= 0)
    OBVIOUS
  <2>2. DescendsTo(n, 0, z)
    BY <2>1 DEF DescendsTo
  <2> QED BY <2>2
<1>2. ASSUME NEW j \in Nat, j + 1 \in bad
      PROVE  \E m \in bad : m <= j
  <2> SUFFICES ASSUME NEW g, DescendsTo(n, j, g) PROVE FALSE
    OBVIOUS
  <2> DEFINE Value(x) == IF Newton(n, x) < x THEN g[Newton(n, x)] ELSE x
             h == [x \in 1..n |-> IF x <= j THEN g[x] ELSE Value(x)]
  <2>1. h = [x \in 1..n |-> h[x]]
    OBVIOUS
  <2>2. ASSUME NEW x \in 1..n, x <= j + 1
        PROVE  h[x] = IF Newton(n, x) < x THEN h[Newton(n, x)] ELSE x
    <3>1. h[x] = Value(x)
      BY <2>2 DEF DescendsTo
    <3>2. CASE ~ (Newton(n, x) < x)
      BY <3>1, <3>2
    <3>3. CASE Newton(n, x) < x
      <4>1. Newton(n, x) \in 1..n /\ Newton(n, x) <= j
        BY <2>2, <3>3, NewtonInRange
      <4>2. h[Newton(n, x)] = g[Newton(n, x)]
        BY <4>1
      <4> QED BY <3>1, <3>3, <4>2
    <3> QED BY <3>2, <3>3
  <2> HIDE DEF h
  <2>3. DescendsTo(n, j + 1, h)
    BY <2>1, <2>2 DEF DescendsTo
  <2> QED BY <1>2, <2>3
<1>3. bad = {}
  <2> HIDE DEF bad
  <2>1. bad \subseteq Nat
    BY DEF bad
  <2> QED BY <1>1, <1>2, <2>1, NoSmallest
<1> QED BY <1>3

(* So the root is computed by such a function. *)
LEMMA DescendExists ==
  ASSUME NEW n \in Nat \ {0}
  PROVE  Descends(n, CHOOSE g : Descends(n, g))
<1>1. PICK g : DescendsTo(n, n, g)
  BY DescendsToAll
<1>2. Descends(n, g)
  BY <1>1 DEF DescendsTo, Descends
<1> QED BY <1>2

(* The root of a natural number that the contract computes is the floor of *)
(* its square root, so that the shares of a new pool are neither too many  *)
(* nor too few by one (lib.rs, sqrt).                                      *)
THEOREM SqrtIsFloor ==
  ASSUME NEW n \in Nat
  PROVE  /\ sqrt(n) \in Nat
         /\ sqrt(n) * sqrt(n) <= n
         /\ n < (sqrt(n) + 1) * (sqrt(n) + 1)
<1> DEFINE Floor(r) == r \in Nat /\ r * r <= n /\ n < (r + 1) * (r + 1)
<1>1. CASE n = 0
  <2>1. sqrt(n) = 0
    BY <1>1 DEF sqrt
  <2> QED BY <1>1, <2>1
<1>2. CASE n # 0
  <2> DEFINE d == CHOOSE g : Descends(n, g)
             bad == {x \in 1..n : n < (x + 1) * (x + 1) /\ ~ Floor(d[x])}
  <2>1. \A x \in 1..n : d[x] = IF Newton(n, x) < x THEN d[Newton(n, x)] ELSE x
    <3>1. Descends(n, d)
      BY <1>2, DescendExists
    <3> HIDE DEF d
    <3> QED BY <3>1 DEF Descends
  <2> HIDE DEF d
  <2>2. ASSUME NEW x \in bad
        PROVE  \E m \in bad : m < x
    <3>1. x \in 1..n /\ n < (x + 1) * (x + 1) /\ ~ Floor(d[x])
      OBVIOUS
    <3> DEFINE y == Newton(n, x)
    <3>2. y \in 1..n /\ n < (y + 1) * (y + 1)
      BY <1>2, <3>1, NewtonInRange, NewtonAboveRoot
    <3>3. y < x
      <4> SUFFICES ASSUME ~ (y < x) PROVE FALSE
        OBVIOUS
      <4>1. d[x] = x
        BY <2>1, <3>1
      <4>2. Newton(n, x) >= x
        BY <3>1, <3>2
      <4>3. x * x <= n
        BY <1>2, <3>1, <4>2, NewtonStops
      <4> QED BY <3>1, <4>1, <4>3
    <3>4. d[x] = d[y]
      BY <2>1, <3>1, <3>3
    <3> HIDE DEF y
    <3>5. ~ Floor(d[y])
      BY <3>1, <3>4
    <3>6. y \in bad
      BY <3>2, <3>5
    <3> QED BY <3>3, <3>6
  <2>3. bad = {}
    <3> SUFFICES ASSUME bad # {} PROVE FALSE
      OBVIOUS
    <3>1. bad \subseteq Nat
      OBVIOUS
    <3> HIDE DEF bad
    <3>3. PICK x \in bad : \A m \in bad : x <= m
      BY <3>1, SmallestOf
    <3>4. PICK m \in bad : m < x
      BY <2>2
    <3>5. x \in Nat /\ m \in Nat /\ x <= m
      BY <3>1, <3>3
    <3> QED BY <3>4, <3>5
  <2>4. n \in 1..n /\ n < (n + 1) * (n + 1)
    <3>1. (n + 1) * (n + 1) = n * n + 2 * n + 1 /\ n * n \in Nat
      BY Z3
    <3> QED BY <1>2, <3>1
  <2>5. Floor(d[n])
    BY <2>3, <2>4
  <2>6. sqrt(n) = d[n]
    BY <1>2, SqrtIsChosen DEF d
  <2> QED BY <2>5, <2>6
<1> QED BY <1>1, <1>2

-----------------------------------------------------------------------------
(* Every quotient is an integer. *)
LEMMA QuotType ==
  ASSUME NEW x \in Int, NEW y \in Int \ {0}
  PROVE  Quot(x, y) \in Int
<1>1. Abs(x) \in Nat /\ Abs(y) \in Nat \ {0}
  BY DEF Abs
<1>2. Abs(x) \div Abs(y) \in Nat
  BY <1>1, FloorOf
<1> QED BY <1>2 DEF Quot

(* The product of integers is one. *)
LEMMA ProductOfInts ==
  ASSUME NEW x \in Int, NEW y \in Int
  PROVE  x * y \in Int
OBVIOUS

(* What a swap pays out is an integer, whatever the reserves. *)
LEMMA OutputType ==
  ASSUME NEW in \in Int, NEW out \in Int, NEW amount \in Int, in + amount # 0, NEW rate \in Int
  PROVE  AmountOut(in, out, amount, rate) \in Int
<1>1. Quot(amount * out, in + amount) \in Int
  BY ProductOfInts, QuotType
<1>2. Quot(amount * out, in + amount) * (10000 - rate) \in Int
  <2> HIDE DEF Quot
  <2>1. 10000 - rate \in Int
    OBVIOUS
  <2> QED BY <1>1, <2>1, ProductOfInts
<1> QED BY <1>2, QuotType DEF AmountOut

(* A pool with other reserves, another supply and the same fee. *)
LEMMA PoolOfParts ==
  ASSUME NEW x \in Int, NEW y \in Int, NEW s \in Int, NEW r \in Nat
  PROVE  [reserve_a |-> x, reserve_b |-> y, lp_token_supply |-> s, fee_rate |-> r] \in Pool
BY DEF Pool

(* What is known of a pool that exists. *)
LEMMA PoolThere ==
  ASSUME PoolTypeOK, NEW p \in Pools, Exists(p)
  PROVE  /\ pool[p] \in Pool
         /\ pool[p].reserve_a \in Int /\ pool[p].reserve_b \in Int
         /\ pool[p].lp_token_supply \in Int /\ pool[p].fee_rate \in Nat
         /\ Supply(p) = pool[p].lp_token_supply
<1>1. pool[p] \in Pool
  BY DEF PoolTypeOK, Exists
<1> QED BY <1>1 DEF Pool, Supply

-----------------------------------------------------------------------------
Supplies(f) == [p \in Pools |-> IF f[p] # NoPool THEN f[p].lp_token_supply ELSE 0]

(* The totals as sums over the providers and over the pairs. *)
LEMMA SharesAreSums ==
  ASSUME PoolTypeOK
  PROVE  SharesMatchSupply <=>
           SumFunctionOnSet(lp, Providers) = SumFunctionOnSet(Supplies(pool), Pools)
BY DEF SharesMatchSupply, SumFunction, PoolTypeOK, Supplies, Supply, Exists

(* The same of the next state. *)
LEMMA SharesBecomeSums ==
  ASSUME PoolTypeOK'
  PROVE  SharesMatchSupply' <=>
           SumFunctionOnSet(lp', Providers) = SumFunctionOnSet(Supplies(pool'), Pools)
BY DEF SharesMatchSupply, SumFunction, PoolTypeOK, Supplies, Supply, Exists

(* A call adds n to one balance and to the supply of one pool. *)
LEMMA SharesStep ==
  ASSUME PoolTypeOK, SharesMatchSupply, NEW u \in Providers, NEW p \in Pools, NEW n \in Int,
         NEW q \in Pool, q.lp_token_supply = Supply(p) + n,
         lp' = [lp EXCEPT ![u] = lp[u] + n], pool' = [pool EXCEPT ![p] = q]
  PROVE  SumFunctionOnSet(lp', Providers) = SumFunctionOnSet(Supplies(pool'), Pools)
<1> DEFINE f == Supplies(pool)
           g == Supplies(pool')
<1>1. SumFunctionOnSet(lp, Providers) = SumFunctionOnSet(f, Pools)
  BY SharesAreSums
<1>2. \A v \in Providers : lp[v] \in Int /\ lp'[v] \in Int
  BY DEF PoolTypeOK
<1>3. \A v \in Providers \ {u} : lp'[v] = lp[v]
  BY DEF PoolTypeOK
<1>4. lp'[u] = lp[u] + n
  BY DEF PoolTypeOK
<1>5. SumFunctionOnSet(lp', Providers) = SumFunctionOnSet(lp, Providers) - lp[u] + lp'[u]
  <2> DEFINE h == lp'
  <2>1. \A v \in Providers : lp[v] \in Int /\ h[v] \in Int
    BY <1>2
  <2>2. \A v \in Providers \ {u} : h[v] = lp[v]
    BY <1>3
  <2> HIDE DEF h
  <2>3. SumFunctionOnSet(h, Providers) = SumFunctionOnSet(lp, Providers) - lp[u] + h[u]
    BY <2>1, <2>2, PoolAssumption, SumChange
  <2> QED BY <2>3 DEF h
<1>6. q # NoPool /\ q.lp_token_supply \in Int
  BY PoolAssumption DEF Pool
<1>7. pool'[p] = q /\ \A x \in Pools \ {p} : pool'[x] = pool[x]
  BY DEF PoolTypeOK
<1>8. f[p] = Supply(p) /\ g[p] = q.lp_token_supply /\ \A x \in Pools \ {p} : g[x] = f[x]
  BY <1>6, <1>7 DEF Supplies, Supply, Exists
<1>9. ASSUME NEW x \in Pools PROVE f[x] \in Int
  <2>1. f[x] = Supply(x)
    BY DEF Supplies, Supply, Exists
  <2>2. Supply(x) \in Int
    BY PoolThere DEF Supply
  <2> QED BY <2>1, <2>2
<1>10. ASSUME NEW x \in Pools PROVE g[x] \in Int
  BY <1>6, <1>8, <1>9
<1> HIDE DEF f, g
<1>11. SumFunctionOnSet(g, Pools) = SumFunctionOnSet(f, Pools) - f[p] + g[p]
  <2>1. \A y \in Pools : f[y] \in Int /\ g[y] \in Int
    BY <1>9, <1>10
  <2> QED BY <1>8, <2>1, PoolAssumption, SumChange
<1>12. SumFunctionOnSet(lp, Providers) \in Int
  <2>1. \A v \in Providers : lp[v] \in Int
    BY <1>2
  <2> QED BY <2>1, PoolAssumption, SumType
<1>13. lp[u] \in Int /\ f[p] \in Int
  BY <1>2, <1>9
<1> QED BY <1>1, <1>4, <1>5, <1>8, <1>11, <1>12, <1>13 DEF g

(* A call that leaves the balances and the supply of each pool. *)
LEMMA SharesSame ==
  ASSUME PoolTypeOK, SharesMatchSupply, lp' = lp, NEW p \in Pools, Exists(p), NEW q \in Pool,
         q.lp_token_supply = pool[p].lp_token_supply, pool' = [pool EXCEPT ![p] = q]
  PROVE  SumFunctionOnSet(lp', Providers) = SumFunctionOnSet(Supplies(pool'), Pools)
<1>1. q # NoPool
  BY PoolAssumption DEF Pool
<1>2. Supplies(pool') = Supplies(pool)
  BY <1>1 DEF Supplies, Exists, PoolTypeOK
<1> QED BY <1>2, SharesAreSums

PoolInv == PoolTypeOK /\ SharesMatchSupply

(* No pool and no shares. *)
LEMMA PoolStarts == PoolInit => PoolInv
<1> SUFFICES ASSUME PoolInit PROVE PoolInv
  OBVIOUS
<1>1. PoolTypeOK
  <2>1. pool \in [Pools -> Pool \cup {NoPool}] /\ lp \in [Providers -> Int]
    BY DEF PoolInit
  <2>2. poolFee \in Nat /\ initialized \in BOOLEAN /\ poolPaused \in BOOLEAN
    BY DEF PoolInit, DefaultFee
  <2>3. calls \in 0..MaxPoolCalls
    BY PoolAssumption DEF PoolInit
  <2> QED BY <2>1, <2>2, <2>3 DEF PoolTypeOK
<1>2. lp = [u \in Providers |-> 0] /\ Supplies(pool) = [p \in Pools |-> 0]
  BY DEF PoolInit, Supplies
<1>3. SumFunctionOnSet(lp, Providers) = 0 /\ SumFunctionOnSet(Supplies(pool), Pools) = 0
  BY <1>2, PoolAssumption, SumOfZeros
<1> QED BY <1>1, <1>3, SharesAreSums DEF PoolInv

(* A call that stores one pool, and perhaps credits one provider. *)
LEMMA CallTypes ==
  ASSUME PoolTypeOK, Call, NEW p \in Pools, NEW q \in Pool, pool' = [pool EXCEPT ![p] = q],
         lp' \in [Providers -> Int]
  PROVE  PoolTypeOK'
BY PoolAssumption DEF PoolTypeOK, Call

(* A call that mints or burns shares. *)
LEMMA LiquidityStep ==
  ASSUME PoolInv, Call, NEW u \in Providers, NEW p \in Pools, NEW n \in Int,
         NEW q \in Pool, q.lp_token_supply = Supply(p) + n,
         Credit(u, n), pool' = [pool EXCEPT ![p] = q]
  PROVE  PoolInv'
<1>1. lp' = [lp EXCEPT ![u] = lp[u] + n]
  BY DEF Credit
<1>2. lp' \in [Providers -> Int]
  BY <1>1 DEF PoolInv, PoolTypeOK
<1>3. PoolTypeOK'
  BY <1>2, CallTypes DEF PoolInv
<1>4. SumFunctionOnSet(lp', Providers) = SumFunctionOnSet(Supplies(pool'), Pools)
  BY <1>1, SharesStep DEF PoolInv
<1>5. SharesMatchSupply'
  BY <1>3, <1>4, SharesBecomeSums
<1> QED BY <1>3, <1>5 DEF PoolInv

(* Balances and supplies that stay the same. *)
LEMMA SwapStep ==
  ASSUME PoolInv, Call, lp' = lp, NEW p \in Pools, Exists(p), NEW q \in Pool,
         q.lp_token_supply = pool[p].lp_token_supply, pool' = [pool EXCEPT ![p] = q]
  PROVE  PoolInv'
<1>1. lp' \in [Providers -> Int]
  BY DEF PoolInv, PoolTypeOK
<1>2. PoolTypeOK'
  BY <1>1, CallTypes DEF PoolInv
<1>3. SumFunctionOnSet(lp', Providers) = SumFunctionOnSet(Supplies(pool'), Pools)
  BY SharesSame DEF PoolInv
<1> QED BY <1>2, <1>3, SharesBecomeSums DEF PoolInv

(* Every call keeps types and totals. *)
LEMMA PoolSteps == PoolInv /\ [PoolNext]_poolVars => PoolInv'
<1> SUFFICES ASSUME PoolInv, [PoolNext]_poolVars PROVE PoolInv'
  OBVIOUS
<1>0. PoolTypeOK /\ SharesMatchSupply /\ poolFee \in Nat
  BY DEF PoolInv, PoolTypeOK
<1>1. CASE UNCHANGED <<pool, lp, calls>> /\ poolFee' \in Nat /\ initialized' \in BOOLEAN
            /\ poolPaused' \in BOOLEAN
  <2>1. PoolTypeOK'
    BY <1>0, <1>1 DEF PoolTypeOK
  <2>2. SharesMatchSupply'
    BY <1>0, <1>1 DEF SharesMatchSupply, SumFunction, Supply, Exists
  <2> QED BY <2>1, <2>2 DEF PoolInv
<1>2. ASSUME NEW f \in PoolFees, InitializePool(f) \/ SetPoolFee(f) PROVE PoolInv'
  <2>1. f \in Nat
    BY PoolAssumption
  <2> QED BY <1>0, <1>1, <1>2, <2>1 DEF InitializePool, SetPoolFee, PoolTypeOK
<1>3. ASSUME NEW b \in BOOLEAN, SetPoolPaused(b) PROVE PoolInv'
  BY <1>0, <1>1, <1>3 DEF SetPoolPaused, PoolTypeOK
<1>4. CASE UNCHANGED poolVars
  BY <1>0, <1>1, <1>4 DEF poolVars, PoolTypeOK
<1>5. ASSUME NEW p \in Pools, NEW u \in Providers, NEW a \in PoolAmounts, NEW b \in PoolAmounts,
             CreatePool(u, p, a, b)
      PROVE  PoolInv'
  <2> DEFINE q == [reserve_a |-> a, reserve_b |-> b, lp_token_supply |-> sqrt(a * b),
                   fee_rate |-> poolFee]
  <2>1. /\ Call /\ a > 0 /\ b > 0 /\ Supply(p) = 0 /\ pool' = [pool EXCEPT ![p] = q]
        /\ Credit(u, sqrt(a * b))
    BY <1>5 DEF CreatePool, Supply
  <2>2. a \in Int /\ b \in Int /\ a * b \in Nat
    BY <2>1, PoolAssumption, ProductType
  <2>3. sqrt(a * b) \in Int
    BY <2>2, SqrtIsFloor
  <2>4. q \in Pool /\ q.lp_token_supply = Supply(p) + sqrt(a * b)
    BY <1>0, <2>1, <2>2, <2>3, PoolOfParts
  <2> HIDE DEF q
  <2> QED BY <2>1, <2>3, <2>4, LiquidityStep
<1>6. ASSUME NEW p \in Pools, NEW u \in Providers, NEW a \in PoolAmounts, NEW b \in PoolAmounts,
             RefillPool(u, p, a, b)
      PROVE  PoolInv'
  <2> DEFINE q == [reserve_a |-> a, reserve_b |-> b, lp_token_supply |-> sqrt(a * b),
                   fee_rate |-> pool[p].fee_rate]
  <2>1. /\ Call /\ a > 0 /\ b > 0 /\ Exists(p) /\ Supply(p) = 0
        /\ pool' = [pool EXCEPT ![p] = q] /\ Credit(u, sqrt(a * b))
    BY <1>6 DEF RefillPool, Supply
  <2>2. a \in Int /\ b \in Int /\ a * b \in Nat /\ pool[p].fee_rate \in Nat
    BY <1>0, <2>1, PoolAssumption, ProductType, PoolThere
  <2>3. sqrt(a * b) \in Int
    BY <2>2, SqrtIsFloor
  <2>4. q \in Pool /\ q.lp_token_supply = Supply(p) + sqrt(a * b)
    BY <2>1, <2>2, <2>3, PoolOfParts
  <2> HIDE DEF q
  <2> QED BY <2>1, <2>3, <2>4, LiquidityStep
<1>7. ASSUME NEW p \in Pools, NEW u \in Providers, NEW a \in PoolAmounts, NEW b \in PoolAmounts,
             AddLiquidity(u, p, a, b)
      PROVE  PoolInv'
  <2> DEFINE shares == SharesFor(p, a)
             q == [reserve_a |-> pool[p].reserve_a + a, reserve_b |-> pool[p].reserve_b + b,
                   lp_token_supply |-> pool[p].lp_token_supply + shares,
                   fee_rate |-> pool[p].fee_rate]
  <2>1. /\ Call /\ Exists(p) /\ pool[p].reserve_a # 0
        /\ pool' = [pool EXCEPT ![p] = q] /\ Credit(u, shares)
    BY <1>7 DEF AddLiquidity
  <2>2. /\ a \in Int /\ b \in Int
        /\ pool[p].reserve_a \in Int /\ pool[p].reserve_b \in Int
        /\ pool[p].lp_token_supply \in Int /\ pool[p].fee_rate \in Nat
        /\ Supply(p) = pool[p].lp_token_supply
    BY <1>0, <2>1, PoolAssumption, PoolThere
  <2>3. shares \in Int
    BY <2>1, <2>2, ProductOfInts, QuotType DEF SharesFor
  <2> HIDE DEF shares
  <2>4. q \in Pool /\ q.lp_token_supply = Supply(p) + shares
    BY <2>2, <2>3, PoolOfParts
  <2> HIDE DEF q
  <2> QED BY <2>1, <2>3, <2>4, LiquidityStep
<1>8. ASSUME NEW p \in Pools, NEW u \in Providers, NEW n \in PoolAmounts, RemoveLiquidity(u, p, n)
      PROVE  PoolInv'
  <2> DEFINE s == pool[p].lp_token_supply
             takenA == Quot(n * pool[p].reserve_a, s)
             takenB == Quot(n * pool[p].reserve_b, s)
             q == [reserve_a |-> pool[p].reserve_a - takenA,
                   reserve_b |-> pool[p].reserve_b - takenB,
                   lp_token_supply |-> s - n, fee_rate |-> pool[p].fee_rate]
  <2>1. /\ Call /\ Exists(p) /\ s # 0 /\ pool' = [pool EXCEPT ![p] = q] /\ Credit(u, -n)
    BY <1>8 DEF RemoveLiquidity
  <2>2. /\ n \in Int /\ pool[p].reserve_a \in Int /\ pool[p].reserve_b \in Int
        /\ s \in Int /\ pool[p].fee_rate \in Nat /\ Supply(p) = s
    BY <1>0, <2>1, PoolAssumption, PoolThere
  <2> HIDE DEF s
  <2>3. takenA \in Int /\ takenB \in Int
    BY <2>1, <2>2, ProductOfInts, QuotType
  <2> HIDE DEF takenA, takenB
  <2>4. q \in Pool /\ q.lp_token_supply = Supply(p) + (-n) /\ -n \in Int
    BY <2>2, <2>3, PoolOfParts
  <2> HIDE DEF q
  <2> QED BY <2>1, <2>4, LiquidityStep
<1>9. ASSUME NEW p \in Pools, NEW n \in PoolAmounts, NEW min \in MinOuts, SwapAForB(p, n, min)
      PROVE  PoolInv'
  <2> DEFINE out == AmountOut(pool[p].reserve_a, pool[p].reserve_b, n, pool[p].fee_rate)
             q == [reserve_a |-> pool[p].reserve_a + n, reserve_b |-> pool[p].reserve_b - out,
                   lp_token_supply |-> pool[p].lp_token_supply, fee_rate |-> pool[p].fee_rate]
  <2>1. /\ Call /\ Exists(p) /\ pool[p].reserve_a + n # 0 /\ pool' = [pool EXCEPT ![p] = q]
        /\ lp' = lp
    BY <1>9 DEF SwapAForB
  <2>2. /\ n \in Int /\ pool[p].reserve_a \in Int /\ pool[p].reserve_b \in Int
        /\ pool[p].lp_token_supply \in Int /\ pool[p].fee_rate \in Nat
    BY <1>0, <2>1, PoolAssumption, PoolThere
  <2>3. out \in Int
    BY <2>1, <2>2, OutputType
  <2> HIDE DEF out
  <2>4. q \in Pool /\ q.lp_token_supply = pool[p].lp_token_supply
    <3>1. pool[p].reserve_a + n \in Int /\ pool[p].reserve_b - out \in Int
      BY <2>2, <2>3
    <3> QED BY <2>2, <3>1, PoolOfParts
  <2> HIDE DEF q
  <2> QED BY <2>1, <2>4, SwapStep
<1>10. ASSUME NEW p \in Pools, NEW n \in PoolAmounts, NEW min \in MinOuts, SwapBForA(p, n, min)
      PROVE  PoolInv'
  <2> DEFINE out == AmountOut(pool[p].reserve_b, pool[p].reserve_a, n, pool[p].fee_rate)
             q == [reserve_a |-> pool[p].reserve_a - out, reserve_b |-> pool[p].reserve_b + n,
                   lp_token_supply |-> pool[p].lp_token_supply, fee_rate |-> pool[p].fee_rate]
  <2>1. /\ Call /\ Exists(p) /\ pool[p].reserve_b + n # 0 /\ pool' = [pool EXCEPT ![p] = q]
        /\ lp' = lp
    BY <1>10 DEF SwapBForA
  <2>2. /\ n \in Int /\ pool[p].reserve_a \in Int /\ pool[p].reserve_b \in Int
        /\ pool[p].lp_token_supply \in Int /\ pool[p].fee_rate \in Nat
    BY <1>0, <2>1, PoolAssumption, PoolThere
  <2>3. out \in Int
    BY <2>1, <2>2, OutputType
  <2> HIDE DEF out
  <2>4. q \in Pool /\ q.lp_token_supply = pool[p].lp_token_supply
    <3>1. pool[p].reserve_a - out \in Int /\ pool[p].reserve_b + n \in Int
      BY <2>2, <2>3
    <3> QED BY <2>2, <3>1, PoolOfParts
  <2> HIDE DEF q
  <2> QED BY <2>1, <2>4, SwapStep
<1> QED
  BY <1>2, <1>3, <1>4, <1>5, <1>6, <1>7, <1>8, <1>9, <1>10, Zenon DEF PoolNext

(* A pool of the right type has a fee, and the action properties need no    *)
(* more of the state than that pool is a function of the pairs.             *)
LEMMA PoolIsFunction ==
  ASSUME PoolInv
  PROVE  /\ pool = [p \in Pools |-> pool[p]]
         /\ poolFee \in Nat
         /\ \A p \in Pools : Exists(p) => pool[p].fee_rate \in Nat
BY PoolThere DEF PoolInv, PoolTypeOK

-----------------------------------------------------------------------------
(* A step that changes a sound pool is one of four; the fifth case is the   *)
(* pools a step leaves alone.                                               *)
LEMMA SoundPoolSteps ==
  ASSUME PoolInv, [PoolNext]_poolVars, NEW p \in Pools, Sound(p)
  PROVE  \/ pool'[p] = pool[p]
         \/ \E u \in Providers, a, b \in PoolAmounts : AddLiquidity(u, p, a, b)
         \/ \E u \in Providers, n \in PoolAmounts : RemoveLiquidity(u, p, n)
         \/ \E n \in PoolAmounts, min \in MinOuts : SwapAForB(p, n, min) \/ SwapBForA(p, n, min)
<1>0. pool = [q \in Pools |-> pool[q]] /\ Exists(p) /\ pool[p].lp_token_supply # 0
  BY PoolIsFunction DEF Sound
<1>1. CASE UNCHANGED poolVars
  BY <1>1 DEF poolVars
<1>2. ASSUME NEW f \in PoolFees, InitializePool(f) \/ SetPoolFee(f) PROVE pool' = pool
  BY <1>2 DEF InitializePool, SetPoolFee
<1>3. ASSUME NEW b \in BOOLEAN, SetPoolPaused(b) PROVE pool' = pool
  BY <1>3 DEF SetPoolPaused
<1>4. ASSUME NEW q \in Pools, NEW u \in Providers, NEW a \in PoolAmounts, NEW b \in PoolAmounts,
             CreatePool(u, q, a, b) \/ RefillPool(u, q, a, b)
      PROVE  pool'[p] = pool[p]
  BY <1>0, <1>4 DEF CreatePool, RefillPool
<1>5. ASSUME NEW q \in Pools, q # p, NEW u \in Providers, NEW a \in PoolAmounts, NEW b \in PoolAmounts,
             AddLiquidity(u, q, a, b) \/ RemoveLiquidity(u, q, a)
      PROVE  pool'[p] = pool[p]
  BY <1>0, <1>5 DEF AddLiquidity, RemoveLiquidity
<1>6. ASSUME NEW q \in Pools, q # p, NEW n \in PoolAmounts, NEW min \in MinOuts,
             SwapAForB(q, n, min) \/ SwapBForA(q, n, min)
      PROVE  pool'[p] = pool[p]
  BY <1>0, <1>6 DEF SwapAForB, SwapBForA
<1> QED
  BY <1>1, <1>2, <1>3, <1>4, <1>5, <1>6 DEF PoolNext

(* An addition raises both reserves of a sound pool and burns no share. *)
LEMMA AdditionRaises ==
  ASSUME PoolInv, NEW u \in Providers, NEW p \in Pools, NEW a \in PoolAmounts, NEW b \in PoolAmounts,
         Sound(p), AddLiquidity(u, p, a, b)
  PROVE  /\ pool'[p].reserve_a \in Nat /\ pool'[p].reserve_b \in Nat
         /\ pool'[p].reserve_a >= pool[p].reserve_a
         /\ pool'[p].reserve_b >= pool[p].reserve_b
         /\ pool'[p].lp_token_supply >= pool[p].lp_token_supply
<1>0. /\ pool[p].reserve_a \in Nat \ {0} /\ pool[p].reserve_b \in Nat
      /\ pool[p].lp_token_supply \in Nat \ {0}
      /\ a \in Nat \ {0} /\ b \in Nat \ {0}
  BY PoolAssumption DEF Sound, AddLiquidity
<1>1. a * pool[p].lp_token_supply \in Nat
  BY <1>0, ProductType
<1>2. SharesFor(p, a) \in Nat
  BY <1>0, <1>1, QuotOfNaturals DEF SharesFor
<1>3. /\ pool'[p].reserve_a = pool[p].reserve_a + a
      /\ pool'[p].reserve_b = pool[p].reserve_b + b
      /\ pool'[p].lp_token_supply = pool[p].lp_token_supply + SharesFor(p, a)
  BY PoolIsFunction DEF AddLiquidity
<1> QED
  BY <1>0, <1>2, <1>3

(* The product of a sound pool never falls while its shares stay the same,  *)
(* for any amounts, any fee, above 100% as well, and any minimum output.    *)
THEOREM ProductNeverFallsHolds == PoolSpec => ProductNeverFalls
<1>1. ASSUME PoolInv, [PoolNext]_poolVars, NEW p \in Pools, Sound(p),
             pool'[p].lp_token_supply = pool[p].lp_token_supply
      PROVE  pool'[p].reserve_a * pool'[p].reserve_b
               >= pool[p].reserve_a * pool[p].reserve_b
  <2> DEFINE x == pool[p].reserve_a
             y == pool[p].reserve_b
             s == pool[p].lp_token_supply
             rate == pool[p].fee_rate
  <2>0. x \in Nat /\ y \in Nat /\ s \in Nat \ {0} /\ rate \in Nat
    BY <1>1, PoolIsFunction DEF Sound
  <2>1. CASE pool'[p] = pool[p]
    <3>1. x * y \in Int
      BY <2>0
    <3> QED
      BY <2>1, <3>1
  <2>2. ASSUME NEW u \in Providers, NEW a \in PoolAmounts, NEW b \in PoolAmounts,
               AddLiquidity(u, p, a, b)
        PROVE  pool'[p].reserve_a * pool'[p].reserve_b >= x * y
    <3>1. /\ pool'[p].reserve_a \in Nat /\ pool'[p].reserve_a >= x
          /\ pool'[p].reserve_b \in Nat /\ pool'[p].reserve_b >= y
      BY <1>1, <2>2, AdditionRaises
    <3> QED
      BY <2>0, <3>1, OrderOfProducts
  <2>3. ASSUME NEW u \in Providers, NEW n \in PoolAmounts, RemoveLiquidity(u, p, n)
        PROVE  pool'[p].reserve_a * pool'[p].reserve_b >= x * y
    <3>1. n = 0
      BY <1>1, <2>0, <2>3, PoolAssumption, PoolIsFunction DEF RemoveLiquidity
    <3>2. Quot(n * x, s) = 0 /\ Quot(n * y, s) = 0
      BY <2>0, <3>1, QuotOfZero
    <3>3. pool'[p].reserve_a = x /\ pool'[p].reserve_b = y
      BY <1>1, <2>0, <2>3, <3>2, PoolIsFunction DEF RemoveLiquidity
    <3>4. x * y \in Int
      BY <2>0
    <3> QED
      BY <3>3, <3>4
  <2>4. ASSUME NEW n \in PoolAmounts, NEW min \in MinOuts, SwapAForB(p, n, min)
        PROVE  pool'[p].reserve_a * pool'[p].reserve_b >= x * y
    <3> DEFINE paid == AmountOut(x, y, n, rate)
    <3>1. n \in Nat \ {0}
      BY <2>4, PoolAssumption DEF SwapAForB
    <3>2. paid \in Int /\ paid * (x + n) <= n * y
      BY <2>0, <3>1, OutputBound
    <3>3. pool'[p].reserve_a = x + n /\ pool'[p].reserve_b = y - paid
      BY <1>1, <2>4, PoolIsFunction DEF SwapAForB
    <3> HIDE DEF paid
    <3> QED
      BY <2>0, <3>1, <3>2, <3>3, SwapProduct
  <2>5. ASSUME NEW n \in PoolAmounts, NEW min \in MinOuts, SwapBForA(p, n, min)
        PROVE  pool'[p].reserve_a * pool'[p].reserve_b >= x * y
    <3> DEFINE paid == AmountOut(y, x, n, rate)
    <3>1. n \in Nat \ {0}
      BY <2>5, PoolAssumption DEF SwapBForA
    <3>2. paid \in Int /\ paid * (y + n) <= n * x
      BY <2>0, <3>1, OutputBound
    <3>3. pool'[p].reserve_b = y + n /\ pool'[p].reserve_a = x - paid
      BY <1>1, <2>5, PoolIsFunction DEF SwapBForA
    <3> HIDE DEF paid
    <3>4. (y + n) * (x - paid) >= y * x
      BY <2>0, <3>1, <3>2, SwapProduct
    <3>5. (x - paid) * (y + n) = (y + n) * (x - paid) /\ x * y = y * x
      BY <2>0, <3>1, <3>2
    <3> QED
      BY <3>3, <3>4, <3>5
  <2> QED
    BY <1>1, <2>1, <2>2, <2>3, <2>4, <2>5, SoundPoolSteps
<1>2. PoolInv /\ [PoolNext]_poolVars =>
        [\A p \in Pools :
           Sound(p) /\ pool'[p].lp_token_supply = pool[p].lp_token_supply =>
             pool'[p].reserve_a * pool'[p].reserve_b
               >= pool[p].reserve_a * pool[p].reserve_b]_poolVars
  BY <1>1
<1> QED
  BY <1>2, PoolStarts, PoolSteps, PTL DEF PoolSpec, ProductNeverFalls

(* Burning shares of a sound pool takes no more of either reserve than they *)
(* stand for, for any amounts.                                              *)
THEOREM RemovalTakesItsShareHolds == PoolSpec => RemovalTakesItsShare
<1>1. ASSUME PoolInv, [PoolNext]_poolVars, NEW p \in Pools, Sound(p),
             pool'[p].lp_token_supply \in 0 .. pool[p].lp_token_supply - 1
      PROVE  /\ pool'[p].reserve_a * pool[p].lp_token_supply
                  >= pool[p].reserve_a * pool'[p].lp_token_supply
             /\ pool'[p].reserve_b * pool[p].lp_token_supply
                  >= pool[p].reserve_b * pool'[p].lp_token_supply
  <2> DEFINE s == pool[p].lp_token_supply
  <2>0. /\ pool[p].reserve_a \in Nat /\ pool[p].reserve_b \in Nat /\ s \in Nat \ {0}
        /\ pool'[p].lp_token_supply \in Nat /\ pool'[p].lp_token_supply < s
    BY <1>1 DEF Sound
  <2>1. PICK u \in Providers, n \in PoolAmounts : RemoveLiquidity(u, p, n)
    <3>1. ASSUME NEW v \in Providers, NEW a \in PoolAmounts, NEW b \in PoolAmounts
          PROVE  ~AddLiquidity(v, p, a, b)
      <4> SUFFICES ASSUME AddLiquidity(v, p, a, b) PROVE FALSE
        OBVIOUS
      <4>1. pool'[p].lp_token_supply >= s
        BY <1>1, AdditionRaises
      <4> QED
        BY <2>0, <4>1
    <3>2. ASSUME NEW m \in PoolAmounts, NEW min \in MinOuts
          PROVE  ~SwapAForB(p, m, min) /\ ~SwapBForA(p, m, min)
      BY <1>1, <2>0, PoolIsFunction DEF SwapAForB, SwapBForA
    <3> QED
      BY <1>1, <2>0, <3>1, <3>2, SoundPoolSteps
  <2>2. /\ pool'[p].lp_token_supply = s - n
        /\ pool'[p].reserve_a = pool[p].reserve_a - Quot(n * pool[p].reserve_a, s)
        /\ pool'[p].reserve_b = pool[p].reserve_b - Quot(n * pool[p].reserve_b, s)
    BY <1>1, <2>1, PoolIsFunction DEF RemoveLiquidity
  <2>3. n \in Nat
    BY <2>0, <2>2, PoolAssumption
  <2> QED
    BY <2>0, <2>2, <2>3, RemovalShare
<1>2. PoolInv /\ [PoolNext]_poolVars =>
        [\A p \in Pools :
           Sound(p) /\ pool'[p].lp_token_supply \in 0 .. pool[p].lp_token_supply - 1 =>
             /\ pool'[p].reserve_a * pool[p].lp_token_supply
                  >= pool[p].reserve_a * pool'[p].lp_token_supply
             /\ pool'[p].reserve_b * pool[p].lp_token_supply
                  >= pool[p].reserve_b * pool'[p].lp_token_supply]_poolVars
  BY <1>1
<1> QED
  BY <1>2, PoolStarts, PoolSteps, PTL DEF PoolSpec, RemovalTakesItsShare

-----------------------------------------------------------------------------
(***************************************************************************)
(* The merchant vault.  VaultInv: what is pending was paid in, and each    *)
(* merchant's locked balance covers the sum of it; a checkpoint says what  *)
(* the balance is of a merchant whom nothing disturbed.                    *)
(***************************************************************************)

(* The instance sums as this module does. *)
LEMMA SameSum ==
  ASSUME NEW f, NEW X
  PROVE  V!SumFunctionOnSet(f, X) = SumFunctionOnSet(f, X)
BY DEF V!SumFunctionOnSet, V!FoldFunctionOnSet, V!MapThenFoldSet,
       SumFunctionOnSet, FoldFunctionOnSet, MapThenFoldSet

(* What a merchant's deposits, by id, have pending. *)
AmountOf(d) == IF d.status = "pending" THEN d.amount ELSE 0
PendingIn(row) == SumFunctionOnSet([id \in OrchestrationIds |-> AmountOf(row[id])], OrchestrationIds)

(* It is what the vault says is pending. *)
LEMMA PendingIsSum ==
  ASSUME NEW m
  PROVE  V!PendingOf(m) = PendingIn(deposits[m])
<1>1. V!PendingOf(m) = V!SumFunctionOnSet([id \in OrchestrationIds |-> AmountOf(deposits[m][id])], OrchestrationIds)
  BY DEF V!PendingOf, V!Pending, V!SumFunction, AmountOf
<1> QED BY <1>1, SameSum DEF PendingIn

(* A pending amount is an integer, and so is their sum. *)
LEMMA PendingType ==
  ASSUME NEW row \in [OrchestrationIds -> V!Deposit]
  PROVE  /\ PendingIn(row) \in Int
         /\ \A id \in OrchestrationIds : AmountOf(row[id]) \in Int
<1> DEFINE f == [id \in OrchestrationIds |-> AmountOf(row[id])]
<1>1. ASSUME NEW d \in V!Deposit PROVE AmountOf(d) \in Int
  <2>1. d.status = "pending" => d.amount \in DepositAmounts
    BY DEF V!Deposit, V!NoDeposit
  <2>2. d.status = "pending" => d.amount \in Int
    BY <2>1, VaultAssumption
  <2>3. CASE d.status = "pending"
    BY <2>2, <2>3 DEF AmountOf
  <2>4. CASE d.status # "pending"
    BY <2>4 DEF AmountOf
  <2> QED BY <2>3, <2>4
<1>2. \A id \in OrchestrationIds : AmountOf(row[id]) \in Int
  BY <1>1
<1>3. \A id \in OrchestrationIds : f[id] \in Int
  BY <1>2
<1> HIDE DEF f
<1>4. SumFunctionOnSet(f, OrchestrationIds) \in Int
  BY <1>3, VaultAssumption, SumType
<1> QED BY <1>2, <1>4 DEF PendingIn, f

(* A deposit that changes changes the sum by as much. *)
LEMMA PendingStep ==
  ASSUME NEW row \in [OrchestrationIds -> V!Deposit], NEW id \in OrchestrationIds, NEW d \in V!Deposit
  PROVE  PendingIn([row EXCEPT ![id] = d]) = PendingIn(row) - AmountOf(row[id]) + AmountOf(d)
<1> DEFINE new == [row EXCEPT ![id] = d]
           f == [i \in OrchestrationIds |-> AmountOf(row[i])]
           g == [i \in OrchestrationIds |-> AmountOf(new[i])]
<1>1. new \in [OrchestrationIds -> V!Deposit]
  OBVIOUS
<1>2. \A i \in OrchestrationIds : f[i] \in Int
  BY PendingType
<1>3. \A i \in OrchestrationIds : g[i] \in Int
  <2> HIDE DEF new
  <2> QED BY <1>1, PendingType
<1>4. \A i \in OrchestrationIds \ {id} : g[i] = f[i]
  OBVIOUS
<1>5. f[id] = AmountOf(row[id]) /\ g[id] = AmountOf(d)
  OBVIOUS
<1>6. PendingIn(row) = SumFunctionOnSet(f, OrchestrationIds)
  BY DEF PendingIn
<1>7. PendingIn(new) = SumFunctionOnSet(g, OrchestrationIds)
  BY DEF PendingIn
<1> HIDE DEF f, g, new
<1>8. SumFunctionOnSet(g, OrchestrationIds) = SumFunctionOnSet(f, OrchestrationIds) - f[id] + g[id]
  <2>1. \A y \in OrchestrationIds : f[y] \in Int /\ g[y] \in Int
    BY <1>2, <1>3
  <2> QED BY <2>1, <1>4, VaultAssumption, SumChange
<1> QED BY <1>5, <1>6, <1>7, <1>8 DEF new

-----------------------------------------------------------------------------
PaidIn ==
  \A m \in Merchants, id \in OrchestrationIds :
    deposits[m][id].status = "pending" => deposits[m][id].amount > 0
Covered == \A m \in Merchants : locked[m] >= PendingIn(deposits[m])
CheckpointsTell ==
  \A m \in Merchants, id \in OrchestrationIds :
    deposits[m][id].status = "pending" /\ <<m, id>> \notin disturbed =>
      checkpoints[id] \in {NoCheckpoint, usdc[m]}
VaultInv == V!TypeOK /\ PaidIn /\ Covered /\ CheckpointsTell

(* The vault starts empty. *)
LEMMA VaultInit == V!Init => VaultInv
<1> SUFFICES ASSUME V!Init PROVE VaultInv
  OBVIOUS
<1> USE DEF V!Init
<1>1. V!NoDeposit \in V!Deposit /\ V!NoDeposit.status = "none"
  BY DEF V!NoDeposit, V!Deposit
<1> DEFINE none == [id \in OrchestrationIds |-> V!NoDeposit]
<1>2. none \in [OrchestrationIds -> V!Deposit] /\ deposits = [m \in Merchants |-> none]
  BY <1>1
<1>3. V!TypeOK
  <2>1. /\ usdc \in [Merchants -> Int] /\ locked \in [Merchants -> Int]
        /\ checkpoints \in [OrchestrationIds -> Int \cup {NoCheckpoint}]
        /\ vaultCalls \in 0..MaxVaultCalls
    BY VaultAssumption
  <2>2. deposits \in [Merchants -> [OrchestrationIds -> V!Deposit]]
    <3> HIDE DEF none
    <3> QED BY <1>2
  <2> QED BY <2>1, <2>2 DEF V!TypeOK
<1>4. PaidIn /\ CheckpointsTell
  BY <1>1 DEF PaidIn, CheckpointsTell
<1>5. [id \in OrchestrationIds |-> AmountOf(none[id])] = [id \in OrchestrationIds |-> 0]
  BY <1>1 DEF AmountOf
<1>6. PendingIn(none) = 0
  BY <1>5, VaultAssumption, SumOfZeros DEF PendingIn
<1>7. Covered
  <2> HIDE DEF none
  <2> QED BY <1>2, <1>6 DEF Covered
<1> QED BY <1>3, <1>4, <1>7 DEF VaultInv

(* A step that changes one deposit and its merchant's locked balance by as *)
(* much as it has pending, or more, keeps the balances covered.            *)
LEMMA CoveredStep ==
  ASSUME V!TypeOK, Covered, NEW m \in Merchants, NEW id \in OrchestrationIds, NEW d \in V!Deposit,
         NEW n \in Int,
         deposits' = [deposits EXCEPT ![m][id] = d], locked' = [locked EXCEPT ![m] = n],
         n >= locked[m] - AmountOf(deposits[m][id]) + AmountOf(d)
  PROVE  Covered'
<1> DEFINE row == deposits[m]
           new == [row EXCEPT ![id] = d]
<1>1. row \in [OrchestrationIds -> V!Deposit] /\ locked[m] \in Int
  BY DEF V!TypeOK
<1>2. PendingIn(new) = PendingIn(row) - AmountOf(row[id]) + AmountOf(d)
  BY <1>1, PendingStep
<1>3. new \in [OrchestrationIds -> V!Deposit] /\ new[id] = d
  BY <1>1
<1>4. /\ PendingIn(row) \in Int /\ AmountOf(row[id]) \in Int
      /\ PendingIn(new) \in Int /\ AmountOf(new[id]) \in Int
  <2> HIDE DEF row, new
  <2> QED BY <1>1, <1>3, PendingType
<1>5. locked[m] >= PendingIn(row)
  BY DEF Covered
<1>6. deposits'[m] = new /\ locked'[m] = n
  BY DEF V!TypeOK
<1>8. /\ n >= locked[m] - AmountOf(row[id]) + AmountOf(d)
      /\ AmountOf(d) \in Int
  BY <1>3, <1>4
<1>7. ASSUME NEW x \in Merchants PROVE locked'[x] >= PendingIn(deposits'[x])
  <2>1. CASE x # m
    <3>1. deposits'[x] = deposits[x] /\ locked'[x] = locked[x]
      BY <2>1 DEF V!TypeOK
    <3>2. locked[x] >= PendingIn(deposits[x])
      BY DEF Covered
    <3> QED BY <3>1, <3>2
  <2>2. CASE x = m
    <3> HIDE DEF row, new
    <3>1. n >= PendingIn(new)
      BY <1>1, <1>2, <1>4, <1>5, <1>8
    <3> QED BY <2>2, <3>1, <1>6
  <2> QED BY <2>1, <2>2
<1> QED BY <1>7 DEF Covered

(* Every call of the vault keeps it. *)
LEMMA VaultNext == VaultInv /\ [V!Next]_ofMerchantVault => VaultInv'
<1> SUFFICES ASSUME VaultInv, [V!Next]_ofMerchantVault PROVE VaultInv'
  OBVIOUS
<1> USE VaultAssumption
<1>0. /\ V!TypeOK /\ PaidIn /\ Covered /\ CheckpointsTell
  BY DEF VaultInv
<1>1. CASE deposits' = deposits /\ locked' = locked /\ checkpoints' = checkpoints
           /\ (UNCHANGED <<usdc, disturbed, vaultCalls>> /\ hasAdmin' \in BOOLEAN)
  <2>1. V!TypeOK'
    BY <1>0, <1>1 DEF V!TypeOK
  <2>2. Covered' /\ PaidIn' /\ CheckpointsTell'
    BY <1>0, <1>1 DEF Covered, PaidIn, CheckpointsTell
  <2> QED BY <2>1, <2>2 DEF VaultInv
<1>2. CASE V!Initialize
  BY <1>1, <1>2 DEF V!Initialize
<1>3. CASE UNCHANGED ofMerchantVault
  BY <1>0, <1>1, <1>3 DEF ofMerchantVault, V!TypeOK
<1>4. ASSUME NEW m \in Merchants, NEW amount \in DepositAmounts, V!DepositNow(m, amount)
      PROVE  VaultInv'
  <2>0. /\ usdc' = [usdc EXCEPT ![m] = @ + amount] /\ disturbed' = disturbed \cup {m} \X OrchestrationIds
        /\ UNCHANGED <<locked, deposits, checkpoints>>
    BY <1>4 DEF V!DepositNow, V!CreditOf
  <2>1. V!TypeOK'
    BY <1>0, <1>4, <2>0 DEF V!TypeOK, V!DepositNow, V!Call
  <2>2. Covered' /\ PaidIn'
    BY <1>0, <2>0 DEF Covered, PaidIn
  <2>3. CheckpointsTell'
    BY <1>0, <2>0 DEF CheckpointsTell, V!TypeOK
  <2> QED BY <2>1, <2>2, <2>3 DEF VaultInv
<1>5. ASSUME NEW m \in Merchants, NEW id \in OrchestrationIds, NEW amount \in DepositAmounts,
             V!DepositAtomic(m, amount, id)
      PROVE  VaultInv'
  <2> DEFINE d == [status |-> "pending", amount |-> amount]
  <2>0. /\ amount \in Int /\ amount > 0
        /\ checkpoints' = [checkpoints EXCEPT ![id] = usdc[m]]
        /\ locked' = [locked EXCEPT ![m] = locked[m] + amount]
        /\ deposits' = [deposits EXCEPT ![m][id] = d]
        /\ disturbed' = (disturbed \cup Merchants \X {id}) \ {<<m, id>>}
        /\ usdc' = usdc
    BY <1>5 DEF V!DepositAtomic
  <2>1. d \in V!Deposit /\ AmountOf(d) = amount
    BY DEF V!Deposit, AmountOf
  <2>2. deposits[m] \in [OrchestrationIds -> V!Deposit] /\ locked[m] \in Int
    BY <1>0 DEF V!TypeOK
  <2>3. AmountOf(deposits[m][id]) \in Int /\ AmountOf(deposits[m][id]) >= 0
    BY <1>0, <2>2, PendingType DEF PaidIn, AmountOf
  <2>4. Covered'
    <3> HIDE DEF d
    <3>1. locked[m] + amount >= locked[m] - AmountOf(deposits[m][id]) + AmountOf(d)
      BY <2>0, <2>1, <2>2, <2>3
    <3>2. locked[m] + amount \in Int
      BY <2>0, <2>2
    <3> QED BY <1>0, <2>0, <2>1, <3>1, <3>2, CoveredStep
  <2>5. V!TypeOK'
    <3>1. hasAdmin' \in BOOLEAN /\ vaultCalls' \in 0..MaxVaultCalls
      BY <1>0, <1>5 DEF V!TypeOK, V!DepositAtomic, V!Call
    <3>2. deposits' \in [Merchants -> [OrchestrationIds -> V!Deposit]]
      <4> HIDE DEF d
      <4> QED BY <1>0, <2>0, <2>1 DEF V!TypeOK
    <3>3. disturbed' \subseteq Merchants \X OrchestrationIds
      BY <1>0, <2>0 DEF V!TypeOK
    <3>4. /\ usdc' \in [Merchants -> Int] /\ locked' \in [Merchants -> Int]
          /\ checkpoints' \in [OrchestrationIds -> Int \cup {NoCheckpoint}]
      BY <1>0, <2>0 DEF V!TypeOK
    <3> QED BY <3>1, <3>2, <3>3, <3>4 DEF V!TypeOK
  <2>6. ASSUME NEW x \in Merchants, NEW i \in OrchestrationIds
        PROVE  deposits'[x][i] = IF x = m /\ i = id THEN d ELSE deposits[x][i]
    <3> HIDE DEF d
    <3> QED BY <1>0, <2>0 DEF V!TypeOK
  <2>7. PaidIn'
    <3> SUFFICES ASSUME NEW x \in Merchants, NEW i \in OrchestrationIds,
                        deposits'[x][i].status = "pending"
                 PROVE  deposits'[x][i].amount > 0
      BY DEF PaidIn
    <3> QED BY <1>0, <2>0, <2>6 DEF PaidIn
  <2>8. CheckpointsTell'
    <3> SUFFICES ASSUME NEW x \in Merchants, NEW i \in OrchestrationIds,
                        deposits'[x][i].status = "pending", <<x, i>> \notin disturbed'
                 PROVE  checkpoints'[i] \in {NoCheckpoint, usdc'[x]}
      BY DEF CheckpointsTell
    <3>1. CASE i = id
      <4>1. x = m
        BY <2>0, <3>1
      <4> QED BY <1>0, <2>0, <3>1, <4>1 DEF V!TypeOK
    <3>2. CASE i # id
      <4>1. deposits[x][i].status = "pending" /\ <<x, i>> \notin disturbed
        BY <2>0, <2>6, <3>2
      <4> QED BY <1>0, <2>0, <3>2, <4>1 DEF CheckpointsTell, V!TypeOK
    <3> QED BY <3>1, <3>2
  <2> QED BY <2>4, <2>5, <2>7, <2>8 DEF VaultInv
<1>6. ASSUME NEW m \in Merchants, NEW id \in OrchestrationIds, V!CommitDeposit(m, id)
      PROVE  VaultInv'
  <2> DEFINE old == deposits[m][id]
             d == [old EXCEPT !.status = "committed"]
  <2>0. /\ old.status = "pending"
        /\ locked' = [locked EXCEPT ![m] = locked[m] - old.amount]
        /\ deposits' = [deposits EXCEPT ![m][id] = d]
        /\ checkpoints' = [checkpoints EXCEPT ![id] = NoCheckpoint]
        /\ usdc' = [usdc EXCEPT ![m] = usdc[m] + old.amount]
        /\ disturbed' = disturbed \cup {m} \X OrchestrationIds
    BY <1>6 DEF V!CommitDeposit, V!CreditOf
  <2>1. deposits[m] \in [OrchestrationIds -> V!Deposit] /\ locked[m] \in Int /\ old \in V!Deposit
    BY <1>0 DEF V!TypeOK
  <2>2. d \in V!Deposit /\ d.status = "committed" /\ old.amount \in Int
    BY <2>0, <2>1 DEF V!Deposit, V!NoDeposit
  <2>3. AmountOf(old) = old.amount /\ AmountOf(d) = 0
    BY <2>0, <2>2 DEF AmountOf
  <2> HIDE DEF d, old
  <2>4. Covered'
    <3>1. locked[m] - old.amount >= locked[m] - AmountOf(old) + AmountOf(d)
      BY <2>1, <2>2, <2>3
    <3>2. locked[m] - old.amount \in Int
      BY <2>1, <2>2
    <3> QED BY <1>0, <2>0, <2>2, <3>1, <3>2, CoveredStep DEF old
  <2>5. V!TypeOK'
    <3>1. hasAdmin' \in BOOLEAN /\ vaultCalls' \in 0..MaxVaultCalls
      BY <1>0, <1>6 DEF V!TypeOK, V!CommitDeposit, V!Call
    <3>2. deposits' \in [Merchants -> [OrchestrationIds -> V!Deposit]]
      BY <1>0, <2>0, <2>2 DEF V!TypeOK
    <3>3. disturbed' \subseteq Merchants \X OrchestrationIds
      BY <1>0, <2>0 DEF V!TypeOK
    <3>4. /\ usdc' \in [Merchants -> Int] /\ locked' \in [Merchants -> Int]
          /\ checkpoints' \in [OrchestrationIds -> Int \cup {NoCheckpoint}]
      BY <1>0, <2>0, <2>2 DEF V!TypeOK
    <3> QED BY <3>1, <3>2, <3>3, <3>4 DEF V!TypeOK
  <2>6. ASSUME NEW x \in Merchants, NEW i \in OrchestrationIds
        PROVE  deposits'[x][i] = IF x = m /\ i = id THEN d ELSE deposits[x][i]
    BY <1>0, <2>0 DEF V!TypeOK
  <2>7. PaidIn'
    BY <1>0, <2>2, <2>6 DEF PaidIn
  <2>8. CheckpointsTell'
    <3> SUFFICES ASSUME NEW x \in Merchants, NEW i \in OrchestrationIds,
                        deposits'[x][i].status = "pending", <<x, i>> \notin disturbed'
                 PROVE  checkpoints'[i] \in {NoCheckpoint, usdc'[x]}
      BY DEF CheckpointsTell
    <3>1. CASE i = id
      BY <1>0, <2>0, <3>1 DEF V!TypeOK
    <3>2. CASE i # id
      <4>1. /\ deposits[x][i].status = "pending" /\ <<x, i>> \notin disturbed
            /\ x # m
        BY <2>0, <2>6, <3>2
      <4> QED BY <1>0, <2>0, <3>2, <4>1 DEF CheckpointsTell, V!TypeOK
    <3> QED BY <3>1, <3>2
  <2> QED BY <2>4, <2>5, <2>7, <2>8 DEF VaultInv
<1>7. ASSUME NEW m \in Merchants, NEW id \in OrchestrationIds, V!RollbackDeposit(m, id)
      PROVE  VaultInv'
  <2> DEFINE old == deposits[m][id]
             d == [old EXCEPT !.status = "rolled_back"]
             restores == checkpoints[id] # NoCheckpoint
             left == IF restores THEN locked[m] - old.amount ELSE locked[m]
             now2 == IF restores THEN checkpoints[id] ELSE usdc[m]
  <2>0. /\ old.status = "pending"
        /\ locked' = [locked EXCEPT ![m] = left]
        /\ deposits' = [deposits EXCEPT ![m][id] = d]
        /\ checkpoints' = [checkpoints EXCEPT ![id] = NoCheckpoint]
        /\ usdc' = [usdc EXCEPT ![m] = now2]
        /\ disturbed' = IF usdc'[m] # usdc[m]
                          THEN disturbed \cup {m} \X OrchestrationIds ELSE disturbed
    BY <1>7 DEF V!RollbackDeposit
  <2>1. deposits[m] \in [OrchestrationIds -> V!Deposit] /\ locked[m] \in Int /\ old \in V!Deposit
    BY <1>0 DEF V!TypeOK
  <2>2. d \in V!Deposit /\ d.status = "rolled_back" /\ old.amount \in Int
    BY <2>0, <2>1 DEF V!Deposit, V!NoDeposit
  <2>3. AmountOf(old) = old.amount /\ AmountOf(d) = 0 /\ old.amount > 0
    BY <1>0, <2>0, <2>2 DEF AmountOf, PaidIn
  <2>4. left \in Int /\ now2 \in Int
    BY <1>0, <2>1, <2>2 DEF V!TypeOK
  <2>5. left >= locked[m] - AmountOf(old) + AmountOf(d)
    BY <2>1, <2>2, <2>3
  <2> HIDE DEF d, old, left, now2
  <2>6. Covered'
    BY <1>0, <2>0, <2>2, <2>4, <2>5, CoveredStep DEF old
  <2>7. V!TypeOK'
    <3>1. hasAdmin' \in BOOLEAN /\ vaultCalls' \in 0..MaxVaultCalls
      BY <1>0, <1>7 DEF V!TypeOK, V!RollbackDeposit, V!Call
    <3>2. deposits' \in [Merchants -> [OrchestrationIds -> V!Deposit]]
      BY <1>0, <2>0, <2>2 DEF V!TypeOK
    <3>3. disturbed' \subseteq Merchants \X OrchestrationIds
      BY <1>0, <2>0 DEF V!TypeOK
    <3>4. /\ usdc' \in [Merchants -> Int] /\ locked' \in [Merchants -> Int]
          /\ checkpoints' \in [OrchestrationIds -> Int \cup {NoCheckpoint}]
      BY <1>0, <2>0, <2>4 DEF V!TypeOK
    <3> QED BY <3>1, <3>2, <3>3, <3>4 DEF V!TypeOK
  <2>8. ASSUME NEW x \in Merchants, NEW i \in OrchestrationIds
        PROVE  deposits'[x][i] = IF x = m /\ i = id THEN d ELSE deposits[x][i]
    BY <1>0, <2>0 DEF V!TypeOK
  <2>9. PaidIn'
    BY <1>0, <2>2, <2>8 DEF PaidIn
  <2>10. CheckpointsTell'
    <3> SUFFICES ASSUME NEW x \in Merchants, NEW i \in OrchestrationIds,
                        deposits'[x][i].status = "pending", <<x, i>> \notin disturbed'
                 PROVE  checkpoints'[i] \in {NoCheckpoint, usdc'[x]}
      BY DEF CheckpointsTell
    <3>1. CASE i = id
      BY <1>0, <2>0, <3>1 DEF V!TypeOK
    <3>2. CASE i # id
      <4>1. /\ deposits[x][i].status = "pending" /\ <<x, i>> \notin disturbed
            /\ usdc'[x] = usdc[x]
        BY <1>0, <2>0, <2>8, <3>2 DEF V!TypeOK
      <4> QED BY <1>0, <2>0, <3>2, <4>1 DEF CheckpointsTell, V!TypeOK
    <3> QED BY <3>1, <3>2
  <2> QED BY <2>6, <2>7, <2>9, <2>10 DEF VaultInv
<1> QED
  <2>1. [V!Next]_ofMerchantVault => \/ V!Initialize \/ UNCHANGED ofMerchantVault
          \/ \E m \in Merchants :
               \/ \E amount \in DepositAmounts : V!DepositNow(m, amount)
               \/ \E id \in OrchestrationIds :
                    \/ \E amount \in DepositAmounts : V!DepositAtomic(m, amount, id)
                    \/ V!CommitDeposit(m, id)
                    \/ V!RollbackDeposit(m, id)
    BY DEF V!Next
  <2> HIDE DEF VaultInv
  <2> QED BY <2>1, <1>2, <1>3, <1>4, <1>5, <1>6, <1>7

(* A rollback of a deposit that nothing disturbed leaves the balance.       *)
LEMMA QuietRollback ==
  ASSUME VaultInv, [V!Next]_ofMerchantVault, NEW m \in Merchants, NEW id \in OrchestrationIds,
         deposits[m][id].status = "pending", deposits'[m][id].status = "rolled_back",
         <<m, id>> \notin disturbed
  PROVE  usdc'[m] = usdc[m]
<1>0. V!TypeOK /\ checkpoints[id] \in {NoCheckpoint, usdc[m]}
  BY DEF VaultInv, CheckpointsTell
<1>1. CASE V!Initialize \/ UNCHANGED ofMerchantVault
  BY <1>1 DEF V!Initialize, ofMerchantVault
<1>2. ASSUME NEW x \in Merchants, NEW amount \in DepositAmounts, V!DepositNow(x, amount)
      PROVE  FALSE
  BY <1>2 DEF V!DepositNow
<1>3. ASSUME NEW x \in Merchants, NEW i \in OrchestrationIds, NEW amount \in DepositAmounts,
             V!DepositAtomic(x, amount, i)
      PROVE  usdc' = usdc
  BY <1>3 DEF V!DepositAtomic
<1>4. ASSUME NEW x \in Merchants, NEW i \in OrchestrationIds, V!CommitDeposit(x, i)
      PROVE  FALSE
  <2>1. deposits'[m][id] = IF x = m /\ i = id
                             THEN [deposits[m][id] EXCEPT !.status = "committed"]
                             ELSE deposits[m][id]
    BY <1>0, <1>4 DEF V!CommitDeposit, V!TypeOK
  <2>2. deposits[m][id] \in V!Deposit
    BY <1>0 DEF V!TypeOK
  <2> QED BY <2>1, <2>2 DEF V!Deposit, V!NoDeposit
<1>5. ASSUME NEW x \in Merchants, NEW i \in OrchestrationIds, V!RollbackDeposit(x, i)
      PROVE  usdc'[m] = usdc[m]
  <2>1. /\ deposits' = [deposits EXCEPT ![x][i].status = "rolled_back"]
        /\ usdc' = [usdc EXCEPT ![x] = IF checkpoints[i] # NoCheckpoint THEN checkpoints[i] ELSE usdc[x]]
    BY <1>5 DEF V!RollbackDeposit
  <2>2. x = m /\ i = id
    BY <1>0, <2>1 DEF V!TypeOK
  <2> QED BY <1>0, <2>1, <2>2 DEF V!TypeOK
<1> QED BY <1>1, <1>2, <1>3, <1>4, <1>5 DEF V!Next

-----------------------------------------------------------------------------
(***************************************************************************)
(* The orchestration.  SagaInv: the loop of an invocation holds a copy as  *)
(* long as the record, of which the steps before the one it is at have     *)
(* run; a status of a running orchestration is stored only while it runs.  *)
(***************************************************************************)
Statuses ==
  {"Created", "Executing", "StepCompleted", "Completed", "TimedOut",
   "RollingBack", "RollbackCompleted", "Cancelled"}
SagaOf(n) ==
  [status : Statuses, steps : [1..n -> {"Pending", "Completed", "RollbackCompleted"}],
   done : 0..n, timeout : Timeouts, createdAt : SagaTimes]

(* A record has a number of steps. *)
LEMMA SagaHasSteps ==
  ASSUME NEW s
  PROVE  s \in O!Saga <=> \E n \in 1..MaxSteps : s \in SagaOf(n)
BY Zenon DEF O!Saga, SagaOf, Statuses

(* What a record says of the steps that ran, and of the loop. *)
SagaTells(id, s, steps, run) ==
  IF s = NoSaga THEN steps = {}
  ELSE /\ steps \subseteq O!Steps(s)
       /\ s.status \in {"Executing", "StepCompleted", "RollingBack"} =>
            run # O!Idle /\ run.id = id
       /\ s.status = "Completed" => steps = O!Steps(s) /\ s.done > 0
       /\ s.status \in {"Created", "TimedOut", "Cancelled"} => s.done = 0
       /\ s.status = "StepCompleted" => 1..s.done \subseteq steps

(* What the loop knows of the record it runs. *)
LoopTells(run, s, steps) ==
  /\ s # NoSaga
  /\ O!Steps(run.copy) = O!Steps(s)
  /\ run.loop = "execute" =>
       /\ run.copy.done = run.step - 1 /\ run.step - 1 \in {0} \cup O!Steps(s)
       /\ 1 .. run.step - 1 \subseteq steps
  /\ run.loop = "after step" => run.step \in O!Steps(s) /\ 1..run.step \subseteq steps
  /\ run.loop = "rollback" => s.status = "RollingBack"
  /\ run.loop \in {"execute", "after step"} => s.status \in {"Executing", "StepCompleted"}

SagaInv ==
  /\ O!TypeOK
  /\ \A id \in SagaIds : SagaTells(id, sagas[id], ran[id], running)
  /\ running # O!Idle => LoopTells(running, sagas[running.id], ran[running.id])

(* No orchestration and no loop. *)
LEMMA SagaInit == O!Init => SagaInv
<1> SUFFICES ASSUME O!Init PROVE SagaInv
  OBVIOUS
<1>1. O!TypeOK
  BY DEF O!Init, O!TypeOK
<1>2. \A id \in SagaIds : SagaTells(id, sagas[id], ran[id], running)
  BY DEF O!Init, SagaTells
<1>3. running = O!Idle
  BY DEF O!Init
<1> QED BY <1>1, <1>2, <1>3 DEF SagaInv

(* A step of one orchestration that keeps what it says, and what the loop  *)
(* knows of it if it is the one that runs.                                 *)
LEMMA SagaStep ==
  ASSUME SagaInv, O!TypeOK', NEW id \in SagaIds, NEW s, NEW r,
         sagas' = [sagas EXCEPT ![id] = s], ran' = [ran EXCEPT ![id] = r],
         running = O!Idle \/ running.id = id,
         running' = O!Idle \/ running'.id = id,
         SagaTells(id, s, r, running'),
         running' # O!Idle => LoopTells(running', s, r)
  PROVE  SagaInv'
<1>1. sagas'[id] = s /\ ran'[id] = r
  BY DEF SagaInv, O!TypeOK
<1>2. ASSUME NEW x \in SagaIds PROVE SagaTells(x, sagas'[x], ran'[x], running')
  <2>1. CASE x = id
    BY <1>1, <2>1
  <2>2. CASE x # id
    <3>1. sagas'[x] = sagas[x] /\ ran'[x] = ran[x]
      BY <2>2 DEF SagaInv, O!TypeOK
    <3>2. SagaTells(x, sagas[x], ran[x], running)
      BY DEF SagaInv
    <3>3. ~ (running # O!Idle /\ running.id = x)
      BY <2>2
    <3> QED BY <3>1, <3>2, <3>3 DEF SagaTells
  <2> QED BY <2>1, <2>2
<1>3. running' # O!Idle => LoopTells(running', sagas'[running'.id], ran'[running'.id])
  BY <1>1
<1> QED BY <1>2, <1>3 DEF SagaInv

(* The record of an orchestration, and the changes of its status and steps. *)
LEMMA SagaChanges ==
  ASSUME NEW s \in O!Saga
  PROVE  /\ \E n \in 1..MaxSteps : s \in SagaOf(n) /\ O!Steps(s) = 1..n
         /\ \A status \in Statuses :
              /\ [s EXCEPT !.status = status] \in O!Saga
              /\ O!Steps([s EXCEPT !.status = status]) = O!Steps(s)
         /\ \A i : /\ [s EXCEPT !.steps[i] = "Completed"] \in O!Saga
                   /\ [s EXCEPT !.steps[i] = "RollbackCompleted"] \in O!Saga
                   /\ O!Steps([s EXCEPT !.steps[i] = "Completed"]) = O!Steps(s)
                   /\ O!Steps([s EXCEPT !.steps[i] = "RollbackCompleted"]) = O!Steps(s)
<1>1. PICK n \in 1..MaxSteps : s \in SagaOf(n)
  BY SagaHasSteps
<1>2. O!Steps(s) = 1..n
  BY <1>1 DEF O!Steps, SagaOf
<1>3. ASSUME NEW status \in Statuses
      PROVE  /\ [s EXCEPT !.status = status] \in SagaOf(n)
             /\ O!Steps([s EXCEPT !.status = status]) = O!Steps(s)
  BY <1>1 DEF SagaOf, O!Steps
<1>4. ASSUME NEW i
      PROVE  /\ [s EXCEPT !.steps[i] = "Completed"] \in SagaOf(n)
             /\ [s EXCEPT !.steps[i] = "RollbackCompleted"] \in SagaOf(n)
             /\ O!Steps([s EXCEPT !.steps[i] = "Completed"]) = O!Steps(s)
             /\ O!Steps([s EXCEPT !.steps[i] = "RollbackCompleted"]) = O!Steps(s)
  BY <1>1 DEF SagaOf, O!Steps
<1> QED BY <1>1, <1>2, <1>3, <1>4, SagaHasSteps

(* The types of a step, from those of what it changes. *)
LEMMA SagaTypes ==
  ASSUME O!TypeOK, NEW id \in SagaIds, NEW s \in O!Saga, NEW r \in SUBSET (1..MaxSteps),
         NEW points \in SUBSET (1..MaxSteps),
         sagas' = [sagas EXCEPT ![id] = s], ran' = [ran EXCEPT ![id] = r],
         stepPoints' = [stepPoints EXCEPT ![id] = points],
         sagasPaused' = sagasPaused, ledgerTime' = ledgerTime,
         \/ running' = O!Idle
         \/ running' \in [loop : {"execute", "after step", "rollback"}, id : SagaIds,
                          copy : O!Saga, step : 0..MaxSteps + 1]
  PROVE  O!TypeOK'
<1>1. /\ sagas' \in [SagaIds -> O!Saga \cup {NoSaga}]
      /\ ran' \in [SagaIds -> SUBSET (1..MaxSteps)]
      /\ stepPoints' \in [SagaIds -> SUBSET (1..MaxSteps)]
  BY DEF O!TypeOK
<1> QED BY <1>1 DEF O!TypeOK

(* A record that is there. *)
LEMMA SagaThere ==
  ASSUME SagaInv, NEW id \in SagaIds, sagas[id] # NoSaga
  PROVE  /\ sagas[id] \in O!Saga
         /\ SagaTells(id, sagas[id], ran[id], running)
         /\ ran[id] \in SUBSET (1..MaxSteps) /\ stepPoints[id] \in SUBSET (1..MaxSteps)
         /\ sagas = [sagas EXCEPT ![id] = sagas[id]]
         /\ ran = [ran EXCEPT ![id] = ran[id]]
         /\ stepPoints = [stepPoints EXCEPT ![id] = stepPoints[id]]
BY DEF SagaInv, O!TypeOK

(* The loop, while it runs. *)
LEMMA LoopThere ==
  ASSUME SagaInv, running.loop \in {"execute", "after step", "rollback"}
  PROVE  /\ running # O!Idle
         /\ running \in [loop : {"execute", "after step", "rollback"}, id : SagaIds,
                         copy : O!Saga, step : 0..MaxSteps + 1]
         /\ sagas[running.id] # NoSaga
         /\ LoopTells(running, sagas[running.id], ran[running.id])
<1>1. O!Idle.loop = "none"
  BY DEF O!Idle
<1>2. running # O!Idle
  BY <1>1
<1> QED BY <1>2 DEF SagaInv, O!TypeOK, LoopTells

(* create_orchestration. *)
LEMMA CreateStep ==
  ASSUME SagaInv, NEW id \in SagaIds, NEW n \in 1..MaxSteps, NEW t \in Timeouts,
         O!CreateOrchestration(id, n, t)
  PROVE  SagaInv'
<1> DEFINE s == [status |-> "Created", steps |-> [i \in 1..n |-> "Pending"], done |-> 0,
                 timeout |-> t, createdAt |-> ledgerTime]
<1>1. /\ running = O!Idle /\ running' = running /\ sagas[id] = NoSaga
      /\ sagas' = [sagas EXCEPT ![id] = s]
      /\ ran' = ran /\ stepPoints' = stepPoints
      /\ sagasPaused' = sagasPaused /\ ledgerTime' = ledgerTime
  BY DEF O!CreateOrchestration
<1>2. s \in SagaOf(n) /\ O!Steps(s) = 1..n
  <2>1. ledgerTime \in SagaTimes
    BY DEF SagaInv, O!TypeOK
  <2>2. s.steps = [i \in 1..n |-> "Pending"] /\ n \in Nat /\ n > 0
    BY SagaAssumption
  <2>3. O!Steps(s) = 1..n
    BY <2>2 DEF O!Steps
  <2>4. 0 \in 0..n /\ "Created" \in Statuses
    BY <2>2 DEF Statuses
  <2>5. [i \in 1..n |-> "Pending"] \in [1..n -> {"Pending", "Completed", "RollbackCompleted"}]
    OBVIOUS
  <2>6. s \in SagaOf(n)
    BY <2>1, <2>4, <2>5 DEF SagaOf
  <2> QED BY <2>3, <2>6
<1>3. s \in O!Saga
  BY <1>2, SagaHasSteps
<1>4. ran[id] = {} /\ ran[id] \in SUBSET (1..MaxSteps) /\ stepPoints[id] \in SUBSET (1..MaxSteps)
  BY <1>1 DEF SagaInv, SagaTells, O!TypeOK
<1>5. /\ ran' = [ran EXCEPT ![id] = ran[id]]
      /\ stepPoints' = [stepPoints EXCEPT ![id] = stepPoints[id]]
  BY <1>1 DEF SagaInv, O!TypeOK
<1>6. s.status = "Created" /\ s.done = 0
  OBVIOUS
<1> HIDE DEF s
<1>7. O!TypeOK'
  BY <1>1, <1>3, <1>4, <1>5, SagaTypes DEF SagaInv
<1>8. SagaTells(id, s, ran[id], running')
  BY <1>2, <1>4, <1>6 DEF SagaTells
<1> QED BY <1>1, <1>5, <1>7, <1>8, SagaStep

(* The record of an orchestration changes while no loop runs. *)
LEMMA IdleStep ==
  ASSUME SagaInv, NEW id \in SagaIds, sagas[id] # NoSaga, NEW s \in O!Saga,
         running = O!Idle, sagas' = [sagas EXCEPT ![id] = s],
         UNCHANGED <<stepPoints, sagasPaused, running, ran, ledgerTime>>,
         SagaTells(id, s, ran[id], running')
  PROVE  SagaInv'
<1>1. /\ ran' = [ran EXCEPT ![id] = ran[id]]
      /\ stepPoints' = [stepPoints EXCEPT ![id] = stepPoints[id]]
      /\ ran[id] \in SUBSET (1..MaxSteps) /\ stepPoints[id] \in SUBSET (1..MaxSteps)
  BY SagaThere
<1>2. O!TypeOK /\ running' = O!Idle /\ sagasPaused' = sagasPaused /\ ledgerTime' = ledgerTime
  BY DEF SagaInv
<1>3. O!TypeOK'
  <2>1. sagas' \in [SagaIds -> O!Saga \cup {NoSaga}]
    BY <1>2 DEF O!TypeOK
  <2> QED BY <1>2, <2>1 DEF O!TypeOK
<1>4. running' # O!Idle => LoopTells(running', s, ran[id])
  BY <1>2
<1> QED BY <1>1, <1>2, <1>3, <1>4, SagaStep

(* The status of a record that is not in the loop changes, to one that     *)
(* says nothing of the steps that its count of them does not.              *)
LEMMA StatusStep ==
  ASSUME SagaInv, NEW id \in SagaIds, sagas[id] # NoSaga, NEW status \in {"TimedOut", "Cancelled"},
         sagas[id].status \in {"Created", "TimedOut", "Cancelled"},
         running = O!Idle, sagas' = [sagas EXCEPT ![id].status = status],
         UNCHANGED <<stepPoints, sagasPaused, running, ran, ledgerTime>>
  PROVE  SagaInv'
<1> DEFINE s == [sagas[id] EXCEPT !.status = status]
<1>1. s \in O!Saga /\ O!Steps(s) = O!Steps(sagas[id])
  BY SagaThere, SagaChanges DEF Statuses
<1>2. s.status = status /\ s.done = sagas[id].done
  <2>1. PICK n \in 1..MaxSteps : sagas[id] \in SagaOf(n)
    BY SagaThere, SagaChanges
  <2> QED BY <2>1 DEF SagaOf
<1>3. sagas' = [sagas EXCEPT ![id] = s]
  OBVIOUS
<1> HIDE DEF s
<1>4. SagaTells(id, s, ran[id], running')
  BY <1>1, <1>2, SagaThere, SagaAssumption DEF SagaTells
<1> QED BY <1>1, <1>3, <1>4, IdleStep

(* What is stored when no loop runs. *)
LEMMA IdleStatus ==
  ASSUME SagaInv, NEW id \in SagaIds, sagas[id] # NoSaga, running = O!Idle
  PROVE  sagas[id].status \in {"Created", "TimedOut", "Cancelled", "Completed", "RollbackCompleted"}
<1>1. PICK n \in 1..MaxSteps : sagas[id] \in SagaOf(n)
  BY SagaThere, SagaChanges
<1> QED BY <1>1, SagaThere DEF SagaOf, Statuses, SagaTells

(* The numbers of steps. *)
LEMMA StepNumbers ==
  ASSUME NEW n \in 1..MaxSteps, NEW i \in 1..n
  PROVE  i \in 1..MaxSteps /\ i \in Int /\ i > 0 /\ n \in Nat /\ 1..i \subseteq (1 .. i - 1) \cup {i}
BY SagaAssumption

(* execute_step runs step i of a record that is there. *)
LEMMA RunStepStep ==
  ASSUME SagaInv, NEW id \in SagaIds, sagas[id] # NoSaga, NEW i \in O!Steps(sagas[id]),
         O!RunStep(id, i), sagasPaused' = sagasPaused, ledgerTime' = ledgerTime,
         \/ running = O!Idle /\ running' = running
         \/ /\ running # O!Idle /\ running.id = id
            /\ running.loop = "execute" /\ i = running.step
            /\ running' = [running EXCEPT !.loop = "after step"]
  PROVE  SagaInv'
<1> DEFINE s == [sagas[id] EXCEPT !.steps[i] = "Completed"]
           r == ran[id] \cup {i}
<1>1. /\ sagas' = [sagas EXCEPT ![id] = s]
      /\ ran' = [ran EXCEPT ![id] = r]
      /\ stepPoints' = [stepPoints EXCEPT ![id] = stepPoints[id] \cup {i}]
  BY DEF O!RunStep
<1>2. s \in O!Saga /\ O!Steps(s) = O!Steps(sagas[id])
  BY SagaThere, SagaChanges
<1>3. PICK n \in 1..MaxSteps : sagas[id] \in SagaOf(n) /\ O!Steps(sagas[id]) = 1..n
  BY SagaThere, SagaChanges
<1>4. s.status = sagas[id].status /\ s.done = sagas[id].done
  BY <1>3 DEF SagaOf
<1> HIDE DEF s
<1>5. r \in SUBSET (1..MaxSteps) /\ stepPoints[id] \cup {i} \in SUBSET (1..MaxSteps)
  <2>1. MaxSteps \in Nat
    BY SagaAssumption
  <2>2. i \in 1..MaxSteps
    BY <1>3, StepNumbers, Zenon
  <2>3. ran[id] \in SUBSET (1..MaxSteps) /\ stepPoints[id] \in SUBSET (1..MaxSteps)
    BY SagaThere
  <2> QED BY <2>2, <2>3
<1>6. \/ running' = O!Idle
      \/ running' \in [loop : {"execute", "after step", "rollback"}, id : SagaIds,
                       copy : O!Saga, step : 0..MaxSteps + 1]
  BY LoopThere
<1>7. O!TypeOK'
  BY <1>1, <1>2, <1>5, <1>6, SagaTypes DEF SagaInv
<1>8. running' = O!Idle \/ running'.id = id
  BY LoopThere
<1>9. SagaTells(id, s, r, running')
  <2>1. s # NoSaga /\ r \subseteq O!Steps(s)
    BY <1>2, SagaThere, SagaAssumption DEF SagaTells
  <2>2. running # O!Idle => running' # O!Idle
    BY LoopThere DEF O!Idle
  <2>3. SagaTells(id, sagas[id], ran[id], running)
    BY SagaThere
  <2>4. s.status = "Completed" => r = O!Steps(s) /\ s.done > 0
    BY <1>2, <1>4, <2>1, <2>3 DEF SagaTells
  <2>5. s.status = "StepCompleted" => 1..s.done \subseteq r
    BY <1>2, <1>4, <2>1, <2>3 DEF SagaTells
  <2>6. s.status \in {"Executing", "StepCompleted", "RollingBack"} =>
          running' # O!Idle /\ running'.id = id
    BY <1>4, <1>8, <2>2, <2>3 DEF SagaTells
  <2>7. s.status \in {"Created", "TimedOut", "Cancelled"} => s.done = 0
    BY <1>4, <2>3 DEF SagaTells
  <2> HIDE DEF r
  <2> QED BY <2>1, <2>4, <2>5, <2>6, <2>7 DEF SagaTells
<1>10. running' # O!Idle => LoopTells(running', s, r)
  <2> SUFFICES ASSUME running' # O!Idle PROVE LoopTells(running', s, r)
    OBVIOUS
  <2>1. /\ running # O!Idle /\ running.id = id
        /\ running.loop = "execute" /\ i = running.step
        /\ running' = [running EXCEPT !.loop = "after step"]
    OBVIOUS
  <2>2. /\ LoopTells(running, sagas[id], ran[id])
        /\ running \in [loop : {"execute", "after step", "rollback"}, id : SagaIds,
                        copy : O!Saga, step : 0..MaxSteps + 1]
    BY <2>1, LoopThere
  <2>3. /\ running'.loop = "after step" /\ running'.copy = running.copy
        /\ running'.step = i
    BY <2>1, <2>2
  <2>6. i \in Int /\ 1..i \subseteq (1 .. i - 1) \cup {i}
    BY <1>3, StepNumbers, Zenon
  <2>4. 1..i \subseteq r
    <3>1. 1 .. i - 1 \subseteq ran[id] /\ i \in Int
      <4>1. i \in Int
        BY <2>6
      <4> QED BY <2>1, <2>2, <4>1 DEF LoopTells
    <3> QED BY <2>6, <3>1
  <2>5. s # NoSaga
    BY <1>2, SagaAssumption
  <2> QED BY <1>2, <1>4, <2>1, <2>2, <2>3, <2>4, <2>5 DEF LoopTells
<1> HIDE DEF r
<1> QED BY <1>1, <1>7, <1>8, <1>9, <1>10, SagaStep

(* The loop stores its copy and goes on with step i. *)
LEMMA WriteBackStep ==
  ASSUME SagaInv, NEW id \in SagaIds, sagas[id] # NoSaga, NEW s \in O!Saga,
         O!Steps(s) = O!Steps(sagas[id]), NEW i \in 0..MaxSteps + 1,
         NEW loop \in {"execute", "rollback"},
         running = O!Idle \/ running.id = id, O!WriteBack(loop, id, s, i),
         UNCHANGED <<stepPoints, sagasPaused, ran, ledgerTime>>,
         loop = "rollback" => s.status = "RollingBack",
         loop = "execute" =>
           /\ s.status \in {"Executing", "StepCompleted"}
           /\ s.done = i - 1 /\ i - 1 \in {0} \cup O!Steps(s)
           /\ 1 .. i - 1 \subseteq ran[id]
  PROVE  SagaInv'
<1> DEFINE loops == [loop |-> loop, id |-> id, copy |-> s, step |-> i]
<1>1. sagas' = [sagas EXCEPT ![id] = s] /\ running' = loops
  BY DEF O!WriteBack
<1>2. /\ ran' = [ran EXCEPT ![id] = ran[id]]
      /\ stepPoints' = [stepPoints EXCEPT ![id] = stepPoints[id]]
      /\ ran[id] \in SUBSET (1..MaxSteps) /\ stepPoints[id] \in SUBSET (1..MaxSteps)
  BY SagaThere
<1>3. /\ loops.loop = loop /\ loops.id = id /\ loops.copy = s /\ loops.step = i
      /\ loops \in [loop : {"execute", "after step", "rollback"}, id : SagaIds,
                    copy : O!Saga, step : 0..MaxSteps + 1]
  OBVIOUS
<1>4. loops # O!Idle
  <2>1. O!Idle.loop = "none"
    BY DEF O!Idle
  <2> QED BY <1>3, <2>1
<1> HIDE DEF loops
<1>5. O!TypeOK'
  BY <1>1, <1>2, <1>3, SagaTypes DEF SagaInv
<1>6. s # NoSaga
  BY SagaAssumption
<1>7. SagaTells(id, s, ran[id], loops)
  <2>1. SagaTells(id, sagas[id], ran[id], running)
    BY SagaThere
  <2>2. ran[id] \subseteq O!Steps(s)
    BY <2>1 DEF SagaTells
  <2>3. s.status \in {"Executing", "StepCompleted", "RollingBack"}
    OBVIOUS
  <2>4. s.status = "StepCompleted" => 1..s.done \subseteq ran[id]
    OBVIOUS
  <2> QED BY <1>3, <1>4, <1>6, <2>2, <2>3, <2>4 DEF SagaTells
<1>8. LoopTells(loops, s, ran[id])
  BY <1>3, <1>6 DEF LoopTells
<1> QED BY <1>1, <1>2, <1>3, <1>5, <1>7, <1>8, SagaStep

(* The loop ends and stores its copy with a last status. *)
LEMMA StoreStep ==
  ASSUME SagaInv, running.loop \in {"execute", "rollback"},
         NEW status \in {"Completed", "RollbackCompleted"}, O!Store(status),
         status = "Completed" =>
           ran[running.id] = O!Steps(running.copy) /\ running.copy.done > 0
  PROVE  SagaInv'
<1> DEFINE id == running.id
           s == [running.copy EXCEPT !.status = status]
<1>1. /\ sagas' = [sagas EXCEPT ![id] = s] /\ running' = O!Idle
      /\ ran' = ran /\ stepPoints' = stepPoints
      /\ sagasPaused' = sagasPaused /\ ledgerTime' = ledgerTime
  BY DEF O!Store
<1>2. /\ id \in SagaIds /\ sagas[id] # NoSaga /\ running.copy \in O!Saga
      /\ O!Steps(running.copy) = O!Steps(sagas[id])
  BY LoopThere DEF LoopTells
<1>3. s \in O!Saga /\ O!Steps(s) = O!Steps(sagas[id])
  BY <1>2, SagaChanges DEF Statuses
<1>4. s.status = status /\ s.done = running.copy.done
  <2>1. PICK n \in 1..MaxSteps : running.copy \in SagaOf(n)
    BY <1>2, SagaChanges
  <2> QED BY <2>1 DEF SagaOf
<1>5. /\ ran' = [ran EXCEPT ![id] = ran[id]]
      /\ stepPoints' = [stepPoints EXCEPT ![id] = stepPoints[id]]
      /\ ran[id] \in SUBSET (1..MaxSteps) /\ stepPoints[id] \in SUBSET (1..MaxSteps)
  BY <1>1, <1>2, SagaThere
<1>6. status = "Completed" => ran[id] = O!Steps(s) /\ s.done > 0
  BY <1>2, <1>3, <1>4
<1>7. ran[id] \subseteq O!Steps(s)
  <2>1. SagaTells(id, sagas[id], ran[id], running)
    BY <1>2, SagaThere
  <2> QED BY <1>2, <1>3, <2>1 DEF SagaTells
<1> HIDE DEF s, id
<1>8. O!TypeOK'
  BY <1>1, <1>2, <1>3, <1>5, SagaTypes DEF SagaInv
<1>9. SagaTells(id, s, ran[id], running')
  BY <1>3, <1>4, <1>6, <1>7, SagaAssumption DEF SagaTells
<1>10. running.id = id
  BY DEF id
<1> QED BY <1>1, <1>2, <1>5, <1>8, <1>9, <1>10, SagaStep

(* rollback_step marks a step of the record, if the copy has it completed. *)
LEMMA RollbackStepStep ==
  ASSUME SagaInv, O!RollbackStep
  PROVE  SagaInv'
<1> DEFINE id == running.id
           i == running.step
           undone == [sagas[id] EXCEPT !.steps[i] = "RollbackCompleted"]
           s == IF running.copy.steps[i] = "Completed" THEN undone ELSE sagas[id]
           points == IF running.copy.steps[i] = "Completed"
                       THEN stepPoints[id] \ {i} ELSE stepPoints[id]
           loops == [running EXCEPT !.step = i - 1]
<1>1. /\ running.loop = "rollback" /\ i > 0 /\ running' = loops
      /\ ran' = ran /\ sagasPaused' = sagasPaused /\ ledgerTime' = ledgerTime
  BY DEF O!RollbackStep
<1>2. /\ id \in SagaIds /\ sagas[id] # NoSaga /\ running.copy \in O!Saga
      /\ running # O!Idle /\ i \in 0..MaxSteps + 1
      /\ running \in [loop : {"execute", "after step", "rollback"}, id : SagaIds,
                      copy : O!Saga, step : 0..MaxSteps + 1]
      /\ LoopTells(running, sagas[id], ran[id])
  BY <1>1, LoopThere
<1>3. sagas' = [sagas EXCEPT ![id] = s] /\ stepPoints' = [stepPoints EXCEPT ![id] = points]
  <2>1. CASE running.copy.steps[i] = "Completed"
    BY <2>1 DEF O!RollbackStep
  <2>2. CASE running.copy.steps[i] # "Completed"
    <3>1. sagas' = sagas /\ stepPoints' = stepPoints /\ s = sagas[id] /\ points = stepPoints[id]
      BY <2>2 DEF O!RollbackStep
    <3> HIDE DEF s, points
    <3> QED BY <1>2, <3>1, SagaThere
  <2> QED BY <2>1, <2>2
<1>4. s \in O!Saga /\ O!Steps(s) = O!Steps(sagas[id])
  <2>1. undone \in O!Saga /\ O!Steps(undone) = O!Steps(sagas[id])
    BY <1>2, SagaThere, SagaChanges
  <2> QED BY <1>2, <2>1, SagaThere
<1>5. s.status = sagas[id].status /\ s.done = sagas[id].done
  <2>1. PICK n \in 1..MaxSteps : sagas[id] \in SagaOf(n)
    BY <1>2, SagaThere, SagaChanges
  <2> QED BY <2>1 DEF SagaOf
<1>6. /\ ran' = [ran EXCEPT ![id] = ran[id]]
      /\ ran[id] \in SUBSET (1..MaxSteps) /\ stepPoints[id] \in SUBSET (1..MaxSteps)
  BY <1>1, <1>2, SagaThere
<1>7. points \in SUBSET (1..MaxSteps)
  BY <1>6
<1>8. /\ loops \in [loop : {"execute", "after step", "rollback"}, id : SagaIds,
                    copy : O!Saga, step : 0..MaxSteps + 1]
      /\ loops.loop = "rollback" /\ loops.id = id /\ loops.copy = running.copy
      /\ loops.step = i - 1
  <2>1. i - 1 \in 0..MaxSteps + 1
    <3>1. ASSUME NEW j \in 0..MaxSteps + 1, j > 0 PROVE j - 1 \in 0..MaxSteps + 1
      BY <3>1, SagaAssumption
    <3> QED BY <1>1, <1>2, <3>1
  <2> HIDE DEF i
  <2> QED BY <1>1, <1>2, <2>1
<1> HIDE DEF s, points, loops
<1>9. O!TypeOK'
  BY <1>1, <1>2, <1>3, <1>4, <1>6, <1>7, <1>8, SagaTypes DEF SagaInv
<1>10. SagaTells(id, s, ran[id], loops)
  <2>1. s # NoSaga
    BY <1>4, SagaAssumption
  <2>2. SagaTells(id, sagas[id], ran[id], running)
    BY <1>2, SagaThere
  <2>3. loops # O!Idle
    <3>1. O!Idle.loop = "none"
      BY DEF O!Idle
    <3> QED BY <1>8, <3>1
  <2>4. sagas[id].status = "RollingBack"
    BY <1>1, <1>2 DEF LoopTells
  <2> QED BY <1>2, <1>4, <1>5, <1>8, <2>1, <2>2, <2>3, <2>4 DEF SagaTells
<1>11. LoopTells(loops, s, ran[id])
  <2>1. s # NoSaga
    BY <1>4, SagaAssumption
  <2>2. sagas[id].status = "RollingBack"
    BY <1>1, <1>2 DEF LoopTells
  <2> QED BY <1>2, <1>4, <1>5, <1>8, <2>1, <2>2 DEF LoopTells
<1> QED BY <1>1, <1>2, <1>3, <1>6, <1>8, <1>9, <1>10, <1>11, SagaStep

(* Every step keeps it. *)
LEMMA SagaNext == SagaInv /\ [O!Next]_ofOrchestration => SagaInv'
<1> SUFFICES ASSUME SagaInv, [O!Next]_ofOrchestration PROVE SagaInv'
  OBVIOUS
<1>1. ASSUME NEW id \in SagaIds, NEW n \in 1..MaxSteps, NEW t \in Timeouts,
             O!CreateOrchestration(id, n, t)
      PROVE  SagaInv'
  BY <1>1, CreateStep
<1>2. ASSUME NEW id \in SagaIds, O!ExecuteLate(id) PROVE SagaInv'
  BY <1>2, StatusStep DEF O!ExecuteLate
<1>3. ASSUME NEW id \in SagaIds, O!CancelOrchestration(id) PROVE SagaInv'
  <2>1. /\ running = O!Idle /\ sagas[id] # NoSaga
        /\ sagas[id].status \notin {"Completed", "RollbackCompleted"}
        /\ sagas' = [sagas EXCEPT ![id].status = "Cancelled"]
        /\ UNCHANGED <<stepPoints, sagasPaused, running, ran, ledgerTime>>
    BY <1>3 DEF O!CancelOrchestration
  <2>2. sagas[id].status \in {"Created", "TimedOut", "Cancelled"}
    BY <2>1, IdleStatus
  <2> QED BY <2>1, <2>2, StatusStep
<1>4. ASSUME NEW id \in SagaIds, O!ExecuteOrchestration(id) PROVE SagaInv'
  <2> DEFINE s == [sagas[id] EXCEPT !.status = "Executing"]
  <2>1. /\ running = O!Idle /\ sagas[id] # NoSaga /\ sagas[id].status = "Created"
        /\ O!WriteBack("execute", id, s, 1)
        /\ UNCHANGED <<stepPoints, sagasPaused, ran, ledgerTime>>
    BY <1>4 DEF O!ExecuteOrchestration
  <2>2. s \in O!Saga /\ O!Steps(s) = O!Steps(sagas[id])
    BY <2>1, SagaThere, SagaChanges DEF Statuses
  <2>3. s.status = "Executing" /\ s.done = 0
    <3>1. PICK n \in 1..MaxSteps : sagas[id] \in SagaOf(n)
      BY <2>1, SagaThere, SagaChanges
    <3>2. sagas[id].done = 0
      BY <2>1, SagaThere DEF SagaTells
    <3> QED BY <3>1, <3>2 DEF SagaOf
  <2> HIDE DEF s
  <2>4. 1 \in 0..MaxSteps + 1 /\ 1 - 1 = 0 /\ 1 .. 1 - 1 \subseteq ran[id]
    BY SagaAssumption
  <2> QED BY <2>1, <2>2, <2>3, <2>4, WriteBackStep
<1>5. ASSUME NEW id \in SagaIds, O!RollbackOrchestration(id) PROVE SagaInv'
  <2> DEFINE s == [sagas[id] EXCEPT !.status = "RollingBack"]
  <2>1. /\ running = O!Idle /\ sagas[id] # NoSaga
        /\ O!WriteBack("rollback", id, s, sagas[id].done)
        /\ UNCHANGED <<stepPoints, sagasPaused, ran, ledgerTime>>
    BY <1>5 DEF O!RollbackOrchestration
  <2>2. s \in O!Saga /\ O!Steps(s) = O!Steps(sagas[id])
    BY <2>1, SagaThere, SagaChanges DEF Statuses
  <2>3. PICK n \in 1..MaxSteps : sagas[id] \in SagaOf(n)
    BY <2>1, SagaThere, SagaChanges
  <2>4. s.status = "RollingBack" /\ sagas[id].done \in 0..n
    BY <2>3 DEF SagaOf
  <2> HIDE DEF s
  <2>5. sagas[id].done \in 0..MaxSteps + 1
    BY <2>3, <2>4, SagaAssumption
  <2> QED BY <2>1, <2>2, <2>4, <2>5, WriteBackStep
<1>6. ASSUME NEW id \in SagaIds, NEW i \in 1..MaxSteps, O!ExecuteStepAlone(id, i) PROVE SagaInv'
  BY <1>6, RunStepStep DEF O!ExecuteStepAlone
<1>7. CASE O!ExecuteStep
  <2>1. /\ running.loop = "execute" /\ running.step \in O!Steps(running.copy)
        /\ O!RunStep(running.id, running.step)
        /\ running' = [running EXCEPT !.loop = "after step"]
        /\ sagasPaused' = sagasPaused /\ ledgerTime' = ledgerTime
    BY <1>7 DEF O!ExecuteStep
  <2>2. /\ running # O!Idle /\ running.id \in SagaIds /\ sagas[running.id] # NoSaga
        /\ running.step \in O!Steps(sagas[running.id])
    BY <2>1, LoopThere DEF LoopTells
  <2> QED BY <2>1, <2>2, RunStepStep
<1>8. CASE O!AfterStep
  <2> DEFINE id == running.id
             s == [running.copy EXCEPT !.done = running.step, !.status = "StepCompleted"]
  <2>1. /\ running.loop = "after step"
        /\ O!WriteBack("execute", id, s, running.step + 1)
        /\ UNCHANGED <<stepPoints, sagasPaused, ran, ledgerTime>>
    BY <1>8 DEF O!AfterStep
  <2>2. /\ running # O!Idle /\ id \in SagaIds /\ sagas[id] # NoSaga /\ running.copy \in O!Saga
        /\ O!Steps(running.copy) = O!Steps(sagas[id])
        /\ running.step \in O!Steps(sagas[id]) /\ 1..running.step \subseteq ran[id]
    BY <2>1, LoopThere DEF LoopTells
  <2>3. PICK n \in 1..MaxSteps : running.copy \in SagaOf(n) /\ O!Steps(running.copy) = 1..n
    BY <2>2, SagaChanges
  <2>4. running.step \in 1..n /\ n \in 1..MaxSteps
    BY <2>2, <2>3, Zenon
  <2>5. running.step \in 0..n /\ running.step + 1 \in 0..MaxSteps + 1
        /\ (running.step + 1) - 1 = running.step
    BY <2>4, SagaAssumption
  <2>6. s \in SagaOf(n) /\ s.status = "StepCompleted" /\ s.done = running.step
    BY <2>3, <2>5 DEF SagaOf, Statuses
  <2>7. O!Steps(s) = O!Steps(sagas[id])
    <3>1. s.steps = running.copy.steps
      BY <2>3 DEF SagaOf
    <3> HIDE DEF s
    <3> QED BY <2>2, <3>1 DEF O!Steps
  <2>8. s \in O!Saga
    BY <2>3, <2>6, SagaHasSteps
  <2> HIDE DEF s, id
  <2> QED
    <3> DEFINE next == running.step + 1
    <3>1. /\ next \in 0..MaxSteps + 1 /\ s.done = next - 1
          /\ next - 1 \in {0} \cup O!Steps(s) /\ 1 .. next - 1 \subseteq ran[id]
      BY <2>2, <2>5, <2>6, <2>7 DEF id
    <3>2. running.id = id
      BY DEF id
    <3>3. O!WriteBack("execute", id, s, next)
      BY <2>1
    <3> HIDE DEF next
    <3> QED BY <2>1, <2>2, <2>6, <2>7, <2>8, <3>1, <3>2, <3>3, WriteBackStep
<1>9. CASE O!FinishExecution
  <2>1. /\ running.loop = "execute" /\ running.step \notin O!Steps(running.copy)
        /\ O!Store("Completed")
    BY <1>9 DEF O!FinishExecution
  <2>2. /\ running.id \in SagaIds /\ sagas[running.id] # NoSaga /\ running.copy \in O!Saga
        /\ running.step \in 0..MaxSteps + 1
        /\ O!Steps(running.copy) = O!Steps(sagas[running.id])
        /\ running.copy.done = running.step - 1
        /\ running.step - 1 \in {0} \cup O!Steps(running.copy)
        /\ 1 .. running.step - 1 \subseteq ran[running.id]
    BY <2>1, LoopThere DEF LoopTells
  <2>3. ran[running.id] \subseteq O!Steps(running.copy)
    BY <2>2, SagaThere DEF SagaTells
  <2>4. PICK n \in 1..MaxSteps : O!Steps(running.copy) = 1..n
    BY <2>2, SagaChanges
  <2>5. n \in Nat /\ n > 0 /\ running.step \in Int
    BY <2>2, <2>4, SagaAssumption
  <2>6. running.step - 1 = n
    BY <2>1, <2>2, <2>4, <2>5
  <2>7. ran[running.id] = O!Steps(running.copy) /\ running.copy.done > 0
    BY <2>2, <2>3, <2>4, <2>5, <2>6
  <2> QED BY <2>1, <2>7, StoreStep
<1>10. CASE O!RollbackStep
  BY <1>10, RollbackStepStep
<1>11. CASE O!FinishRollback
  BY <1>11, StoreStep DEF O!FinishRollback
<1>12. CASE UNCHANGED <<sagas, stepPoints, running, ran>> /\ sagasPaused' \in BOOLEAN
            /\ ledgerTime' \in SagaTimes
  <2>1. O!TypeOK'
    BY <1>12 DEF SagaInv, O!TypeOK
  <2>2. /\ sagas' = sagas /\ running' = running /\ ran' = ran
    BY <1>12
  <2> QED BY <2>1, <2>2 DEF SagaInv
<1>13. ASSUME NEW b \in BOOLEAN, O!EmergencyPause(b) PROVE SagaInv'
  <2>1. ledgerTime \in SagaTimes
    BY DEF SagaInv, O!TypeOK
  <2> QED BY <1>12, <1>13, <2>1 DEF O!EmergencyPause
<1>14. CASE O!LedgerCloses
  <2>1. sagasPaused \in BOOLEAN
    BY DEF SagaInv, O!TypeOK
  <2> QED BY <1>12, <1>14, <2>1 DEF O!LedgerCloses
<1>15. CASE UNCHANGED ofOrchestration
  <2>1. sagasPaused \in BOOLEAN /\ ledgerTime \in SagaTimes
    BY DEF SagaInv, O!TypeOK
  <2> QED BY <1>12, <1>15, <2>1 DEF ofOrchestration
<1> HIDE DEF SagaInv
<1> QED BY <1>1, <1>2, <1>3, <1>4, <1>5, <1>6, <1>7, <1>8, <1>9, <1>10, <1>11, <1>13, <1>14,
           <1>15, Zenon DEF O!Next

(* It says what the property does. *)
LEMMA SagaTellsWhatRan == SagaInv => O!StatusTellsWhatRan
<1> SUFFICES ASSUME SagaInv, NEW id \in SagaIds
             PROVE  /\ O!Holds(id, {"Completed"}) => ran[id] = O!Steps(sagas[id]) /\ sagas[id].done > 0
                    /\ O!Holds(id, {"Created", "TimedOut", "Cancelled"}) => sagas[id].done = 0
                    /\ O!Holds(id, {"StepCompleted"}) => 1..sagas[id].done \subseteq ran[id]
  BY DEF O!StatusTellsWhatRan
<1> QED BY DEF SagaInv, SagaTells, O!Holds

-----------------------------------------------------------------------------
(***************************************************************************)
(* The contracts side by side: a step is a step of one of them, and the    *)
(* others stutter.                                                         *)
(***************************************************************************)

(* Each contract takes a step of its own or none. *)
LEMMA PartsStep ==
  [SumNext]_sumVars =>
    /\ [Next]_vars /\ [PoolNext]_poolVars
    /\ [V!Next]_ofMerchantVault /\ [O!Next]_ofOrchestration
BY DEF SumNext, sumVars

ContractsInv == IInv /\ PoolInv /\ VaultInv /\ SagaInv

(* The contracts start as each of them does. *)
LEMMA ContractsInit == SumInit => ContractsInv
BY InitIInv, PoolStarts, VaultInit, SagaInit DEF SumInit, ContractsInv

(* And a step keeps what each of them keeps. *)
LEMMA ContractsNext == ContractsInv /\ [SumNext]_sumVars => ContractsInv'
<1> SUFFICES ASSUME ContractsInv, [SumNext]_sumVars PROVE ContractsInv'
  OBVIOUS
<1>1. IInv /\ PoolInv /\ VaultInv /\ SagaInv
  BY DEF ContractsInv
<1>2. /\ [Next]_vars /\ [PoolNext]_poolVars
      /\ [V!Next]_ofMerchantVault /\ [O!Next]_ofOrchestration
  BY PartsStep
<1>3. IInv'
  BY <1>1, <1>2, NextTypeOK, NextSettlement DEF IInv
<1>4. PoolInv' /\ VaultInv' /\ SagaInv'
  BY <1>1, <1>2, PoolSteps, VaultNext, SagaNext
<1> QED BY <1>3, <1>4 DEF ContractsInv

(* So it always holds. *)
LEMMA ContractsInvHolds == SumSpec => []ContractsInv
BY ContractsInit, ContractsNext, PTL DEF SumSpec

(* Every record of the four contracts is well formed: a fee is a natural   *)
(* number, a checkpoint a balance, the count of the steps of a saga is at  *)
(* most their number.                                                      *)
THEOREM TypesHold == SumSpec => []TypesOK
<1>1. ContractsInv => TypesOK
  BY DEF ContractsInv, IInv, PoolInv, VaultInv, SagaInv, TypesOK
<1> QED BY <1>1, ContractsInvHolds, PTL

(* The balances of LP tokens add up to the supplies of the pools, though a *)
(* provider has one balance for all of them and may burn the shares of one *)
(* pool in another, or a negative number of them (lib.rs, LP_TOKENS).      *)
THEOREM SharesMatchSupplyHolds == PoolSpec => []SharesMatchSupply
<1>1. PoolInv => SharesMatchSupply
  BY DEF PoolInv
<1> QED BY <1>1, PoolStarts, PoolSteps, PTL DEF PoolSpec

(* No sequence of deposits under shared or repeated ids takes a merchant's *)
(* locked balance below what he has pending (logic.rs:80 and :158).        *)
THEOREM LockedCoversPendingHolds == SumSpec => []LockedCoversPending
<1>1. VaultInv => LockedCoversPending
  BY PendingIsSum DEF VaultInv, Covered, LockedCoversPending, V!LockedCoversPending
<1> QED BY <1>1, ContractsInvHolds, PTL DEF ContractsInv

(* A rollback moves the balance of no merchant whom nothing disturbed      *)
(* (logic.rs:159).                                                         *)
THEOREM QuietRollbackHolds == SumSpec => QuietRollbackIsNeutral
<1>1. ContractsInv /\ [SumNext]_sumVars =>
        [\A m \in Merchants, id \in OrchestrationIds :
           /\ deposits[m][id].status = "pending" /\ deposits'[m][id].status = "rolled_back"
           /\ <<m, id>> \notin disturbed
           => usdc'[m] = usdc[m]]_(V!vars)
  BY PartsStep, QuietRollback DEF ContractsInv
<1> QED
  BY <1>1, ContractsInvHolds, PTL DEF SumSpec, QuietRollbackIsNeutral, V!QuietRollbackIsNeutral

(* The status of an orchestration, told by the last write of several       *)
(* copies, says what ran, for any number of steps and orchestrations.      *)
THEOREM StatusTellsWhatRanHolds == SumSpec => []StatusTellsWhatRan
<1>1. SagaInv => StatusTellsWhatRan
  BY SagaTellsWhatRan DEF StatusTellsWhatRan
<1> QED BY <1>1, ContractsInvHolds, PTL DEF ContractsInv
=============================================================================
