------------------------------- MODULE Oracle -------------------------------
(***************************************************************************)
(* The price oracle of the cross-chain bridge for one pair: the cached     *)
(* price, the update that a timer makes every period, requests that come   *)
(* at any time.  The sources are placeholders, and what they quote does    *)
(* not reach the price.  The clock is in fractions of the period; an       *)
(* update reaches this pair a while after its tick, for the other pairs'   *)
(* rows are saved before.  The rows of table price_feeds are left out.     *)
(***************************************************************************)
EXTENDS FiniteSets, Integers, FiniteSetsExt

CONSTANTS
  Period,               \* of the timer, and CACHE_TTL: 30 seconds
  MaxDelay,             \* bound: from a tick to the update of this pair
  MaxOracleTime         \* bound: the clock

VARIABLES
  enabledSources,
  oracleCache,          \* entry of priceCache
  fetchedAt,            \* when the cached price was fetched
  tick,                 \* when the update in progress, or the next one, began
  updating,             \* the update has not reached this pair yet
  starved,              \* a fetch found no source enabled
  oracleClock

oracleVars == <<enabledSources, oracleCache, fetchedAt, tick, updating, starved, oracleClock>>

OracleSources == {"chainlink", "coingecko", "coinmarketcap"}
Weight(source) == IF source = "chainlink" THEN 4 ELSE 3
NoEntry == [price |-> [num |-> 0, den |-> 1], timestamp |-> 0 - Period]

Init ==
  /\ enabledSources = OracleSources
  /\ oracleCache = NoEntry
  /\ fetchedAt = 0 - Period
  /\ tick = Period /\ updating = FALSE
  /\ starved = FALSE
  /\ oracleClock = 0

-----------------------------------------------------------------------------
TotalWeight(sources) == MapThenSumSet(Weight, sources)

(* aggregatePrices divides the total weight by itself: whatever the sources *)
(* quote, the price is one.                                                 *)
AggregatePrices(sources) == [num |-> TotalWeight(sources), den |-> TotalWeight(sources)]

Fresh == oracleClock - oracleCache.timestamp < Period

(* Slip: using a price keeps it for longer. *)
Cached_Sliding ==
  /\ Fresh
  /\ oracleCache' = [oracleCache EXCEPT !.timestamp = oracleClock]
  /\ UNCHANGED <<fetchedAt, starved>>

Cached ==
  /\ Fresh
  /\ UNCHANGED <<oracleCache, fetchedAt, starved>>

(* Slip: an entry carries the time when it ends, and is compared as if it   *)
(* were the time when it was made.                                          *)
Fetched_Expiry ==
  /\ ~Fresh
  /\ oracleCache' = [price |-> AggregatePrices(enabledSources), timestamp |-> oracleClock + Period]
  /\ fetchedAt' = oracleClock
  /\ UNCHANGED starved

Fetched ==
  /\ ~Fresh
  /\ IF enabledSources = {}
     THEN starved' = TRUE /\ UNCHANGED <<oracleCache, fetchedAt>>
     ELSE /\ oracleCache' = [price |-> AggregatePrices(enabledSources), timestamp |-> oracleClock]
          /\ fetchedAt' = oracleClock
          /\ UNCHANGED starved

GetPrice == Cached \/ Fetched

Request ==
  /\ GetPrice
  /\ UNCHANGED <<enabledSources, tick, updating, oracleClock>>

(* The timer starts updatePriceFeeds, which goes through the pairs in turn. *)
StartUpdate ==
  /\ oracleClock = tick /\ ~updating
  /\ updating' = TRUE
  /\ UNCHANGED <<enabledSources, oracleCache, fetchedAt, tick, starved, oracleClock>>

UpdatePair ==
  /\ updating
  /\ GetPrice
  /\ updating' = FALSE
  /\ tick' = tick + Period
  /\ UNCHANGED <<enabledSources, oracleClock>>

SetOracleSourceEnabled(source, enabled) ==
  /\ enabledSources' = IF enabled THEN enabledSources \cup {source} ELSE enabledSources \ {source}
  /\ UNCHANGED <<oracleCache, fetchedAt, tick, updating, starved, oracleClock>>

Tick ==
  /\ oracleClock < MaxOracleTime
  /\ IF updating THEN oracleClock < tick + MaxDelay ELSE oracleClock < tick
  /\ oracleClock' = oracleClock + 1
  /\ UNCHANGED <<enabledSources, oracleCache, fetchedAt, tick, updating, starved>>

Next ==
  \/ Request \/ StartUpdate \/ UpdatePair \/ Tick
  \/ \E source \in OracleSources, enabled \in BOOLEAN : SetOracleSourceEnabled(source, enabled)

-----------------------------------------------------------------------------
(* The cache and the clock are well formed. *)
TypeOK ==
  /\ enabledSources \subseteq OracleSources
  /\ oracleCache.timestamp \in (0 - Period)..oracleClock
  /\ fetchedAt \in (0 - Period)..oracleClock
  /\ tick \in Nat /\ starved \in BOOLEAN /\ updating \in BOOLEAN

(* An update that finds the price still cached leaves it for the next one:  *)
(* with sources enabled, a price grows almost two periods old and no older. *)
RefreshedInTwoPeriods ==
  ~starved => oracleClock - fetchedAt <= 2 * Period + MaxDelay
=============================================================================
