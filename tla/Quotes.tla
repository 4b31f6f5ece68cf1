------------------------------- MODULE Quotes -------------------------------
(***************************************************************************)
(* Price discovery of the conversion engine for one pair and amount: the   *)
(* sources that are asked, the average of what they answer once outliers   *)
(* are removed, and the cache of the answers.  The sources of a fetch      *)
(* answer or fail independently, fetches overlap, and a fetch caches its   *)
(* answers when its last source has settled.  Prices are small integers    *)
(* and confidences are in hundredths; an average is kept as a fraction.    *)
(***************************************************************************)
EXTENDS FiniteSets, Functions, Integers

CONSTANTS
  PriceRequests,
  Prices,
  CacheTTL,             \* CACHE_TTL in units of the clock
  FetchTime,            \* bound: a fetch is over after so long
  MaxQuoteTime          \* bound: the clock

VARIABLES
  priceCache,           \* the entry of priceCache for this pair and amount
  priceRequest,         \* the fetches in progress, by when they began
  answer,               \* the quotes and the price of the last answer
  quoteClock

quoteVars == <<priceCache, priceRequest, answer, quoteClock>>

(* Jupiter is asked for a pair on Solana, and the oracles are placeholders  *)
(* without answer.  What is quoted is a price for each source that answers. *)
Sources == {"1inch", "Jupiter", "0x", "Binance", "Coinbase"}
Confidence(source) ==
  CASE source = "1inch" -> 90 [] source = "Jupiter" -> 85 [] source = "0x" -> 88
    [] source = "Binance" -> 75 [] source = "Coinbase" -> 70

NoCache == [quotes |-> <<>>, expiresAt |-> 0, since |-> 0]
NoRequest == -1
NoAnswer == [quotes |-> <<>>, since |-> 0, at |-> 0]

-----------------------------------------------------------------------------
(* Prices weighted with the confidence in their sources, and the weights. *)
Worth(quotes, sources) ==
  SumFunctionOnSet([source \in sources |-> quotes[source] * Confidence(source)], sources)
Trust(sources) ==
  SumFunctionOnSet([source \in sources |-> Confidence(source)], sources)

(* The price that has this index among the sorted ones, counted from zero. *)
Sorted(quotes, index) ==
  CHOOSE p \in Range(quotes) :
    /\ Cardinality({source \in DOMAIN quotes : quotes[source] < p}) <= index
    /\ index < Cardinality({source \in DOMAIN quotes : quotes[source] <= p})

(* The price at a fraction of the sorted prices: percent of their number,   *)
(* rounded down, is its index.                                              *)
Quantile(quotes, percent) == Sorted(quotes, (Cardinality(DOMAIN quotes) * percent) \div 100)

(* The quotes within one and a half interquartile ranges of the quartiles.  *)
Inliers(quotes) ==
  LET q1 == Quantile(quotes, 25)
      q3 == Quantile(quotes, 75)
  IN {source \in DOMAIN quotes : /\ 2 * quotes[source] >= 2 * q1 - 3 * (q3 - q1)
                                 /\ 2 * quotes[source] <= 2 * q3 + 3 * (q3 - q1)}

(* Slip: the weights of the removed quotes stay in the divisor. *)
AveragePrice_AllWeights(quotes) ==
  [num |-> Worth(quotes, Inliers(quotes)), den |-> Trust(DOMAIN quotes)]

(* The average of what is left, weighted with the confidence.  The quartiles *)
(* themselves are always left, so that the median is never fallen back on.   *)
AveragePrice(quotes) ==
  [num |-> Worth(quotes, Inliers(quotes)), den |-> Trust(Inliers(quotes))]

-----------------------------------------------------------------------------
Init ==
  /\ priceCache = NoCache
  /\ priceRequest = [q \in PriceRequests |-> NoRequest]
  /\ answer = NoAnswer
  /\ quoteClock = 0

(* Slip: an entry is used until it is replaced. *)
FromCache_Expired ==
  /\ priceCache # NoCache
  /\ answer' = [quotes |-> priceCache.quotes, since |-> priceCache.since, at |-> quoteClock]
  /\ UNCHANGED <<priceCache, priceRequest, quoteClock>>

FromCache ==
  /\ priceCache.expiresAt > quoteClock
  /\ answer' = [quotes |-> priceCache.quotes, since |-> priceCache.since, at |-> quoteClock]
  /\ UNCHANGED <<priceCache, priceRequest, quoteClock>>

(* Every source is asked at once. *)
Fetch(q) ==
  /\ priceRequest[q] = NoRequest
  /\ priceCache.expiresAt <= quoteClock
  /\ priceRequest' = [priceRequest EXCEPT ![q] = quoteClock]
  /\ UNCHANGED <<priceCache, answer, quoteClock>>

(* Every source has settled: the answers are cached and the price is theirs. *)
Answered(q, prices) ==
  /\ priceRequest[q] # NoRequest
  /\ priceCache' = [quotes |-> prices, expiresAt |-> quoteClock + CacheTTL,
                    since |-> priceRequest[q]]
  /\ answer' = [quotes |-> prices, since |-> priceRequest[q], at |-> quoteClock]
  /\ priceRequest' = [priceRequest EXCEPT ![q] = NoRequest]
  /\ UNCHANGED quoteClock

(* No source answered: getBestPrice throws. *)
NoneAnswered(q) ==
  /\ priceRequest[q] # NoRequest
  /\ priceRequest' = [priceRequest EXCEPT ![q] = NoRequest]
  /\ UNCHANGED <<priceCache, answer, quoteClock>>

Tick ==
  /\ quoteClock < MaxQuoteTime
  /\ \A q \in PriceRequests : priceRequest[q] # NoRequest => quoteClock < priceRequest[q] + FetchTime
  /\ quoteClock' = quoteClock + 1
  /\ UNCHANGED <<priceCache, priceRequest, answer>>

(* The instance lets the sources quote anything in the first fetch and one  *)
(* price later, when only the age of the answers matters.                   *)
Answers ==
  IF answer = NoAnswer
  THEN UNION {[sources -> Prices] : sources \in (SUBSET Sources) \ {{}}}
  ELSE {[source \in {"Binance"} |-> CHOOSE p \in Prices : TRUE]}

Next ==
  \/ FromCache \/ Tick
  \/ \E q \in PriceRequests :
       \/ Fetch(q) \/ NoneAnswered(q)
       \/ \E prices \in Answers : Answered(q, prices)

-----------------------------------------------------------------------------
(* The cache and the requests are well formed. *)
TypeOK ==
  /\ priceCache.expiresAt \in Nat /\ priceCache.since \in Nat
  /\ priceRequest \in [PriceRequests -> Nat \cup {NoRequest}]
  /\ Range(answer.quotes) \subseteq Prices

(* The price is between the lowest and the highest quote, whatever is       *)
(* removed as an outlier.                                                   *)
PriceWithinQuotes ==
  answer # NoAnswer =>
    LET average == AveragePrice(answer.quotes)
    IN /\ average.den > 0
       /\ \E p \in Range(answer.quotes) : p * average.den <= average.num
       /\ \E p \in Range(answer.quotes) : average.num <= p * average.den

(* Sources that agree but for one: the one is removed when it is too low    *)
(* among four and more, and when it is too high among five only, for the    *)
(* third quartile of four quotes is the highest of them.  Fewer than four   *)
(* quotes are averaged whatever they say.                                   *)
WildQuoteRemoved ==
  LET quotes == answer.quotes
      number == Cardinality(DOMAIN quotes)
      Wild(s) == \A i, j \in DOMAIN quotes \ {s} :
                   quotes[i] = quotes[j] /\ quotes[s] # quotes[i]
      TooLow(s) == \A i \in DOMAIN quotes \ {s} : quotes[s] < quotes[i]
  IN \A s \in DOMAIN quotes : number >= 3 /\ Wild(s) =>
       (s \notin Inliers(quotes) <=> number >= IF TooLow(s) THEN 4 ELSE 5)

(* An answer is never older than the cache keeps it and a fetch takes, even *)
(* when a slow fetch overwrites the answers of a faster one.                *)
AnswersAreFresh == answer.at - answer.since < CacheTTL + FetchTime
=============================================================================
