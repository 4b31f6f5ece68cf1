------------------------------- MODULE Routes -------------------------------
(***************************************************************************)
(* Where a conversion is swapped and over which bridge it goes: the venues  *)
(* are asked one after another and the best quote is taken.  A bridge that  *)
(* does not answer has a fallback quote; a DEX that does not answer ends    *)
(* the conversion.  An answer may lack its number, which reads as NaN.      *)
(***************************************************************************)
EXTENDS Integers, Sequences, FiniteSets

CONSTANTS
  RouteAmounts,   \* amounts a DEX quotes
  BridgeFees      \* fees a bridge quotes, in hundredths of a percent of the amount

VARIABLES
  dexQuotes,      \* routes so far, in the order asked
  bridgeQuotes,   \* bridge quotes so far, in the order asked
  chosenRoute,    \* filteredRoutes[0]
  chosenBridge,   \* filteredQuotes[0]
  routeFailed     \* a DEX threw

routeVars == <<dexQuotes, bridgeQuotes, chosenRoute, chosenBridge, routeFailed>>

NaN == -1
NotYet == [venue |-> "none"]

(* Solana, the chain with two venues. *)
Dexes == <<"raydium", "jupiter">>

(* In ten-thousandths: reliability of an answer and of a fallback, and the  *)
(* fallback's fee.                                                          *)
Bridges ==
  <<[venue |-> "wormhole",  answered |-> 9500, fallback |-> 9000, fee |-> 10],
    [venue |-> "allbridge", answered |-> 8800, fallback |-> 8500, fee |-> 15],
    [venue |-> "stargaze",  answered |-> 8200, fallback |-> 8000, fee |-> 20]>>

Init ==
  /\ dexQuotes = << >>
  /\ bridgeQuotes = << >>
  /\ chosenRoute = NotYet
  /\ chosenBridge = NotYet
  /\ routeFailed = FALSE

DexAnswers(amount) ==
  /\ ~routeFailed /\ Len(dexQuotes) < Len(Dexes)
  /\ dexQuotes' = Append(dexQuotes, [venue |-> Dexes[Len(dexQuotes) + 1], number |-> amount, gas |-> 5000])
  /\ UNCHANGED <<bridgeQuotes, chosenRoute, chosenBridge, routeFailed>>

DexThrows ==
  /\ ~routeFailed /\ Len(dexQuotes) < Len(Dexes)
  /\ routeFailed' = TRUE
  /\ UNCHANGED <<dexQuotes, bridgeQuotes, chosenRoute, chosenBridge>>

(* What sorting may put first: the first of the highest score.  With a NaN  *)
(* among them the comparison is no order, and any quote may come first.     *)
Sorted(quotes, score) ==
  {quotes[i] : i \in {k \in DOMAIN quotes :
     \/ \E j \in DOMAIN quotes : quotes[j].number = NaN
     \/ \A j \in DOMAIN quotes \ {k} : IF j < k THEN score[j] < score[k]
                                               ELSE score[j] <= score[k]}}

(* Slip: the sort goes up. *)
RouteScore_Up(q) == q.gas - 1000 * q.number

(* expectedAmount - gasEstimate * 0.001, times 1000. *)
RouteScore(q) == 1000 * q.number - q.gas

GetBestRoute ==
  /\ Len(dexQuotes) = Len(Dexes) /\ chosenRoute = NotYet
  /\ chosenRoute' \in Sorted(dexQuotes, [i \in DOMAIN dexQuotes |-> RouteScore(dexQuotes[i])])
  /\ UNCHANGED <<dexQuotes, bridgeQuotes, chosenBridge, routeFailed>>

AddQuote(reliability, fee, answered) ==
  /\ chosenRoute # NotYet /\ Len(bridgeQuotes) < Len(Bridges)
  /\ bridgeQuotes' = Append(bridgeQuotes,
       [venue |-> Bridges[Len(bridgeQuotes) + 1].venue, number |-> fee,
        reliability |-> reliability, answered |-> answered])
  /\ UNCHANGED <<dexQuotes, chosenRoute, chosenBridge, routeFailed>>

NextBridge == Bridges[Len(bridgeQuotes) + 1]

BridgeAnswers(fee) == Len(bridgeQuotes) < Len(Bridges) /\ AddQuote(NextBridge.answered, fee, TRUE)

BridgeFallsBack == Len(bridgeQuotes) < Len(Bridges) /\ AddQuote(NextBridge.fallback, NextBridge.fee, FALSE)

(* Slip: a fee of one percent weighs as little as a hundredth of one. *)
BridgeScore_Fraction(q) == q.reliability - q.number

(* reliability - estimatedFee / amount * 100, times 10000. *)
BridgeScore(q) == q.reliability - 100 * q.number

GetBestBridge ==
  /\ Len(bridgeQuotes) = Len(Bridges) /\ chosenBridge = NotYet
  /\ chosenBridge' \in Sorted(bridgeQuotes, [i \in DOMAIN bridgeQuotes |-> BridgeScore(bridgeQuotes[i])])
  /\ UNCHANGED <<dexQuotes, bridgeQuotes, chosenRoute, routeFailed>>

Next ==
  \/ \E amount \in RouteAmounts \cup {NaN} : DexAnswers(amount)
  \/ DexThrows \/ GetBestRoute \/ BridgeFallsBack \/ GetBestBridge
  \/ \E fee \in BridgeFees \cup {NaN} : BridgeAnswers(fee)

-----------------------------------------------------------------------------
Broken(quotes) == \E i \in DOMAIN quotes : quotes[i].number = NaN

(* What is chosen was quoted. *)
TypeOK ==
  /\ chosenRoute = NotYet \/ \E i \in DOMAIN dexQuotes : chosenRoute = dexQuotes[i]
  /\ chosenBridge = NotYet \/ \E i \in DOMAIN bridgeQuotes : chosenBridge = bridgeQuotes[i]

(* A swap yields what the better venue offers, unless an answer lacks its   *)
(* amount: then the one that lacks it may be taken.                         *)
SwapAtTheBetter ==
  chosenRoute # NotYet /\ ~Broken(dexQuotes) =>
    \A i \in DOMAIN dexQuotes : dexQuotes[i].number <= chosenRoute.number

(* One silent bridge bounds what a conversion pays: its fallback competes,  *)
(* so that no more than 0.35 percent is paid over any bridge.               *)
OutageBoundsFee ==
  chosenBridge # NotYet /\ ~Broken(bridgeQuotes) /\ (\E i \in DOMAIN bridgeQuotes : ~bridgeQuotes[i].answered) =>
    chosenBridge.number <= 35
=============================================================================
