----------------------------- MODULE MCRequests -----------------------------
(***************************************************************************)
(* The services of the backend whose requests overlap, one instance of     *)
(* each. They share no state, so one run checks them side by side: "part"  *)
(* says, from the first state on, which of them moves.                     *)
(***************************************************************************)
EXTENDS Integers, FiniteSets, TLC

CONSTANTS
  Recipients, Distributions, Milestones, SplitMaxRetries, SplitRequests,
  MaxSplitCalls, RefundIds, EvidenceIds, RefundRequests, MaxRefundCalls,
  Conversions, ConversionRequests, ConversionRetries, DailyLimit,
  MaxConversionCalls, MaxDays, PriceRequests, Prices, CacheTTL, FetchTime,
  MaxQuoteTime, RouteAmounts, BridgeFees, Swaps, Approvers, RequiredApprovals,
  BatchIds, Period, MaxDelay, MaxOracleTime, PlanIds, PlanAmounts, PlanCalls,
  InvoiceIds, DaysInPeriod, MaxPlanCalls, UsageIds, Meters, Quantities,
  UsageLimit, LastPeriod

VARIABLES
  part,
  split, distribution, milestone, splitRequest, confirmed, completed,
  splitCalls, refund, dispute, evidence, policies, trail, refundRequest,
  report, refundCalls, transactions, conversion, conversionRequest, swapped,
  deposited, failures, volume, settledToday, day, lastResetDate,
  conversionCalls, priceCache, priceRequest, answer, quoteClock, dexQuotes,
  bridgeQuotes, chosenRoute, chosenBridge, routeFailed, completedSwaps, batch,
  approvals, approvedBy, plan, enabledSources, oracleCache, fetchedAt, tick,
  updating, starved, oracleClock, plans, subscriber, invoices, planCalls,
  today, plansMade, planNotes, usage, meters, period, checksMet

(* A trade's limit is below a day's (initializeDefaultLimits); the requests *)
(* and a split's distributions are finite.                                  *)
ASSUME LimitsAssumption == DailyLimit \in Nat \ {0}
ASSUME ApprovalsAssumption == RequiredApprovals \in Nat
ASSUME RequestsAssumption == IsFiniteSet(RefundRequests)
ASSUME SplitsAssumption == IsFiniteSet(Distributions) /\ SplitMaxRetries \in Nat
ASSUME PlansAssumption ==
  IsFiniteSet(InvoiceIds) /\ IsFiniteSet(PlanCalls) /\ DaysInPeriod \in Nat

(* A limit of zero is no limit; what is quoted, recorded and waited for are *)
(* numbers, and something can be recorded.                                  *)
ASSUME UsageAssumption ==
  /\ IsFiniteSet(UsageIds) /\ LastPeriod \in Nat
  /\ Quantities \subseteq Nat /\ Quantities # {} /\ UsageLimit \in Nat \ {0}
ASSUME TimesAssumption ==
  CacheTTL \in Nat \ {0} /\ FetchTime \in Nat /\ Period \in Nat /\ MaxDelay \in Nat
ASSUME PricesAssumption == Prices \subseteq Nat /\ Prices # {}
(* Swaps are numbered as they complete. *)
ASSUME SwapsAssumption == IsFiniteSet(Swaps) /\ Swaps = 1..Cardinality(Swaps)
ASSUME RoutesAssumption == RouteAmounts \subseteq Nat /\ BridgeFees \subseteq Nat

MCPayee(s) == IF s = 2 THEN "b" ELSE "a"
MCPaid(s) == s

(* The same two names stand for the rows of each part, and two others for   *)
(* its requests; either pair is interchangeable.                            *)
Symmetry == Permutations(Recipients) \cup Permutations(SplitRequests)

S == INSTANCE PaymentSplit
R == INSTANCE Refunds
C == INSTANCE Conversion
Q == INSTANCE Quotes
B == INSTANCE Routes
T == INSTANCE Settlement WITH Payee <- MCPayee, Paid <- MCPaid
O == INSTANCE Oracle
P == INSTANCE Plans
U == INSTANCE Usage

Parts ==
   {"splits", "refunds", "conversions", "quotes", "routes", "batches",
    "oracle", "plans", "usage"}

ofPaymentSplit ==
  <<split, distribution, milestone, splitRequest, confirmed, completed,
    splitCalls>>
ofRefunds ==
  <<refund, dispute, evidence, policies, trail, refundRequest, report,
    refundCalls, transactions>>
ofConversion ==
  <<conversion, conversionRequest, swapped, deposited, failures, volume,
    settledToday, day, lastResetDate, conversionCalls>>
ofQuotes == <<priceCache, priceRequest, answer, quoteClock>>
ofRoutes ==
  <<dexQuotes, bridgeQuotes, chosenRoute, chosenBridge, routeFailed>>
ofSettlement == <<completedSwaps, batch, approvals, approvedBy, plan>>
ofOracle ==
  <<enabledSources, oracleCache, fetchedAt, tick, updating, starved,
    oracleClock>>
ofPlans ==
  <<plans, subscriber, invoices, planCalls, today, plansMade, planNotes>>
ofUsage == <<usage, meters, period, checksMet>>
sumVars ==
  <<part, ofPaymentSplit, ofRefunds, ofConversion, ofQuotes, ofRoutes,
    ofSettlement, ofOracle, ofPlans, ofUsage>>

SumInit ==
  /\ part \in Parts
  /\ S!Init /\ R!Init /\ C!Init /\ Q!Init /\ B!Init /\ T!Init /\ O!Init /\ P!Init /\ U!Init
  /\ \/ part = "plans"
     \/ /\ \A p \in PlanIds : plans[p].amount = 20
        /\ subscriber.plan = CHOOSE p \in PlanIds : TRUE

(* One part moves and the others rest. *)
SumNext ==
  /\ UNCHANGED part
  /\ \/ /\ part = "splits" /\ S!Next
        /\ UNCHANGED <<ofRefunds, ofConversion, ofQuotes, ofRoutes,
                       ofSettlement, ofOracle, ofPlans, ofUsage>>
     \/ /\ part = "refunds" /\ R!Next
        /\ UNCHANGED <<ofPaymentSplit, ofConversion, ofQuotes, ofRoutes,
                       ofSettlement, ofOracle, ofPlans, ofUsage>>
     \/ /\ part = "conversions" /\ C!Next
        /\ UNCHANGED <<ofPaymentSplit, ofRefunds, ofQuotes, ofRoutes,
                       ofSettlement, ofOracle, ofPlans, ofUsage>>
     \/ /\ part = "quotes" /\ Q!Next
        /\ UNCHANGED <<ofPaymentSplit, ofRefunds, ofConversion, ofRoutes,
                       ofSettlement, ofOracle, ofPlans, ofUsage>>
     \/ /\ part = "routes" /\ B!Next
        /\ UNCHANGED <<ofPaymentSplit, ofRefunds, ofConversion, ofQuotes,
                       ofSettlement, ofOracle, ofPlans, ofUsage>>
     \/ /\ part = "batches" /\ T!Next
        /\ UNCHANGED <<ofPaymentSplit, ofRefunds, ofConversion, ofQuotes,
                       ofRoutes, ofOracle, ofPlans, ofUsage>>
     \/ /\ part = "oracle" /\ O!Next
        /\ UNCHANGED <<ofPaymentSplit, ofRefunds, ofConversion, ofQuotes,
                       ofRoutes, ofSettlement, ofPlans, ofUsage>>
     \/ /\ part = "plans" /\ P!Next
        /\ UNCHANGED <<ofPaymentSplit, ofRefunds, ofConversion, ofQuotes,
                       ofRoutes, ofSettlement, ofOracle, ofUsage>>
     \/ /\ part = "usage" /\ U!Next
        /\ UNCHANGED <<ofPaymentSplit, ofRefunds, ofConversion, ofQuotes,
                       ofRoutes, ofSettlement, ofOracle, ofPlans>>

SumSpec == SumInit /\ [][SumNext]_sumVars

-----------------------------------------------------------------------------
(* The rows, the requests and the caches of all parts are well formed. *)
TypesOK ==
  /\ S!TypeOK
  /\ R!TypeOK
  /\ C!TypeOK
  /\ Q!TypeOK
  /\ B!TypeOK
  /\ T!TypeOK
  /\ O!TypeOK
  /\ P!TypeOK
  /\ U!TypeOK

(* Whatever saves of a split's row cross: it is COMPLETED only if every     *)
(* recipient had a confirmed distribution or every milestone was            *)
(* completed, credits nobody with more than the distributions stored for    *)
(* him, and executes only within its retries.                               *)
SplitsKeepBooks ==
  /\ S!CompletedMeansConfirmed
  /\ S!AmountsAreBacked
  /\ S!ExecutesWithinRetries

(* Whatever requests overlap or throw: the transaction a refund names is    *)
(* in the audit trail, a refund is paid and a policy made again only by a   *)
(* request that overlapped the first, a dispute counts no evidence that is  *)
(* not stored, and a reconciliation without discrepancies saw the same      *)
(* refunds on both sides.                                                   *)
RefundsKeepBooks ==
  /\ R!HashesAreAudited
  /\ R!OnlyOverlapsDuplicate
  /\ R!EvidenceIsStored
  /\ R!CleanReportsAgree

(* Whatever executions overlap, fail or are retried: nothing is paid out    *)
(* that was not swapped first, a completed row names the swap and the       *)
(* deposit of one execution, no retry is counted that no failure made, and  *)
(* the daily volume counts each execution of the day once, and only what it *)
(* paid out.                                                                *)
ConversionsKeepBooks ==
  /\ C!DepositsAreSwapped
  /\ C!CompletedRowIsOneExecution
  /\ C!RetriesAreFailures
  /\ C!VolumeCountsSettled

(* A price lies within its quotes, a quote that stands alone is removed as  *)
(* the number of quotes allows, and an answer is no older than cache and    *)
(* fetch keep it; a swap takes the better venue and a silent bridge bounds  *)
(* the fee, unless an answer lacks its number; the oracle's price grows     *)
(* almost two periods old and no older.                                     *)
PricesAreSound ==
  /\ Q!PriceWithinQuotes
  /\ Q!WildQuoteRemoved
  /\ Q!AnswersAreFresh
  /\ B!SwapAtTheBetter
  /\ B!OutageBoundsFee
  /\ O!RefreshedInTwoPeriods

(* A batch is executed with the approvals it needs, all given since it was  *)
(* last submitted, and with a plan of all its groups that pays no swap      *)
(* twice; an amount that is a number is that of a lone swap.                *)
BatchesAreApproved ==
  /\ T!ExecutedIsApproved
  /\ T!AmountsAreNeverWrong

(* A subscription is billed an amount its plan had; a change of plan is     *)
(* billed once and a voided invoice stays void unless calls overlapped;     *)
(* clients that ask one after another exceed a usage limit by one record.   *)
BillsFollowPlans ==
  /\ []P!AmountIsOfPlan
  /\ []P!ChangesAreBilledOnce
  /\ P!VoidIsFinalAlone
  /\ []U!OvershootsByOneRecord
=============================================================================
