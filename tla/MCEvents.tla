------------------------------ MODULE MCEvents ------------------------------
(***************************************************************************)
(* The event store and what reads it: replays, live subscribers, the       *)
(* projection of the monitored payments and the analytics totals. Each     *)
(* reader models of the store what it sees of it, so one run checks the    *)
(* parts side by side: "part" says, from the first state on, which of them *)
(* moves.                                                                  *)
(***************************************************************************)
EXTENDS EventStore, TLC

CONSTANTS
  BatchSize, MaxVersion, MaxEvents, GivenPositions, ReplayHandlers, Followers,
  Appends, MaxAppended, MonPayments, MaxDisturbances, MaxCreations, MaxReloads

VARIABLES
  part,
  replaysAll, stored, snapshot, replay, appended, lists, follower, notice, cut,
  history, memory, monRow, handler, timers, removals, load, rebuild, disturbances,
  disturbed, created, others, counted, totalRow, upserts, loaded, recount,
  reloads, missed

(* Appends are interchangeable, and so are subscribers. *)
Symmetry == Permutations(Calls) \cup Permutations(Followers)

ASSUME ReadersAssumption ==
  /\ BatchSize \in Nat \ {0} /\ MaxVersion \in Nat
  /\ GivenPositions \subseteq 1..MaxVersion
  /\ MaxAppended \in Nat
  /\ MaxDisturbances \in Nat
  /\ MaxCreations \in Nat /\ MaxReloads \in Nat

R == INSTANCE Replay
S == INSTANCE Subscribers
M == INSTANCE Monitoring
A == INSTANCE Analytics

Parts ==
   {"store", "replay", "subscribers", "monitoring", "analytics"}

ofReplay == <<replaysAll, stored, snapshot, replay>>
ofSubscribers == <<appended, lists, follower, notice, cut>>
ofMonitoring ==
  <<history, memory, monRow, handler, timers, removals, load, rebuild,
    disturbances, disturbed>>
ofAnalytics ==
  <<created, others, counted, totalRow, upserts, loaded, recount, reloads,
    missed>>
sumVars ==
  <<part, vars, ofReplay, ofSubscribers, ofMonitoring, ofAnalytics>>

SumInit ==
  /\ part \in Parts
  /\ Init /\ R!Init /\ S!Init /\ M!Init /\ A!Init
  /\ part # "replay" => ~replaysAll

(* One part moves and the others rest. *)
SumNext ==
  /\ UNCHANGED part
  /\ \/ /\ part = "store" /\ Next
        /\ UNCHANGED <<ofReplay, ofSubscribers, ofMonitoring, ofAnalytics>>
     \/ /\ part = "replay" /\ R!Next
        /\ UNCHANGED <<vars, ofSubscribers, ofMonitoring, ofAnalytics>>
     \/ /\ part = "subscribers" /\ S!Next
        /\ UNCHANGED <<vars, ofReplay, ofMonitoring, ofAnalytics>>
     \/ /\ part = "monitoring" /\ M!Next
        /\ UNCHANGED <<vars, ofReplay, ofSubscribers, ofAnalytics>>
     \/ /\ part = "analytics" /\ A!Next
        /\ UNCHANGED <<vars, ofReplay, ofSubscribers, ofMonitoring>>

SumSpec == SumInit /\ [][SumNext]_sumVars

-----------------------------------------------------------------------------
(* The rows, the calls and the readers are well formed. *)
TypesOK ==
  /\ TypeOK
  /\ R!TypeOK
  /\ S!TypeOK
  /\ M!TypeOK
  /\ A!TypeOK

(* A replay of a stream or of all streams handles events in the order of    *)
(* their numbers, none twice and none beyond its goal, and leaves out only  *)
(* what lies behind the end of a batch or the snapshot and before the       *)
(* number with a digit more; the state at a version misses no event up to   *)
(* it.  The store has for its streams the versions that are replayed here.  *)
ReplaysMissOnlyBehindBatches ==
  /\ VersionsFollow
  /\ R!HandledOnceInOrder
  /\ R!SkipsOnlyBehindBatches
  /\ R!TimeTravelMissesNothing

(* A subscriber that stays gets every event of the past it asked for, and   *)
(* every later one unless another left the list while that event went round *)
(* or its append threw after it was stored; it gets one twice only from the *)
(* past, and the events of one append in their order.                       *)
SubscribersMissNothing ==
  /\ S!StayersMissNothing
  /\ S!TwiceOnlyFromThePast
  /\ S!OneAppendInOrder

(* With nothing under way, the rows show the payments that have not ended   *)
(* and the number of creations, after everything that neither overlapped    *)
(* nor threw; what has not ended is shown whatever overlaps, too many are   *)
(* counted only by a rebuild that overlapped, and memory falls behind a row *)
(* in no process that has loaded.                                           *)
ProjectionsFollowEvents ==
  /\ M!MonitoringFollowsEvents
  /\ M!UnfinishedAreShown
  /\ A!TotalsAreCreations
  /\ A!NeverTooMany
  /\ A!MemoryIsAhead
=============================================================================
