----------------------------- MODULE Conversion -----------------------------
(***************************************************************************)
(* The conversion engine for one merchant: a conversion is priced and      *)
(* stored, then executed as a swap, a bridging where the target chain asks *)
(* for one, and a deposit to the merchant's vault on Stellar.  Requests    *)
(* overlap at every await and save the row they read whole.  An execution  *)
(* is known by its number, which also names the swap and the deposit it    *)
(* makes.  Every conversion has the same amount, a decimal column, that is *)
(* a text.  Prices are in module Quotes, venues in Routes.                 *)
(***************************************************************************)
EXTENDS FiniteSets, Integers

CONSTANTS
  Conversions, ConversionRequests,
  ConversionRetries,    \* maxRetries of a row
  DailyLimit,           \* dailyVolumeLimit, in conversions
  MaxConversionCalls,   \* bound: requests
  MaxDays               \* bound: days

VARIABLES
  conversion,           \* rows of table conversions
  conversionRequest,    \* the requests
  swapped, deposited,   \* swaps and deposits: conversion and execution
  failures,             \* executions of a conversion that threw
  volume,               \* dailyVolumes of the merchant: amounts in its text
  settledToday,         \* executions handed to executeTrade on lastResetDate
  day, lastResetDate,
  conversionCalls

conversionVars == <<conversion, conversionRequest, swapped, deposited, failures, volume,
                    settledToday, day, lastResetDate, conversionCalls>>

Open == {"PENDING", "PRICE_DISCOVERY", "EXECUTING", "BRIDGING", "SETTLING"}
ConversionStatus == Open \cup {"COMPLETED", "FAILED", "CANCELLED"}
None == 0
Row == [status : ConversionStatus, bridged : BOOLEAN, swap : Nat, settlement : Nat,
        retryCount : Nat]
NoConversion == [status |-> "none"]
Idle == [pc |-> "idle"]

Init ==
  /\ conversion = [c \in Conversions |-> NoConversion]
  /\ conversionRequest = [q \in ConversionRequests |-> Idle]
  /\ swapped = {} /\ deposited = {}
  /\ failures = [c \in Conversions |-> 0]
  /\ volume = 0 /\ settledToday = {}
  /\ day = 1 /\ lastResetDate = 1
  /\ conversionCalls = 0

-----------------------------------------------------------------------------
Begin(q, request) ==
  /\ conversionRequest[q] = Idle
  /\ conversionCalls < MaxConversionCalls
  /\ conversionCalls' = conversionCalls + 1
  /\ conversionRequest' = [conversionRequest EXCEPT ![q] = request]

At(q, pc) == conversionRequest[q].pc = pc
Done(q) == conversionRequest' = [conversionRequest EXCEPT ![q] = Idle]
Goto(q, pc) == conversionRequest' = [conversionRequest EXCEPT ![q].pc = pc]

(* The request's copy gets a status and is saved whole. *)
SaveAs(q, row, pc) ==
  /\ conversion' = [conversion EXCEPT ![conversionRequest[q].c] = row]
  /\ conversionRequest' = [conversionRequest EXCEPT ![q].copy = row, ![q].pc = pc]

Copy(q) == conversionRequest[q].copy

(* Slip: the volume of yesterday is kept. *)
VolumeNow_Kept == volume

(* The volume of a day that is over counts as none. *)
VolumeNow == IF day = lastResetDate THEN volume ELSE 0
SettledNow == IF day = lastResetDate THEN settledToday ELSE {}

(* The amount added to none is what is compared with the limit.  Added to    *)
(* the text of others it is appended: with two points in it the sum is no    *)
(* number and exceeds nothing, and the digits of a whole amount behind one   *)
(* amount within the limit leave it there.                                   *)
WithinLimit == VolumeNow = 0 => 1 <= DailyLimit

(* resetDailyVolumesIfNeeded, which every check of the volume begins with.  *)
ResetDailyVolumes ==
  /\ volume' = VolumeNow
  /\ settledToday' = SettledNow
  /\ lastResetDate' = day

(* createConversion assesses the risk; what is not approved throws.         *)
CreateConversion(q, c, bridged) ==
  /\ conversion[c] = NoConversion
  /\ \A p \in ConversionRequests : ~ (At(p, "store") /\ conversionRequest[p].c = c)
  /\ WithinLimit
  /\ ResetDailyVolumes
  /\ Begin(q, [pc |-> "store", c |-> c,
               copy |-> [status |-> "PENDING", bridged |-> bridged, swap |-> None,
                         settlement |-> None, retryCount |-> 0]])
  /\ UNCHANGED <<conversion, swapped, deposited, failures, day>>

Store(q) ==
  /\ At(q, "store")
  /\ conversion' = [conversion EXCEPT ![conversionRequest[q].c] = Copy(q)]
  /\ Done(q)
  /\ UNCHANGED <<swapped, deposited, failures, volume, settledToday, day, lastResetDate,
                 conversionCalls>>

(* A price or the save may fail: nothing is stored. *)
StoreThrows(q) ==
  /\ At(q, "store") /\ Done(q)
  /\ UNCHANGED <<conversion, swapped, deposited, failures, volume, settledToday, day,
                 lastResetDate, conversionCalls>>

-----------------------------------------------------------------------------
(* The execution is numbered by the call that begins it.                    *)
Execution(c) ==
  [pc |-> "discover", c |-> c, copy |-> conversion[c], run |-> conversionCalls + 1]

(* executeConversion takes a conversion in any status. *)
ExecuteConversion(q, c) ==
  /\ conversion[c] # NoConversion
  /\ Begin(q, Execution(c))
  /\ UNCHANGED <<conversion, swapped, deposited, failures, volume, settledToday, day,
                 lastResetDate>>

(* retryConversion looks at the row, and executeConversion reads it again.  *)
RetryConversion(q, c) ==
  /\ conversion[c] # NoConversion
  /\ conversion[c].status = "FAILED"
  /\ conversion[c].retryCount < ConversionRetries
  /\ Begin(q, [pc |-> "again", c |-> c])
  /\ UNCHANGED <<conversion, swapped, deposited, failures, volume, settledToday, day,
                 lastResetDate>>

ReadAgain(q) ==
  LET c == conversionRequest[q].c IN
  /\ At(q, "again")
  /\ conversionRequest' = [conversionRequest EXCEPT ![q] = Execution(c)]
  /\ conversionCalls' = conversionCalls + 1
  /\ UNCHANGED <<conversion, swapped, deposited, failures, volume, settledToday, day,
                 lastResetDate>>

(* The status is saved, then a DEX is asked for a route and the status saved. *)
Discover(q) ==
  /\ At(q, "discover")
  /\ SaveAs(q, [Copy(q) EXCEPT !.status = "PRICE_DISCOVERY"], "route")
  /\ UNCHANGED <<swapped, deposited, failures, volume, settledToday, day, lastResetDate,
                 conversionCalls>>

Route(q) ==
  /\ At(q, "route")
  /\ SaveAs(q, [Copy(q) EXCEPT !.status = "EXECUTING"], "swap")
  /\ UNCHANGED <<swapped, deposited, failures, volume, settledToday, day, lastResetDate,
                 conversionCalls>>

(* Slip: the vault is credited ahead of the swap. *)
Swap_DepositFirst(q) ==
  /\ At(q, "swap")
  /\ deposited' = deposited \cup {<<conversionRequest[q].c, conversionRequest[q].run>>}
  /\ Goto(q, "hash")
  /\ UNCHANGED <<conversion, swapped, failures, volume, settledToday, day, lastResetDate,
                 conversionCalls>>

(* The swap is built, signed and submitted without a wait in between.       *)
Swap(q) ==
  /\ At(q, "swap")
  /\ swapped' = swapped \cup {<<conversionRequest[q].c, conversionRequest[q].run>>}
  /\ Goto(q, "hash")
  /\ UNCHANGED <<conversion, deposited, failures, volume, settledToday, day, lastResetDate,
                 conversionCalls>>

(* Slip: the hash of the swap is not kept. *)
SaveHash_Not(q) ==
  /\ At(q, "hash")
  /\ Goto(q, IF Copy(q).bridged THEN "bridge" ELSE "settle")
  /\ UNCHANGED <<conversion, swapped, deposited, failures, volume, settledToday, day,
                 lastResetDate, conversionCalls>>

(* The hash is saved; the swap is confirmed at the first look.              *)
SaveHash(q) ==
  /\ At(q, "hash")
  /\ SaveAs(q, [Copy(q) EXCEPT !.swap = conversionRequest[q].run],
            IF Copy(q).bridged THEN "bridge" ELSE "settle")
  /\ UNCHANGED <<swapped, deposited, failures, volume, settledToday, day, lastResetDate,
                 conversionCalls>>

(* The status, the bridge that quotes best, and its transaction are saved.  *)
Bridge(q) ==
  /\ At(q, "bridge")
  /\ SaveAs(q, [Copy(q) EXCEPT !.status = "BRIDGING"], "settle")
  /\ UNCHANGED <<swapped, deposited, failures, volume, settledToday, day, lastResetDate,
                 conversionCalls>>

Settle(q) ==
  /\ At(q, "settle")
  /\ SaveAs(q, [Copy(q) EXCEPT !.status = "SETTLING"], "deposit")
  /\ UNCHANGED <<swapped, deposited, failures, volume, settledToday, day, lastResetDate,
                 conversionCalls>>

(* Horizon takes the deposit.  Its answer, or the confirmation within a     *)
(* minute, may not arrive: then the execution fails after its deposit.      *)
DepositToVault(q) ==
  /\ At(q, "deposit")
  /\ deposited' = deposited \cup {<<conversionRequest[q].c, conversionRequest[q].run>>}
  /\ Goto(q, "complete")
  /\ UNCHANGED <<conversion, swapped, failures, volume, settledToday, day, lastResetDate,
                 conversionCalls>>

Complete(q) ==
  /\ At(q, "complete")
  /\ SaveAs(q, [Copy(q) EXCEPT !.status = "COMPLETED",
                               !.settlement = conversionRequest[q].run], "count")
  /\ UNCHANGED <<swapped, deposited, failures, volume, settledToday, day, lastResetDate,
                 conversionCalls>>

(* executeTrade assesses the risk again and appends the amount that the row *)
(* was read with; the conversion is completed by now, a refusal is ignored. *)
ExecuteTrade(q) ==
  /\ At(q, "count") /\ Done(q)
  /\ volume' = IF WithinLimit THEN VolumeNow + 1 ELSE VolumeNow
  /\ settledToday' = SettledNow \cup {<<conversionRequest[q].c, conversionRequest[q].run>>}
  /\ lastResetDate' = day
  /\ UNCHANGED <<conversion, swapped, deposited, failures, day, conversionCalls>>

(* Any await of an execution may throw, the last save after it was made.    *)
Fail(q) ==
  /\ conversionRequest[q].pc \in {"discover", "route", "hash", "bridge", "settle", "deposit",
                                  "complete", "count"}
  /\ failures' = [failures EXCEPT ![conversionRequest[q].c] = @ + 1]
  /\ Goto(q, "failed")
  /\ UNCHANGED <<conversion, swapped, deposited, volume, settledToday, day, lastResetDate,
                 conversionCalls>>

(* Slip: a failed execution uses up two retries. *)
FailedCopy_Twice(q) == [Copy(q) EXCEPT !.status = "FAILED", !.retryCount = @ + 2]

FailedCopy(q) == [Copy(q) EXCEPT !.status = "FAILED", !.retryCount = @ + 1]

(* The failure is counted and saved; this save may throw too.               *)
SaveFailed(q) ==
  /\ At(q, "failed")
  /\ conversion' \in {conversion, [conversion EXCEPT ![conversionRequest[q].c] = FailedCopy(q)]}
  /\ Done(q)
  /\ UNCHANGED <<swapped, deposited, failures, volume, settledToday, day, lastResetDate,
                 conversionCalls>>

-----------------------------------------------------------------------------
CancelConversion(q, c) ==
  /\ conversion[c] # NoConversion
  /\ conversion[c].status \in {"PENDING", "PRICE_DISCOVERY"}
  /\ Begin(q, [pc |-> "cancel", c |-> c,
               copy |-> [conversion[c] EXCEPT !.status = "CANCELLED"]])
  /\ UNCHANGED <<conversion, swapped, deposited, failures, volume, settledToday, day,
                 lastResetDate>>

(* The save may throw. *)
SaveCancelled(q) ==
  /\ At(q, "cancel")
  /\ conversion' \in {conversion, [conversion EXCEPT ![conversionRequest[q].c] = Copy(q)]}
  /\ Done(q)
  /\ UNCHANGED <<swapped, deposited, failures, volume, settledToday, day, lastResetDate,
                 conversionCalls>>

NextDay ==
  /\ day < MaxDays
  /\ day' = day + 1
  /\ UNCHANGED <<conversion, conversionRequest, swapped, deposited, failures, volume,
                 settledToday, lastResetDate, conversionCalls>>

Next ==
  \/ \E q \in ConversionRequests :
       \/ \E c \in Conversions :
            \/ \E bridged \in BOOLEAN : CreateConversion(q, c, bridged)
            \/ ExecuteConversion(q, c) \/ RetryConversion(q, c) \/ CancelConversion(q, c)
       \/ Store(q) \/ StoreThrows(q) \/ ReadAgain(q)
       \/ Discover(q) \/ Route(q) \/ Swap(q) \/ SaveHash(q) \/ Bridge(q) \/ Settle(q)
       \/ DepositToVault(q) \/ Complete(q) \/ ExecuteTrade(q)
       \/ Fail(q) \/ SaveFailed(q) \/ SaveCancelled(q)
  \/ NextDay

-----------------------------------------------------------------------------
(* The rows are well formed. *)
TypeOK ==
  /\ conversion \in [Conversions -> Row \cup {NoConversion}]
  /\ swapped \cup deposited \subseteq Conversions \X Nat
  /\ failures \in [Conversions -> Nat]
  /\ volume \in Nat

(* No execution pays the vault without a swap of its own: whatever is       *)
(* retried, overlaps or throws, the engine never pays out what it did not   *)
(* first convert.                                                           *)
DepositsAreSwapped == deposited \subseteq swapped

(* A completed row names the swap and the deposit of one execution, and     *)
(* both were made: no stale save mixes the hashes of two executions.        *)
CompletedRowIsOneExecution ==
  \A c \in Conversions : conversion[c].status = "COMPLETED" =>
    /\ conversion[c].swap = conversion[c].settlement
    /\ <<c, conversion[c].swap>> \in swapped \cap deposited

(* Overlapping executions may lose a failure; they never count one that did *)
(* not happen, which would refuse a retry too early.                        *)
RetriesAreFailures ==
  \A c \in Conversions : conversion[c] # NoConversion =>
    conversion[c].retryCount <= failures[c]

(* The daily volume counts what was paid to the vault on its day, each      *)
(* execution once however often it is retried or overlaps, and past the     *)
(* limit too, which keeps nothing out.                                      *)
VolumeCountsSettled ==
  volume = Cardinality(settledToday) /\ settledToday \subseteq deposited
=============================================================================
