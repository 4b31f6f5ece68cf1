----------------------------- MODULE Analytics -----------------------------
(***************************************************************************)
(* The payment and the subscription analytics of one merchant: how many     *)
(* payments and subscriptions were created.  The other events name no       *)
(* merchant, or are not handled, and change nothing.  Any load of a saved   *)
(* row throws: its amount is a decimal, the driver brings it as a text with *)
(* a point, and BigInt() takes no such text.  So a query loads nothing into *)
(* memory, and a process that starts over a row falls.                      *)
(***************************************************************************)
EXTENDS Integers

CONSTANTS
  MaxCreations,  \* bound: creation events of each kind
  MaxReloads     \* bound: rebuilds and restarts

VARIABLES
  created,     \* creation events in the store
  others,      \* other events of the kind; one stands for all
  counted,     \* the merchant's number in memory, None when it is not there
  totalRow,    \* its row
  upserts,     \* upserts of live events sent and not yet answered
  loaded,      \* the row the constructor's load read, or that the process is down
  recount,     \* rebuildFromEvents: its state, the creations left, its upsert
  reloads,
  missed       \* for the properties: what happened that can make the number wrong

analyticsVars ==
  <<created, others, counted, totalRow, upserts, loaded, recount, reloads, missed>>

Kinds == {"payment", "subscription"}
None == -1
Idle == [pc |-> "idle", left |-> 0, number |-> 0]
NoLoad == [pc |-> "idle", row |-> None]
Down == [pc |-> "down", row |-> None]

Init ==
  /\ created = [k \in Kinds |-> 0] /\ others = [k \in Kinds |-> 0]
  /\ counted = [k \in Kinds |-> None]
  /\ totalRow = [k \in Kinds |-> None]
  /\ upserts = [k \in Kinds |-> {}]
  /\ loaded = [k \in Kinds |-> NoLoad]
  /\ recount = [k \in Kinds |-> Idle]
  /\ reloads = 0
  /\ missed = [k \in Kinds |-> {}]

Up(k) == loaded[k].pc # "down"
Settled(k) == upserts[k] = {} /\ recount[k] = Idle
Quiet(k) == Settled(k) /\ loaded[k].pc # "start"
Reload == reloads < MaxReloads /\ reloads' = reloads + 1
Miss(k, what) == missed' = [missed EXCEPT ![k] = @ \cup what]

-----------------------------------------------------------------------------
(* An event without a merchant: getMerchantIdFromPaymentId finds none ...   *)
(* (bound: once, after the last creation)                                   *)
Unnamed(k) ==
  /\ created[k] = MaxCreations /\ others[k] = 0 /\ Quiet(k)
  /\ others' = [others EXCEPT ![k] = 1]
  /\ UNCHANGED <<created, counted, totalRow, upserts, loaded, recount, reloads, missed>>

PaymentEvent == Unnamed("payment")

(* ... and neither does getMerchantIdFromSubscriptionId.                    *)
SubscriptionEvent == Unnamed("subscription")

Plus(n) == IF n = None THEN 1 ELSE n + 1

(* Counted in memory, and the number sent to the row.  Two upserts at once  *)
(* may arrive in either order.                                              *)
Created(k) ==
  /\ created[k] < MaxCreations /\ Up(k)
  /\ created' = [created EXCEPT ![k] = @ + 1]
  /\ counted' = [counted EXCEPT ![k] = Plus(@)]
  /\ upserts' = [upserts EXCEPT ![k] = @ \cup {Plus(counted[k])}]
  /\ Miss(k, (IF recount[k] # Idle THEN {"rebuild"} ELSE {})
             \cup (IF Quiet(k) THEN {} ELSE {"overlap"}))
  /\ UNCHANGED <<others, totalRow, loaded, recount, reloads>>

(* What an upsert that failed left out, the next one brings.                *)
Saved(k) ==
  /\ \E n \in upserts[k] :
       /\ totalRow' = [totalRow EXCEPT ![k] = n]
       /\ upserts' = [upserts EXCEPT ![k] = @ \ {n}]
       /\ missed' = [missed EXCEPT ![k] = IF n = counted[k] THEN @ \ {"unsaved"} ELSE @]
  /\ UNCHANGED <<created, others, counted, loaded, recount, reloads>>

(* The upsert throws, or the handler did on the way to it, when the amount  *)
(* was a number, which no bigint takes: the event store logs the error.     *)
NotSaved(k) ==
  /\ \E n \in upserts[k] : upserts' = [upserts EXCEPT ![k] = @ \ {n}]
  /\ Miss(k, {"unsaved"})
  /\ UNCHANGED <<created, others, counted, totalRow, loaded, recount, reloads>>

-----------------------------------------------------------------------------
(* Slip: the table is cleared, memory is not. *)
StartRebuild_RowOnly(k) ==
  /\ recount[k] = Idle /\ Up(k)
  /\ recount' = [recount EXCEPT ![k].pc = "clear"]
  /\ Reload
  /\ missed' = [missed EXCEPT ![k] = IF Quiet(k) THEN {} ELSE {"rebuild"}]
  /\ UNCHANGED <<created, others, counted, totalRow, upserts, loaded>>

(* rebuildFromEvents *)
StartRebuild(k) ==
  /\ recount[k] = Idle /\ Up(k)
  /\ counted' = [counted EXCEPT ![k] = None]
  /\ recount' = [recount EXCEPT ![k].pc = "clear"]
  /\ Reload
  /\ missed' = [missed EXCEPT ![k] = IF Quiet(k) THEN {} ELSE {"rebuild"}]
  /\ UNCHANGED <<created, others, totalRow, upserts, loaded>>

Cleared(k) ==
  /\ recount[k].pc = "clear"
  /\ totalRow' = [totalRow EXCEPT ![k] = None]
  /\ recount' = [recount EXCEPT ![k] = [Idle EXCEPT !.pc = "count", !.left = created[k]]]
  /\ UNCHANGED <<created, others, counted, upserts, loaded, reloads, missed>>

(* One event is awaited before the next. *)
CountAgain(k) ==
  /\ recount[k].pc = "count"
  /\ IF recount[k].left = 0
     THEN recount' = [recount EXCEPT ![k] = Idle] /\ UNCHANGED counted
     ELSE /\ counted' = [counted EXCEPT ![k] = Plus(@)]
          /\ recount' = [recount EXCEPT ![k] =
               [pc |-> "save", left |-> @.left - 1, number |-> Plus(counted[k])]]
  /\ UNCHANGED <<created, others, totalRow, upserts, loaded, reloads, missed>>

SavedAgain(k) ==
  /\ recount[k].pc = "save"
  /\ totalRow' = [totalRow EXCEPT ![k] = recount[k].number]
  /\ recount' = [recount EXCEPT ![k] = [pc |-> "count", left |-> @.left, number |-> 0]]
  /\ UNCHANGED <<created, others, counted, upserts, loaded, reloads, missed>>

(* The table is not cleared, and its row stays as it was.                   *)
ClearThrows(k) ==
  /\ recount[k].pc = "clear"
  /\ recount' = [recount EXCEPT ![k] = Idle]
  /\ Miss(k, {"rebuild"})
  /\ UNCHANGED <<created, others, counted, totalRow, upserts, loaded, reloads>>

(* The read of the events, a handler or an upsert throws: the rest of the   *)
(* events is not counted.                                                   *)
RebuildThrows(k) ==
  /\ recount[k].pc \in {"count", "save"}
  /\ recount' = [recount EXCEPT ![k] = Idle]
  /\ Miss(k, {"aborted"})
  /\ UNCHANGED <<created, others, counted, totalRow, upserts, loaded, reloads>>

-----------------------------------------------------------------------------
(* A process ends with what it has in memory and under way. *)
Ends(load) ==
  /\ counted' = [k \in Kinds |-> None]
  /\ upserts' = [k \in Kinds |-> {}]
  /\ recount' = [k \in Kinds |-> Idle]
  /\ loaded' = load
  /\ missed' = [k \in Kinds |->
       (IF Settled(k) /\ missed[k] = {} THEN {} ELSE missed[k] \cup {"restart"})
       \cup (IF recount[k].pc = "clear" THEN {"rebuild"} ELSE {})]

(* The next one's constructors load, and await nothing. *)
Restart ==
  /\ Reload
  /\ Ends([k \in Kinds |-> [pc |-> "start", row |-> totalRow[k]]])
  /\ UNCHANGED <<created, others, totalRow>>

LoadDone(k) ==
  /\ loaded[k].pc = "start" /\ loaded[k].row = None
  /\ loaded' = [loaded EXCEPT ![k] = NoLoad]
  /\ UNCHANGED <<created, others, counted, totalRow, upserts, recount, reloads, missed>>

(* Slip: the constructor catches what the load throws. *)
LoadThrows_Caught(k) ==
  /\ loaded[k].pc = "start" /\ loaded[k].row # None
  /\ loaded' = [loaded EXCEPT ![k] = NoLoad]
  /\ UNCHANGED <<created, others, counted, totalRow, upserts, recount, reloads, missed>>

(* BigInt() throws, and a rejection that nobody handles ends the process.   *)
LoadThrows(k) ==
  /\ loaded[k].pc = "start" /\ loaded[k].row # None
  /\ Ends([j \in Kinds |-> Down])
  /\ UNCHANGED <<created, others, totalRow, reloads>>

Next ==
  \/ \E k \in Kinds :
       \/ Created(k) \/ Saved(k) \/ NotSaved(k)
       \/ StartRebuild(k) \/ Cleared(k) \/ CountAgain(k) \/ SavedAgain(k)
       \/ ClearThrows(k) \/ RebuildThrows(k)
       \/ LoadDone(k) \/ LoadThrows(k)
  \/ PaymentEvent \/ SubscriptionEvent \/ Restart

-----------------------------------------------------------------------------
Number == {None} \cup 0..(1 + MaxReloads) * MaxCreations

(* The numbers are numbers. *)
TypeOK ==
  /\ \A k \in Kinds :
       /\ counted[k] \in Number /\ totalRow[k] \in Number
       /\ upserts[k] \subseteq Number /\ created[k] \in 0..MaxCreations
  /\ reloads \in 0..MaxReloads

(* With nothing under way a row has the number of creations, after upserts  *)
(* that failed and were made good, rebuilds that ran to their end and       *)
(* restarts that interrupted nothing.                                       *)
TotalsAreCreations ==
  \A k \in Kinds :
    Quiet(k) /\ missed[k] = {} => totalRow[k] = IF created[k] = 0 THEN None ELSE created[k]

(* A row has more than was created only where a rebuild overlapped, which   *)
(* counts an event that was counted live as well, and none cleared it since.*)
NeverTooMany ==
  \A k \in Kinds : recount[k] = Idle /\ "rebuild" \notin missed[k] => totalRow[k] <= created[k]

(* No process that has loaded counts on from less than its row, unless a    *)
(* rebuild overlapped or left the row: one that starts over a row falls.    *)
MemoryIsAhead ==
  \A k \in Kinds :
    loaded[k].pc = "idle" /\ recount[k] = Idle /\ "rebuild" \notin missed[k] =>
      totalRow[k] <= counted[k]
=============================================================================
