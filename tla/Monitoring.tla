----------------------------- MODULE Monitoring -----------------------------
(***************************************************************************)
(* RealtimeMonitoringProjection: the active payments in memory and their    *)
(* rows, written by event handlers that await their upserts, by timers that *)
(* drop a finished payment a minute later and by a rebuild from the event   *)
(* store, and lost by restarts.  Any load of a saved row throws: its amount *)
(* is a decimal, the driver brings it as a text with a point, and BigInt()  *)
(* takes no such text.  So a query loads nothing into memory, and a process *)
(* that starts over a row falls.                                            *)
(***************************************************************************)
EXTENDS Integers, SequencesExt

CONSTANTS
  MonPayments,      \* bound: payments
  MaxDisturbances   \* bound: events that overlap, failures, rebuilds and restarts

VARIABLES
  history,    \* the payments' events in the store
  memory,     \* activePayments: the status it shows
  monRow,     \* table realtime_monitoring
  handler,    \* the event being handled live, and the one the rebuild handles
  timers,     \* removals that are due
  removals,   \* deletes that were sent and nobody awaits
  load,       \* the constructor's load: whose rows it read, or the process is down
  rebuild,    \* rebuildFromEvents: its state, and the events left to handle
  disturbances,
  disturbed   \* for the properties: which of them came while others went on

monVars == <<history, memory, monRow, handler, timers, removals, load, rebuild,
             disturbances, disturbed>>

(* An expiry is not handled: what the creation left stays.                  *)
Status(event) ==
  CASE event \in {"Created", "Expired"} -> "PENDING"
    [] event = "Confirmed" -> "CONFIRMED"
    [] event = "Settled" -> "SETTLED"     [] event = "Failed" -> "FAILED"
    [] event = "Cancelled" -> "CANCELLED"

(* What can follow in a payment's life. *)
NextEvents(events) ==
  IF events = <<>> THEN {"Created"}
  ELSE CASE Last(events) = "Created" -> {"Confirmed", "Failed", "Cancelled", "Expired"}
         [] Last(events) = "Confirmed" -> {"Settled", "Failed"}
         [] OTHER -> {}
Finished(events) == events # <<>> /\ Last(events) \in {"Settled", "Failed", "Cancelled"}

NoHandler == [pc |-> "idle"]
NoLoad == [pc |-> "idle"]
Down == [pc |-> "down"]
NoRebuild == [pc |-> "idle"]

Init ==
  /\ history = [p \in MonPayments |-> <<>>]
  /\ memory = [p \in MonPayments |-> "none"]
  /\ monRow = [p \in MonPayments |-> "none"]
  /\ handler = [h \in {"live", "rebuild"} |-> NoHandler]
  /\ timers = [p \in MonPayments |-> 0]
  /\ removals = [p \in MonPayments |-> 0]
  /\ load = NoLoad
  /\ rebuild = NoRebuild
  /\ disturbances = 0 /\ disturbed = {}

Working == rebuild # NoRebuild \/ \E h \in DOMAIN handler : handler[h] # NoHandler
Waiting == \E p \in MonPayments : timers[p] + removals[p] > 0
Starting == load \notin {NoLoad, Down}
Disturb(kind, disturbs) ==
  /\ disturbances < MaxDisturbances
  /\ disturbances' = disturbances + 1
  /\ disturbed' = IF disturbs THEN disturbed \cup {kind} ELSE disturbed
Undisturbed == UNCHANGED <<disturbances, disturbed>>

-----------------------------------------------------------------------------
(* A handler sets the status in memory and sends the upsert, which carries  *)
(* it.  A payment that is not in memory is only added by its creation.      *)
Handle(h, p, event) ==
  IF event = "Created" \/ (event # "Expired" /\ memory[p] # "none")
  THEN /\ memory' = [memory EXCEPT ![p] = Status(event)]
       /\ handler' = [handler EXCEPT ![h] = [pc |-> "save", of |-> p, event |-> event]]
  ELSE UNCHANGED <<memory, handler>>

(* The event is committed, and its subscriber told. *)
Live(p, event) ==
  /\ load # Down
  /\ event \in NextEvents(history[p])
  /\ handler["live"] = NoHandler
  /\ history' = [history EXCEPT ![p] = Append(@, event)]
  /\ Handle("live", p, event)
  /\ IF Working \/ Starting THEN Disturb("live", TRUE) ELSE Undisturbed
  /\ UNCHANGED <<monRow, timers, removals, load, rebuild>>

Done(h) == handler' = [handler EXCEPT ![h] = NoHandler]

(* The upsert: settled and failed payments get a timer, cancelled ones are  *)
(* dropped.                                                                 *)
Saved(h) ==
  /\ handler[h].pc = "save"
  /\ LET p == handler[h].of
         event == handler[h].event
     IN  /\ monRow' = [monRow EXCEPT ![p] = Status(event)]
         /\ timers' = [timers EXCEPT ![p] = IF event \in {"Settled", "Failed"} THEN @ + 1 ELSE @]
         /\ IF event = "Cancelled"
            THEN /\ memory' = [memory EXCEPT ![p] = "none"]
                 /\ handler' = [handler EXCEPT ![h].pc = "remove"]
            ELSE UNCHANGED memory /\ Done(h)
  /\ UNCHANGED <<history, removals, load, rebuild, disturbances, disturbed>>

Removed(h) ==
  /\ handler[h].pc = "remove"
  /\ monRow' = [monRow EXCEPT ![handler[h].of] = "none"]
  /\ Done(h)
  /\ UNCHANGED <<history, memory, timers, removals, load, rebuild, disturbances, disturbed>>

(* The upsert or the delete throws: a timer is not set, a rebuild is given  *)
(* up, and the event store logs the error of a live event.                  *)
NotSaved(h) ==
  /\ handler[h] # NoHandler
  /\ Done(h)
  /\ rebuild' = IF h = "rebuild" THEN NoRebuild ELSE rebuild
  /\ Disturb("unsaved", TRUE)
  /\ UNCHANGED <<history, memory, monRow, timers, removals, load>>

(* Slip: the row is left. *)
TimerFires_MemoryOnly(p) ==
  /\ timers[p] > 0
  /\ timers' = [timers EXCEPT ![p] = @ - 1]
  /\ memory' = [memory EXCEPT ![p] = "none"]
  /\ UNCHANGED <<history, monRow, handler, removals, load, rebuild, disturbances, disturbed>>

TimerFires(p) ==
  /\ timers[p] > 0
  /\ timers' = [timers EXCEPT ![p] = @ - 1]
  /\ memory' = [memory EXCEPT ![p] = "none"]
  /\ removals' = [removals EXCEPT ![p] = @ + 1]
  /\ UNCHANGED <<history, monRow, handler, load, rebuild, disturbances, disturbed>>

RemovalDone(p) ==
  /\ removals[p] > 0
  /\ removals' = [removals EXCEPT ![p] = @ - 1]
  /\ monRow' = [monRow EXCEPT ![p] = "none"]
  /\ UNCHANGED <<history, memory, handler, timers, load, rebuild, disturbances, disturbed>>

-----------------------------------------------------------------------------
(* rebuildFromEvents: memory at once, then the table, then all events.      *)
StartRebuild ==
  /\ rebuild = NoRebuild /\ load # Down
  /\ memory' = [p \in MonPayments |-> "none"]
  /\ rebuild' = [pc |-> "clear"]
  /\ Disturb("rebuild", Working \/ Waiting)
  /\ UNCHANGED <<history, monRow, handler, timers, removals, load>>

Cleared ==
  /\ rebuild.pc = "clear"
  /\ monRow' = [p \in MonPayments |-> "none"]
  /\ rebuild' = [pc |-> "read"]
  /\ UNCHANGED <<history, memory, handler, timers, removals, load, disturbances, disturbed>>

ReadEvents ==
  /\ rebuild.pc = "read"
  /\ rebuild' = [pc |-> "handle", todo |-> history]
  /\ UNCHANGED <<history, memory, monRow, handler, timers, removals, load, disturbances, disturbed>>

(* The events of a payment come in their order. *)
HandleAgain ==
  /\ rebuild.pc = "handle"
  /\ handler["rebuild"] = NoHandler
  /\ \/ /\ \A p \in MonPayments : rebuild.todo[p] = <<>>
        /\ rebuild' = NoRebuild /\ UNCHANGED <<memory, handler>>
     \/ \E p \in MonPayments :
          /\ rebuild.todo[p] # <<>>
          /\ Handle("rebuild", p, Head(rebuild.todo[p]))
          /\ rebuild' = [rebuild EXCEPT !.todo[p] = Tail(@)]
  /\ UNCHANGED <<history, monRow, timers, removals, load, disturbances, disturbed>>

(* The clear or the read of the events throws. *)
RebuildThrows ==
  /\ rebuild.pc \in {"clear", "read"}
  /\ rebuild' = NoRebuild
  /\ Disturb("unsaved", TRUE)
  /\ UNCHANGED <<history, memory, monRow, handler, timers, removals, load>>

-----------------------------------------------------------------------------
(* A process ends with what it has in memory, its timers and what it does.  *)
Ends(then) ==
  /\ memory' = [p \in MonPayments |-> "none"]
  /\ handler' = [h \in DOMAIN handler |-> NoHandler]
  /\ timers' = [p \in MonPayments |-> 0]
  /\ removals' = [p \in MonPayments |-> 0]
  /\ rebuild' = NoRebuild
  /\ load' = then
  /\ UNCHANGED <<history, monRow>>

(* The next one's constructor loads, and awaits nothing.                    *)
Restart ==
  /\ Ends([pc |-> "start", of |-> {p \in MonPayments : monRow[p] # "none"}])
  /\ Disturb("restart", Working \/ Waiting)

LoadDone ==
  /\ Starting /\ load.of = {}
  /\ load' = NoLoad
  /\ UNCHANGED <<history, memory, monRow, handler, timers, removals, rebuild,
                 disturbances, disturbed>>

(* Slip: the constructor catches what the load throws. *)
LoadThrows_Caught ==
  /\ Starting /\ load.of # {}
  /\ load' = NoLoad
  /\ UNCHANGED <<history, memory, monRow, handler, timers, removals, rebuild,
                 disturbances, disturbed>>

(* BigInt() throws, and a rejection that nobody handles ends the process.   *)
LoadThrows ==
  /\ Starting /\ load.of # {}
  /\ Ends(Down)
  /\ disturbed' = IF Working \/ Waiting THEN disturbed \cup {"restart"} ELSE disturbed
  /\ UNCHANGED disturbances

(* So does a delete behind a timer, which nobody awaits.                    *)
RemovalThrows(p) ==
  /\ removals[p] > 0
  /\ Ends(Down)
  /\ Disturb("restart", TRUE)

Next ==
  \/ \E p \in MonPayments :
       \/ \E event \in {"Created", "Confirmed", "Settled", "Failed", "Cancelled", "Expired"} :
            Live(p, event)
       \/ TimerFires(p) \/ RemovalDone(p) \/ RemovalThrows(p)
  \/ \E h \in DOMAIN handler : Saved(h) \/ Removed(h) \/ NotSaved(h)
  \/ StartRebuild \/ Cleared \/ ReadEvents \/ HandleAgain \/ RebuildThrows
  \/ Restart \/ LoadDone \/ LoadThrows

-----------------------------------------------------------------------------
Shown == {"none", "PENDING", "CONFIRMED", "SETTLED", "FAILED", "CANCELLED"}

(* Memory, the rows and what is under way are well formed. *)
TypeOK ==
  /\ memory \in [MonPayments -> Shown] /\ monRow \in [MonPayments -> Shown]
  /\ timers \in [MonPayments -> Nat] /\ removals \in [MonPayments -> Nat]
  /\ \A h \in DOMAIN handler : handler[h].pc \in {"idle", "save", "remove"}
  /\ handler["rebuild"] # NoHandler => rebuild.pc = "handle"

AtRest == ~Working /\ ~Waiting /\ ~Starting

(* Once everything under way is done, memory and the rows show exactly the  *)
(* payments that have not ended, as their last event left them, after any   *)
(* number of events, rebuilds and restarts that did not overlap or throw; a *)
(* process that fell over the rows leaves them as they were.                *)
MonitoringFollowsEvents ==
  AtRest /\ disturbed = {} =>
    \A p \in MonPayments :
      /\ load = NoLoad => memory[p] = monRow[p]
      /\ monRow[p] = IF history[p] = <<>> \/ Finished(history[p]) THEN "none"
                     ELSE Status(Last(history[p]))

(* Whatever overlaps, and unless a statement threw, a payment that has not  *)
(* ended has its row, if no restart came before its upsert, and a process   *)
(* that has loaded shows it exactly then: one that starts over a row has    *)
(* fallen.                                                                  *)
UnfinishedAreShown ==
  AtRest /\ "unsaved" \notin disturbed =>
    \A p \in MonPayments :
      history[p] # <<>> /\ ~Finished(history[p]) =>
        /\ monRow[p] # "none" \/ "restart" \in disturbed
        /\ load = NoLoad => (memory[p] # "none" <=> monRow[p] # "none")
=============================================================================
