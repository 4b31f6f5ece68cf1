------------------------------- MODULE Replay -------------------------------
(***************************************************************************)
(* EventReplayService: a stream of the event store is replayed by its      *)
(* versions, from a snapshot or from a version, or all streams by their    *)
(* positions, in batches, while events are appended.  Either number comes  *)
(* back as text, and adding one to text appends a digit: the number after  *)
(* 2 is 21.  An event is known by the order in which it was stored.        *)
(***************************************************************************)
EXTENDS Integers, FiniteSets, SequencesExt

CONSTANTS
  BatchSize,      \* batchSize of the replay
  MaxVersion,     \* bound: versions and positions
  MaxEvents,      \* bound: events stored
  GivenPositions, \* bound: the positions that events get
  ReplayHandlers  \* bound: the replays that run

VARIABLES
  replaysAll,  \* what is replayed is the whole store and not one stream
  stored,      \* the events: version in the stream, or position in the store
  snapshot,    \* streamVersion of the stream's snapshot, 0 when there is none
  replay       \* the replays

replayVars == <<replaysAll, stored, snapshot, replay>>

Numbers == 1..MaxVersion
Goals == Numbers \cup {0}     \* toVersion or toPosition, 0 when it is left out
Events == DOMAIN stored
NumbersOf(events) == {stored[e] : e \in events}

NoReplay ==
  [pc |-> "idle", start |-> 0, from |-> 0, to |-> 0, known |-> {},
   batch |-> {}, more |-> FALSE, handled |-> <<>>, failed |-> {}, jumps |-> {}]

Init ==
  /\ replaysAll \in BOOLEAN
  /\ stored = <<>>
  /\ snapshot = 0
  /\ replay = [r \in ReplayHandlers |-> NoReplay]

-----------------------------------------------------------------------------
(* Slip: the next batch begins with the last event of this one. *)
NextFrom_Same(number) == number

(* The number after one that was read back. *)
NextFrom(number) == 10 * number + 1

(* An append takes one more than a version that its caller kept, or the     *)
(* number after one that was read back; others may have come in since.      *)
AppendVersion ==
  /\ ~replaysAll
  /\ Len(stored) < MaxEvents
  /\ LET taken == NumbersOf(Events) IN
       \E version \in ({1} \cup UNION {{v + 1, NextFrom(v)} : v \in taken}) \ taken :
         /\ version <= MaxVersion
         /\ stored' = Append(stored, version)
  /\ UNCHANGED <<replaysAll, snapshot, replay>>

(* globalPosition counts on from a number, anew after a restart, from a     *)
(* text when the query for the latest is answered, and back when an append  *)
(* fails: any position may come, and come again.                            *)
AppendPosition ==
  /\ replaysAll
  /\ Len(stored) < MaxEvents
  /\ \E position \in GivenPositions : stored' = Append(stored, position)
  /\ UNCHANGED <<replaysAll, snapshot, replay>>

CreateSnapshot(version) ==
  /\ ~replaysAll
  /\ version \in NumbersOf(Events)
  /\ snapshot' = version
  /\ UNCHANGED <<replaysAll, stored, replay>>

DeleteSnapshot ==
  /\ snapshot # 0
  /\ snapshot' = 0
  /\ UNCHANGED <<replaysAll, stored, replay>>

(* Events by their number; those of one position in the order they came in. *)
Before(d, e) == stored[d] < stored[e] \/ (stored[d] = stored[e] /\ d < e)
IsFirst(e, events) == e \in events /\ \A d \in events \ {e} : Before(e, d)
IsLast(e, events) == e \in events /\ \A d \in events \ {e} : Before(d, e)

(* The first of them, up to a limit. *)
Leading(events, max) == {e \in events : Cardinality({d \in events : Before(d, e)}) < max}

(* Slip: the batch is read from behind the number asked for. *)
ReadEvents_After(from, max) == Leading({e \in Events : stored[e] > from}, max)

(* Slip: the limit is the last index, counted from zero. *)
ReadEvents_OneMore(from, max) == Leading({e \in Events : stored[e] >= from}, max + 1)

(* readStream by version, readAllEvents by position. *)
ReadEvents(from, max) == Leading({e \in Events : stored[e] >= from}, max)

-----------------------------------------------------------------------------
(* A replay is called with a number ...                                     *)
BeginReplay(r, from, to) ==
  /\ replay[r].pc = "idle"
  /\ replay' = [replay EXCEPT ![r] =
       [NoReplay EXCEPT !.pc = "read", !.start = from, !.from = from, !.to = to,
                        !.known = Events]]
  /\ UNCHANGED <<replaysAll, stored, snapshot>>

(* ... or by replayFromSnapshot, with the snapshot's version plus one.      *)
ReplayFromSnapshot(r, to) ==
  /\ replay[r].pc = "idle"
  /\ snapshot # 0
  /\ replay' = [replay EXCEPT ![r] =
       [NoReplay EXCEPT !.pc = "read", !.start = snapshot + 1, !.from = NextFrom(snapshot),
                        !.to = to, !.known = Events, !.jumps = {snapshot}]]
  /\ UNCHANGED <<replaysAll, stored, snapshot>>

ReadBatch(r) ==
  /\ replay[r].pc = "read"
  /\ LET batch == ReadEvents(replay[r].from, BatchSize) IN
       \/ batch = {} /\ replay' = [replay EXCEPT ![r].pc = "done"]
       \/ \E last \in batch :
            /\ IsLast(last, batch)
            /\ replay' = [replay EXCEPT ![r].pc = "handle", ![r].batch = batch, ![r].more = TRUE,
                                        ![r].from = NextFrom(stored[last]),
                                        ![r].jumps = @ \cup {stored[last]}]
  /\ UNCHANGED <<replaysAll, stored, snapshot>>

Beyond(r, e) == replay[r].to # 0 /\ stored[e] > replay[r].to

(* The handler takes the event or throws, which is counted; an event beyond *)
(* the goal ends the replay.                                                *)
HandleEvent(r) ==
  /\ replay[r].pc = "handle"
  /\ \E e \in replay[r].batch :
       /\ IsFirst(e, replay[r].batch)
       /\ \/ /\ Beyond(r, e)
             /\ replay' = [replay EXCEPT ![r].batch = {}, ![r].more = FALSE]
          \/ /\ ~Beyond(r, e)
             /\ \/ replay' = [replay EXCEPT ![r].batch = @ \ {e}, ![r].handled = Append(@, e)]
                \/ replay' = [replay EXCEPT ![r].batch = @ \ {e}, ![r].failed = @ \cup {e}]
  /\ UNCHANGED <<replaysAll, stored, snapshot>>

NextBatch(r) ==
  /\ replay[r].pc = "handle" /\ replay[r].batch = {}
  /\ replay' = [replay EXCEPT ![r].pc = IF replay[r].more THEN "read" ELSE "done"]
  /\ UNCHANGED <<replaysAll, stored, snapshot>>

(* The two methods, and their loops, differ in the numbers they go by.      *)
ReplayStream(r) ==
  /\ ~replaysAll
  /\ \/ \E from \in {0, 1, 2}, to \in {0, 2, 21} : BeginReplay(r, from, to)
     \/ ReadBatch(r) \/ HandleEvent(r) \/ NextBatch(r)

ReplayAll(r) ==
  /\ replaysAll
  /\ \/ \E from \in {0, 1, 2}, to \in {0, 2, 21} : BeginReplay(r, from, to)
     \/ ReadBatch(r) \/ HandleEvent(r) \/ NextBatch(r)

(* timeTravel and getStreamStateAtVersion take the version for a number of  *)
(* events to read from the start.                                           *)
TimeTravel(version) == ReadEvents(1, version)

Next ==
  \/ AppendVersion \/ AppendPosition \/ DeleteSnapshot
  \/ \E version \in Numbers : CreateSnapshot(version)
  \/ \E r \in ReplayHandlers :
       \/ ReplayStream(r) \/ ReplayAll(r)
       \/ \E to \in {0, 21} : ReplayFromSnapshot(r, to)

-----------------------------------------------------------------------------
(* The events and the replays are well formed. *)
TypeOK ==
  /\ NumbersOf(Events) \subseteq Numbers
  /\ snapshot \in Goals
  /\ \A r \in ReplayHandlers :
       /\ replay[r].pc \in {"idle", "read", "handle", "done"}
       /\ replay[r].batch \cup ToSet(replay[r].handled) \cup replay[r].failed \subseteq Events
       /\ Cardinality(replay[r].batch) <= BatchSize

(* A handler sees events in the order of their numbers and none twice,      *)
(* whatever is appended while it works through the batches, and none beyond *)
(* the goal.                                                                *)
HandledOnceInOrder ==
  \A r \in ReplayHandlers :
    LET seen == replay[r].handled IN
      /\ \A i, j \in DOMAIN seen :
           i < j => stored[seen[i]] <= stored[seen[j]] /\ seen[i] # seen[j]
      /\ replay[r].to # 0 => \A i \in DOMAIN seen : stored[seen[i]] <= replay[r].to

Wanted(r) ==
  {e \in replay[r].known :
     stored[e] >= replay[r].start /\ (replay[r].to = 0 \/ stored[e] <= replay[r].to)}
Seen(r) == ToSet(replay[r].handled) \cup replay[r].failed

(* The event lies behind the end of a batch, or of the snapshot, and before *)
(* the number with a digit more; or it has the position of the batch's end. *)
JumpedOver(r, e) ==
  \E last \in replay[r].jumps :
    \/ last < stored[e] /\ stored[e] < 10 * last + 1
    \/ replaysAll /\ stored[e] = last /\ \E d \in Seen(r) : stored[d] = last

(* A replay leaves out an event only behind the end of a batch. *)
SkipsOnlyBehindBatches ==
  \A r \in ReplayHandlers : replay[r].pc = "done" =>
    \A e \in Wanted(r) \ Seen(r) : JumpedOver(r, e)

(* The state at a version misses no event up to it, gaps between versions   *)
(* or not; with gaps it takes in later events.                              *)
TimeTravelMissesNothing ==
  ~replaysAll =>
    \A e \in Events : {d \in Events : stored[d] <= stored[e]} \subseteq TimeTravel(stored[e])
=============================================================================
