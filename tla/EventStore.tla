----------------------------- MODULE EventStore -----------------------------
(***************************************************************************)
(* EventStoreService over the event_store table: appendEvent and           *)
(* appendEvents, any number of calls overlapping at their awaits in one    *)
(* process, and restarts of that process.  A bigint column comes back from *)
(* the driver as text, and "1" + 1 is "11": the numbers the service counts *)
(* with are JavaScript values, not integers.                               *)
(***************************************************************************)
EXTENDS Integers, FiniteSets, FiniteSetsExt

CONSTANTS
  Streams,
  Calls,        \* bound: the calls of appendEvent and appendEvents made
  MaxBatch,     \* bound: events of one appendEvents
  MaxRestarts,  \* bound: restarts of the process
  NoVersion     \* expectedVersion left undefined

ASSUME ConstantsAssumption ==
  Streams # {} /\ MaxBatch \in Nat \ {0} /\ MaxRestarts \in Nat

VARIABLES
  rows,      \* event_store: the committed rows
  position,  \* this.globalPosition
  boot,      \* the query of initializeGlobalPosition, which nothing awaits
  call,      \* the calls, each between two of its awaits
  restarts

vars == <<rows, position, boot, call, restarts>>

-----------------------------------------------------------------------------
(* A JavaScript value the service counts with: a number, or the text of one. *)
JsValue == [val : Int, text : BOOLEAN]
Num(n)  == [val |-> n, text |-> FALSE]
Text(n) == [val |-> n, text |-> TRUE]

(* x + 1, which appends a digit to a text, and x - 1, which does not. *)
PlusOne(x) ==
  [val  |-> IF ~x.text THEN x.val + 1
            ELSE IF x.val < 0 THEN 10 * x.val - 1 ELSE 10 * x.val + 1,
   text |-> x.text]
MinusOne(x) == Num(x.val - 1)

(* A row: the version as the caller's EventRecord has it, the position, and *)
(* (for the properties only) the call that wrote it.                        *)
Row == [stream : Streams, version : JsValue, position : Int, by : Calls]

SameKey(r, q) == r.stream = q.stream /\ r.version.val = q.version.val

(* getCurrentStreamVersion: the highest version as the driver returns it,   *)
(* or the number 0.                                                         *)
CurrentVersion(s) ==
  LET versions == {r.version.val : r \in {q \in rows : q.stream = s}}
  IN  IF versions = {} THEN Num(0) ELSE Text(Max(versions))

(* The position initializeGlobalPosition reads. *)
LatestPosition ==
  IF rows = {} THEN Num(0) ELSE Text(Max({r.position : r \in rows}))

(* What a caller can pass as expectedVersion: nothing, 0 for a new stream,  *)
(* the version in the record an append returned, or one read back.          *)
KnownVersions(s) ==
  {NoVersion, Num(0)} \cup
  UNION {{r.version, Text(r.version.val)} : r \in {q \in rows : q.stream = s}}

-----------------------------------------------------------------------------
Call ==
  [pc : {"new", "reading", "resumed", "inserting", "committing", "done", "failed"},
   batch : BOOLEAN, stream : Streams, expected : JsValue \cup {NoVersion},
   left : 0..MaxBatch, current : JsValue, position : Int, held : SUBSET Row]

(* A call without its locals: before it has any, and after it has ended. *)
Bare(pc, batch, s, e, n, current) ==
  [pc |-> pc, batch |-> batch, stream |-> s, expected |-> e, left |-> n,
   current |-> current, position |-> 0, held |-> {}]

NewCall ==
  Bare("new", FALSE, CHOOSE s \in Streams : TRUE, NoVersion, 0, Num(0))

Ended(q, pc) == Bare(pc, q.batch, q.stream, q.expected, q.left, Num(0))
End(c, pc) == call' = [call EXCEPT ![c] = Ended(call[c], pc)]

Init ==
  /\ rows = {}
  /\ position = Num(0)
  /\ boot = [pc |-> "asked", value |-> Num(0)]
  /\ call = [c \in Calls |-> NewCall]
  /\ restarts = 0

(* The constructor's query is answered, and some time later assigned. *)
BootQuery ==
  /\ boot.pc = "asked"
  /\ boot' = [pc |-> "answered", value |-> LatestPosition]
  /\ UNCHANGED <<rows, position, call, restarts>>

BootAssign ==
  /\ boot.pc = "answered"
  /\ position' = boot.value
  /\ boot' = [boot EXCEPT !.pc = "done"]
  /\ UNCHANGED <<rows, call, restarts>>

(* appendEvent reads the version first; appendEvents does so only when the  *)
(* caller expects none, and takes the expected version for the current one. *)
AppendEvent(c, s, e) ==
  /\ call[c].pc = "new"
  /\ call' = [call EXCEPT ![c] = Bare("reading", FALSE, s, e, 1, Num(0))]
  /\ UNCHANGED <<rows, position, boot, restarts>>

AppendEvents(c, s, e, n) ==
  /\ call[c].pc = "new"
  /\ call' = [call EXCEPT ![c] =
       IF e = NoVersion THEN Bare("reading", TRUE, s, e, n, Num(0))
                        ELSE Bare("resumed", TRUE, s, e, n, e)]
  /\ UNCHANGED <<rows, position, boot, restarts>>

GetCurrentStreamVersion(c) ==
  /\ call[c].pc = "reading"
  /\ call' = [call EXCEPT ![c].pc = "resumed",
                          ![c].current = CurrentVersion(call[c].stream)]
  /\ UNCHANGED <<rows, position, boot, restarts>>

(* Slip: the expected version is not compared with the current one. *)
MismatchUnchecked(c) == FALSE

Mismatch(c) ==
  /\ ~call[c].batch
  /\ call[c].expected # NoVersion
  /\ call[c].current # call[c].expected

(* The optimistic concurrency check of appendEvent refuses the call. *)
Refuse(c) ==
  /\ call[c].pc = "resumed"
  /\ Mismatch(c)
  /\ End(c, "failed")
  /\ UNCHANGED <<rows, position, boot, restarts>>

(* The next event gets its version and its position and is sent to the      *)
(* database: once for appendEvent, in a loop for appendEvents.              *)
Prepare(c) ==
  /\ call[c].pc = "resumed"
  /\ ~Mismatch(c)
  /\ position' = PlusOne(position)
  /\ call' = [call EXCEPT ![c].pc = "inserting",
                          ![c].current = PlusOne(call[c].current),
                          ![c].position = position'.val]
  /\ UNCHANGED <<rows, boot, restarts>>

RowOf(c) == [stream |-> call[c].stream, version |-> call[c].current,
             position |-> call[c].position, by |-> c]

(* The unique index on (streamId, streamVersion): a row with the same key   *)
(* is stored, or an open transaction holds one and the insert waits for it. *)
Taken(c) == \E r \in rows : SameKey(r, RowOf(c))
Waits(c) == \E d \in Calls \ {c} : \E r \in call[d].held : SameKey(r, RowOf(c))
Free(c)  == ~Taken(c) /\ ~Waits(c)

(* An appendEvent stores its row; the answer may be lost. *)
InsertEvent(c) ==
  /\ call[c].pc = "inserting" /\ ~call[c].batch
  /\ Free(c)
  /\ rows' = rows \cup {RowOf(c)}
  /\ \E pc \in {"done", "failed"} : End(c, pc)
  /\ UNCHANGED <<position, boot, restarts>>

(* Error 23505: the position is counted back and the call fails. *)
UniqueViolation(c) ==
  /\ call[c].pc = "inserting" /\ ~call[c].batch
  /\ Taken(c)
  /\ position' = MinusOne(position)
  /\ End(c, "failed")
  /\ UNCHANGED <<rows, boot, restarts>>

(* Slip: the batch ends one event late. *)
InsertInBatchLate(c) ==
  /\ call[c].pc = "inserting" /\ call[c].batch
  /\ Free(c)
  /\ call' = [call EXCEPT
       ![c].pc = IF call[c].left = 0 THEN "committing" ELSE "resumed",
       ![c].left = call[c].left - 1,
       ![c].held = call[c].held \cup {RowOf(c)}]
  /\ UNCHANGED <<rows, position, boot, restarts>>

(* Slip: the rows are saved with the repository, outside the transaction. *)
InsertInBatchAtOnce(c) ==
  /\ call[c].pc = "inserting" /\ call[c].batch
  /\ Free(c)
  /\ rows' = rows \cup {RowOf(c)}
  /\ call' = [call EXCEPT
       ![c].pc = IF call[c].left = 1 THEN "committing" ELSE "resumed",
       ![c].left = call[c].left - 1]
  /\ UNCHANGED <<position, boot, restarts>>

(* An appendEvents stores its rows in one transaction, one insert at a time. *)
InsertInBatch(c) ==
  /\ call[c].pc = "inserting" /\ call[c].batch
  /\ Free(c)
  /\ call' = [call EXCEPT
       ![c].pc = IF call[c].left = 1 THEN "committing" ELSE "resumed",
       ![c].left = call[c].left - 1,
       ![c].held = call[c].held \cup {RowOf(c)}]
  /\ UNCHANGED <<rows, position, boot, restarts>>

Commit(c) ==
  /\ call[c].pc = "committing"
  /\ rows' = rows \cup call[c].held
  /\ \E pc \in {"done", "failed"} : End(c, pc)
  /\ UNCHANGED <<position, boot, restarts>>

(* The transaction is rolled back; the positions taken stay taken. *)
BatchViolation(c) ==
  /\ call[c].pc = "inserting" /\ call[c].batch
  /\ Taken(c)
  /\ End(c, "failed")
  /\ UNCHANGED <<rows, position, boot, restarts>>

(* A query that fails for any other reason. *)
DatabaseError(c) ==
  /\ call[c].pc \in {"reading", "inserting", "committing"}
  /\ End(c, "failed")
  /\ UNCHANGED <<rows, position, boot, restarts>>

(* The process is restarted: its calls are gone, its open transactions      *)
(* rolled back, and the count of positions starts anew.                     *)
Restart ==
  /\ restarts < MaxRestarts
  /\ restarts' = restarts + 1
  /\ position' = Num(0)
  /\ boot' = [pc |-> "asked", value |-> Num(0)]
  /\ call' = [c \in Calls |-> IF call[c].pc \in {"new", "done", "failed"}
                              THEN call[c] ELSE Ended(call[c], "failed")]
  /\ UNCHANGED rows

Next ==
  \/ BootQuery \/ BootAssign \/ Restart
  \/ \E c \in Calls :
       \/ \E s \in Streams : \E e \in KnownVersions(s) :
            \/ AppendEvent(c, s, e)
            \/ \E n \in 1..MaxBatch : AppendEvents(c, s, e, n)
       \/ GetCurrentStreamVersion(c) \/ Refuse(c) \/ Prepare(c)
       \/ InsertEvent(c) \/ UniqueViolation(c)
       \/ InsertInBatch(c) \/ Commit(c) \/ BatchViolation(c) \/ DatabaseError(c)

Spec == Init /\ [][Next]_vars

-----------------------------------------------------------------------------
(* Every stored value has its type. *)
TypeOK ==
  /\ rows \subseteq Row
  /\ position \in JsValue
  /\ boot \in [pc : {"asked", "answered", "done"}, value : JsValue]
  /\ call \in [Calls -> Call]
  /\ restarts \in 0..MaxRestarts

(* Of the appendEvent calls that expect the same version of a stream, at    *)
(* most one gets its event stored, whatever the calls read and however the  *)
(* inserts, batches, errors and restarts fall between them: the check, the  *)
(* version it leads to and the unique index together are the optimistic     *)
(* concurrency of appendEvent.                                              *)
ConditionalAppend(r) ==
  ~call[r.by].batch /\ call[r.by].expected # NoVersion

ExpectationMetOnce ==
  \A r, q \in rows :
    /\ ConditionalAppend(r) /\ ConditionalAppend(q)
    /\ r.stream = q.stream
    /\ call[r.by].expected = call[q.by].expected
    => r.by = q.by

(* appendEvents stores the events of a call all together or not at all: no  *)
(* reader, error, lost answer or restart finds a part of a batch, and a     *)
(* call that returned stored every event it was given.                      *)
BatchIsWhole ==
  \A c \in Calls : call[c].batch =>
    LET stored == {r \in rows : r.by = c} IN
    /\ stored # {} => call[c].pc \in {"done", "failed"} /\ call[c].left = 0
    /\ call[c].pc = "done" => stored # {}

(* The events of a stream have different versions, appendEvents and         *)
(* appendEvent mixed, and each version is the first or leads on from that   *)
(* of another event: by one, or by a digit where it was read back.          *)
VersionsFollow ==
  \A r \in rows :
    /\ \A q \in rows : SameKey(r, q) => r = q
    /\ r.version.val = 1 \/ \E q \in rows :
         q.stream = r.stream /\ r.version.val \in {q.version.val + 1, 10 * q.version.val + 1}

(* docs/ARCHITECTURE.md: each event has a unique global position. *)
PositionsAreUnique ==
  \A r, q \in rows : r.position = q.position => r = q
=============================================================================
