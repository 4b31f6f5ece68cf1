----------------------------- MODULE EventsProofs -----------------------------
(***************************************************************************)
(* Proofs about the event store and what reads it (MCEvents): each part's  *)
(* inductive invariant, and that the steps of the sum keep all of them.    *)
(***************************************************************************)
EXTENDS MCEvents, Sequences, SequenceTheorems, SumLemmas, TLAPS

(***************************************************************************)
(* The event store: types, whole batches and conditional appends.  A       *)
(* stream's current version is the Max of its versions, so the types need  *)
(* every set of stored versions and positions to have a maximum; that is   *)
(* part of the inductive invariant.                                        *)
(***************************************************************************)
HasMaximum(ns) == ns = {} \/ \E m \in ns : \A n \in ns : n <= m

Versions(rs, s) == {r.version.val : r \in {q \in rs : q.stream = s}}
Positions(rs)   == {r.position : r \in rs}

Topped(rs) ==
  /\ \A s \in Streams : HasMaximum(Versions(rs, s))
  /\ HasMaximum(Positions(rs))

MaximaExist ==
  /\ Topped(rows)
  /\ \A c \in Calls : Topped(call[c].held)

(* What a call holds is its own, and a call in its loop has events left. *)
HeldIsOwn ==
  \A c \in Calls : \A r \in call[c].held :
    r.by = c /\ call[c].pc \in {"resumed", "inserting", "committing"} /\ call[c].batch

LoopHasEvents ==
  \A c \in Calls :
    /\ call[c].pc \in {"reading", "resumed", "inserting"} => call[c].left # 0
    /\ call[c].pc = "committing" =>
         call[c].batch /\ call[c].left = 0 /\ call[c].held # {}

(* A stored row was written by a call that has ended. *)
RowsAreFinal ==
  \A r \in rows :
    /\ call[r.by].pc \in {"done", "failed"}
    /\ call[r.by].batch => call[r.by].left = 0

DoneIsStored ==
  \A c \in Calls : call[c].batch /\ call[c].pc = "done" => \E r \in rows : r.by = c

(* A conditional append writes the version after the one it expected. *)
Conditional(c) == ~call[c].batch /\ call[c].expected # NoVersion

ConditionalVersion ==
  /\ \A c \in Calls : Conditional(c) /\ call[c].pc = "inserting" =>
       call[c].current = PlusOne(call[c].expected)
  /\ \A r \in rows : ConditionalAppend(r) => r.version = PlusOne(call[r.by].expected)

(* The unique index, among the rows of appendEvent. *)
SingleKeys ==
  \A r, q \in rows :
    ~call[r.by].batch /\ ~call[q.by].batch /\ SameKey(r, q) => r = q

Inv ==
  /\ TypeOK /\ MaximaExist
  /\ HeldIsOwn /\ LoopHasEvents /\ RowsAreFinal /\ DoneIsStored
  /\ ConditionalVersion /\ SingleKeys

-----------------------------------------------------------------------------
(* Counting up and down stays within the values the service can hold. *)
LEMMA JsArithmetic ==
  ASSUME NEW x \in JsValue
  PROVE  PlusOne(x) \in JsValue /\ MinusOne(x) \in JsValue
  BY DEF JsValue, PlusOne, MinusOne, Num

LEMMA JsConstructors ==
  ASSUME NEW n \in Int
  PROVE  Num(n) \in JsValue /\ Text(n) \in JsValue
  BY DEF JsValue, Num, Text

(* The Max of a set that has a maximum is a member of it. *)
LEMMA MaxIsMember ==
  ASSUME NEW ns, HasMaximum(ns), ns # {}
  PROVE  Max(ns) \in ns
  BY DEF HasMaximum, Max

LEMMA UnionHasMaximum ==
  ASSUME NEW ns, NEW T, ns \subseteq Int, T \subseteq Int, HasMaximum(ns), HasMaximum(T)
  PROVE  HasMaximum(ns \cup T)
<1>1. CASE ns = {}
  BY <1>1, ns \cup T = T
<1>2. CASE T = {}
  BY <1>2, ns \cup T = ns
<1>3. CASE ns # {} /\ T # {}
  <2>1. PICK m \in ns : \A n \in ns : n <= m
    BY <1>3 DEF HasMaximum
  <2>2. PICK k \in T : \A n \in T : n <= k
    BY <1>3 DEF HasMaximum
  <2>3. m \in Int /\ k \in Int
    OBVIOUS
  <2>4. CASE k <= m
    <3>1. \A n \in ns \cup T : n <= m
      BY <2>1, <2>2, <2>3, <2>4
    <3> QED
      BY <2>1, <3>1 DEF HasMaximum
  <2>5. CASE m <= k
    <3>1. \A n \in ns \cup T : n <= k
      BY <2>1, <2>2, <2>3, <2>5
    <3> QED
      BY <2>2, <3>1 DEF HasMaximum
  <2> QED
    BY <2>3, <2>4, <2>5
<1> QED
  BY <1>1, <1>2, <1>3

LEMMA UnionIsTopped ==
  ASSUME NEW rs \in SUBSET Row, NEW T \in SUBSET Row, Topped(rs), Topped(T)
  PROVE  Topped(rs \cup T)
<1>1. ASSUME NEW s \in Streams PROVE HasMaximum(Versions(rs \cup T, s))
  <2>1. Versions(rs \cup T, s) = Versions(rs, s) \cup Versions(T, s)
    BY DEF Versions
  <2>2. Versions(rs, s) \subseteq Int /\ Versions(T, s) \subseteq Int
    BY DEF Versions, Row, JsValue
  <2> QED
    BY <2>1, <2>2, UnionHasMaximum DEF Topped
<1>2. HasMaximum(Positions(rs \cup T))
  <2>1. Positions(rs \cup T) = Positions(rs) \cup Positions(T)
    BY DEF Positions
  <2>2. Positions(rs) \subseteq Int /\ Positions(T) \subseteq Int
    BY DEF Positions, Row
  <2> QED
    BY <2>1, <2>2, UnionHasMaximum DEF Topped
<1> QED
  BY <1>1, <1>2 DEF Topped

LEMMA SmallIsTopped ==
  /\ Topped({})
  /\ \A r \in Row : Topped({r})
<1>1. Topped({})
  <2>1. Positions({}) = {} /\ \A s \in Streams : Versions({}, s) = {}
    BY DEF Positions, Versions
  <2> QED
    BY <2>1 DEF Topped, HasMaximum
<1>2. ASSUME NEW r \in Row PROVE Topped({r})
  <2>1. r.position \in Int /\ r.version.val \in Int
    BY DEF Row, JsValue
  <2>2. Positions({r}) = {r.position}
    BY DEF Positions
  <2>3. ASSUME NEW s \in Streams
        PROVE  Versions({r}, s) = {} \/ Versions({r}, s) = {r.version.val}
    BY DEF Versions
  <2> QED
    BY <2>1, <2>2, <2>3 DEF Topped, HasMaximum
<1> QED
  BY <1>1, <1>2

LEMMA CurrentVersionType ==
  ASSUME TypeOK, Topped(rows), NEW s \in Streams
  PROVE  CurrentVersion(s) \in JsValue
<1>1. Versions(rows, s) \subseteq Int
  BY DEF Versions, TypeOK, Row, JsValue
<1>2. CASE Versions(rows, s) = {}
  BY <1>2, JsConstructors DEF CurrentVersion, Versions
<1>3. CASE Versions(rows, s) # {}
  <2>1. Max(Versions(rows, s)) \in Int
    BY <1>1, <1>3, MaxIsMember DEF Topped
  <2>2. CurrentVersion(s) = Text(Max(Versions(rows, s)))
    BY <1>3 DEF CurrentVersion, Versions
  <2> QED
    BY <2>1, <2>2, JsConstructors
<1> QED
  BY <1>2, <1>3

LEMMA LatestPositionType ==
  ASSUME TypeOK, Topped(rows)
  PROVE  LatestPosition \in JsValue
<1>1. Positions(rows) \subseteq Int
  BY DEF Positions, TypeOK, Row
<1>2. CASE rows = {}
  BY <1>2, JsConstructors DEF LatestPosition
<1>3. CASE rows # {}
  <2>0. Positions(rows) # {}
    BY <1>3 DEF Positions
  <2>1. Max(Positions(rows)) \in Int
    BY <1>1, <2>0, MaxIsMember DEF Topped
  <2>2. LatestPosition = Text(Max(Positions(rows)))
    BY <1>3 DEF LatestPosition, Positions
  <2> QED
    BY <2>1, <2>2, JsConstructors
<1> QED
  BY <1>2, <1>3

LEMMA KnownVersionsType ==
  ASSUME TypeOK, NEW s \in Streams
  PROVE  KnownVersions(s) \subseteq JsValue \cup {NoVersion}
<1>1. \A r \in rows : r.version \in JsValue /\ Text(r.version.val) \in JsValue
  BY JsConstructors DEF TypeOK, Row, JsValue
<1> QED
  BY <1>1, JsConstructors DEF KnownVersions

LEMMA NewCallType == NewCall \in Call
<1>1. (CHOOSE s \in Streams : TRUE) \in Streams
  BY ConstantsAssumption
<1>2. Num(0) \in JsValue
  BY JsConstructors
<1> QED
  BY <1>1, <1>2, ConstantsAssumption DEF NewCall, Bare, Call

(* An ended call keeps what it was asked and holds nothing. *)
LEMMA EndedCall ==
  ASSUME NEW q \in Call, NEW pc \in {"done", "failed"}
  PROVE  /\ Ended(q, pc) \in Call
         /\ Ended(q, pc).pc = pc /\ Ended(q, pc).held = {}
         /\ Ended(q, pc).batch = q.batch /\ Ended(q, pc).left = q.left
         /\ Ended(q, pc).expected = q.expected /\ Ended(q, pc).stream = q.stream
<1>1. Num(0) \in JsValue
  BY JsConstructors
<1> QED
  BY <1>1 DEF Ended, Bare, Call

LEMMA RowOfType ==
  ASSUME TypeOK, NEW c \in Calls
  PROVE  /\ RowOf(c) \in Row /\ RowOf(c).by = c
         /\ RowOf(c).version = call[c].current /\ RowOf(c).stream = call[c].stream
  BY DEF RowOf, Row, TypeOK, Call

-----------------------------------------------------------------------------
(* A step of one call that stores no row keeps the invariant, if the call   *)
(* has not ended before the step, holds rows of its own after it, and is    *)
(* about to insert the right version.                                       *)
LEMMA CallStep ==
  ASSUME Inv, NEW c \in Calls, call[c].pc \notin {"done", "failed"},
         call' \in [Calls -> Call],
         \A d \in Calls \ {c} : call'[d] = call[d],
         rows' = rows, position' \in JsValue, boot' = boot, restarts' = restarts,
         Topped(call'[c].held),
         \A r \in call'[c].held :
           /\ r.by = c /\ call'[c].batch
           /\ call'[c].pc \in {"resumed", "inserting", "committing"},
         call'[c].pc \in {"reading", "resumed", "inserting"} => call'[c].left # 0,
         call'[c].pc = "committing" =>
           call'[c].batch /\ call'[c].left = 0 /\ call'[c].held # {},
         call'[c].pc # "done",
         ~call'[c].batch /\ call'[c].expected # NoVersion /\ call'[c].pc = "inserting"
           => call'[c].current = PlusOne(call'[c].expected)
  PROVE  Inv'
<1>1. \A r \in rows : r.by \in Calls /\ r.by # c /\ call'[r.by] = call[r.by]
  BY DEF Inv, RowsAreFinal, TypeOK, Row
<1>2. TypeOK'
  BY DEF Inv, TypeOK
<1>3. MaximaExist'
  <2>1. \A d \in Calls : Topped(call'[d].held)
    BY DEF Inv, MaximaExist
  <2>2. Topped(rows')
    BY DEF Inv, MaximaExist
  <2> QED
    BY <2>1, <2>2 DEF MaximaExist, Topped
<1>4. HeldIsOwn'
  BY DEF Inv, HeldIsOwn
<1>5. LoopHasEvents'
  BY DEF Inv, LoopHasEvents
<1>6. RowsAreFinal'
  BY <1>1 DEF Inv, RowsAreFinal
<1>7. DoneIsStored'
  BY DEF Inv, DoneIsStored
<1>8. ConditionalVersion'
  BY <1>1 DEF Inv, ConditionalVersion, Conditional, ConditionalAppend
<1>9. SingleKeys'
  BY <1>1 DEF Inv, SingleKeys
<1> QED
  BY <1>2, <1>3, <1>4, <1>5, <1>6, <1>7, <1>8, <1>9 DEF Inv

(* A call that ends and stores rows of its own keeps the invariant.         *)
LEMMA StoreStep ==
  ASSUME Inv, NEW c \in Calls, call[c].pc \notin {"done", "failed"},
         NEW pc \in {"done", "failed"}, End(c, pc),
         NEW T \in SUBSET Row, T # {}, Topped(T), \A r \in T : r.by = c,
         rows' = rows \cup T, UNCHANGED <<position, boot, restarts>>,
         call[c].batch => call[c].left = 0,
         ~call[c].batch => \E r \in T :
           T = {r} /\ \A q \in rows : ~SameKey(q, r),
         Conditional(c) => \A r \in T : r.version = PlusOne(call[c].expected)
  PROVE  Inv'
<1>0. call \in [Calls -> Call] /\ rows \subseteq Row
  BY DEF Inv, TypeOK
<1>1. /\ call'[c] \in Call /\ call'[c].pc = pc /\ call'[c].held = {}
      /\ call'[c].batch = call[c].batch /\ call'[c].left = call[c].left
      /\ call'[c].expected = call[c].expected /\ call'[c].stream = call[c].stream
  BY <1>0, EndedCall DEF End
<1>2. \A d \in Calls \ {c} : call'[d] = call[d]
  BY <1>0 DEF End
<1>3. call' \in [Calls -> Call]
  BY <1>0, <1>1, <1>2 DEF End
<1>4. \A r \in rows : r.by \in Calls /\ r.by # c /\ call'[r.by] = call[r.by]
  BY <1>2 DEF Inv, RowsAreFinal, TypeOK, Row
<1>5. TypeOK'
  BY <1>3 DEF Inv, TypeOK
<1>6. MaximaExist'
  <2>1. \A d \in Calls : Topped(call'[d].held)
    BY <1>1, <1>2, SmallIsTopped DEF Inv, MaximaExist
  <2>2. Topped(rows')
    BY <1>0, UnionIsTopped DEF Inv, MaximaExist
  <2> QED
    BY <2>1, <2>2 DEF MaximaExist, Topped
<1>7. HeldIsOwn'
  BY <1>1, <1>2 DEF Inv, HeldIsOwn
<1>8. LoopHasEvents'
  BY <1>1, <1>2 DEF Inv, LoopHasEvents
<1>9. RowsAreFinal'
  BY <1>1, <1>4 DEF Inv, RowsAreFinal
<1>10. DoneIsStored'
  BY <1>1, <1>2 DEF Inv, DoneIsStored
<1>11. ConditionalVersion'
  <2>1. ASSUME NEW d \in Calls, Conditional(d)', call'[d].pc = "inserting"
        PROVE  call'[d].current = PlusOne(call'[d].expected)
    BY <1>1, <1>2, <2>1 DEF Inv, ConditionalVersion, Conditional
  <2>2. ASSUME NEW r \in rows', ConditionalAppend(r)'
        PROVE  r.version = PlusOne(call'[r.by].expected)
    <3>1. CASE r \in rows
      BY <1>4, <2>2, <3>1 DEF Inv, ConditionalVersion, ConditionalAppend
    <3>2. CASE r \in T
      BY <1>1, <2>2, <3>2 DEF Conditional, ConditionalAppend
    <3> QED
      BY <3>1, <3>2
  <2> QED
    BY <2>1, <2>2 DEF ConditionalVersion
<1>12. SingleKeys'
  <2> SUFFICES ASSUME NEW r \in rows', NEW q \in rows',
                      ~call'[r.by].batch, ~call'[q.by].batch, SameKey(r, q)
               PROVE  r = q
    BY DEF SingleKeys, SameKey
  <2>1. CASE r \in rows /\ q \in rows
    BY <1>4, <2>1 DEF Inv, SingleKeys
  <2>2. CASE r \in T /\ q \in T
    BY <1>1, <2>2
  <2>3. CASE r \in rows /\ q \in T
    BY <1>1, <2>3
  <2>4. CASE r \in T /\ q \in rows
    BY <1>1, <2>4 DEF SameKey
  <2> QED
    BY <2>1, <2>2, <2>3, <2>4
<1> QED
  BY <1>5, <1>6, <1>7, <1>8, <1>9, <1>10, <1>11, <1>12 DEF Inv

-----------------------------------------------------------------------------
(* What CallStep needs to know of a call before its step. *)
LEMMA CallFacts ==
  ASSUME Inv, NEW c \in Calls
  PROVE  /\ call \in [Calls -> Call] /\ call[c] \in Call
         /\ rows \subseteq Row /\ position \in JsValue
         /\ Topped(call[c].held)
  BY DEF Inv, TypeOK, MaximaExist

LEMMA AppendKeepsInv ==
  ASSUME Inv, NEW c \in Calls, NEW s \in Streams, NEW e \in KnownVersions(s),
         \/ AppendEvent(c, s, e)
         \/ \E n \in 1..MaxBatch : AppendEvents(c, s, e, n)
  PROVE  Inv'
<1>0. call \in [Calls -> Call] /\ position \in JsValue
  BY CallFacts
<1>1. e \in JsValue \cup {NoVersion} /\ Num(0) \in JsValue
  BY KnownVersionsType, JsConstructors DEF Inv
<1>2. Topped({})
  BY SmallIsTopped
<1>3. CASE AppendEvent(c, s, e)
  <2>1. Bare("reading", FALSE, s, e, 1, Num(0)) \in Call
    BY <1>1, ConstantsAssumption DEF Bare, Call
  <2>2. /\ call'[c] = Bare("reading", FALSE, s, e, 1, Num(0))
        /\ call' \in [Calls -> Call] /\ \A d \in Calls \ {c} : call'[d] = call[d]
    BY <1>0, <1>3, <2>1 DEF AppendEvent
  <2>3. /\ call'[c].pc = "reading" /\ call'[c].held = {} /\ call'[c].left # 0
        /\ Topped(call'[c].held)
    BY <1>2, <2>2 DEF Bare
  <2>4. /\ call[c].pc \notin {"done", "failed"}
        /\ rows' = rows /\ position' = position /\ boot' = boot /\ restarts' = restarts
    BY <1>3 DEF AppendEvent
  <2>5. \A r \in call'[c].held : FALSE
    BY <2>3
  <2> QED
    BY <1>0, <2>2, <2>3, <2>4, <2>5, CallStep
<1>4. CASE \E n \in 1..MaxBatch : AppendEvents(c, s, e, n)
  <2>0. PICK n \in 1..MaxBatch : AppendEvents(c, s, e, n)
    BY <1>4
  <2> DEFINE asked == IF e = NoVersion THEN Bare("reading", TRUE, s, e, n, Num(0))
                                       ELSE Bare("resumed", TRUE, s, e, n, e)
  <2>1. asked \in Call
    BY <1>1, ConstantsAssumption DEF Bare, Call
  <2>2. /\ asked.pc \in {"reading", "resumed"} /\ asked.held = {}
        /\ asked.left = n /\ asked.batch
    BY DEF Bare
  <2>3. /\ call'[c] = asked
        /\ call' \in [Calls -> Call] /\ \A d \in Calls \ {c} : call'[d] = call[d]
    BY <1>0, <2>0, <2>1 DEF AppendEvents
  <2>4. /\ call[c].pc \notin {"done", "failed"}
        /\ rows' = rows /\ position' = position /\ boot' = boot /\ restarts' = restarts
    BY <2>0 DEF AppendEvents
  <2> HIDE DEF asked
  <2>5. n # 0
    BY <2>0, ConstantsAssumption
  <2>6. /\ call'[c].pc \in {"reading", "resumed"} /\ call'[c].held = {}
        /\ call'[c].left # 0 /\ call'[c].batch
    BY <2>2, <2>3, <2>5
  <2>7. Topped(call'[c].held)
    BY <1>2, <2>6
  <2> QED
    BY <1>0, <2>3, <2>4, <2>6, <2>7, CallStep
<1> QED
  BY <1>3, <1>4

LEMMA ReadKeepsInv ==
  ASSUME Inv, NEW c \in Calls, GetCurrentStreamVersion(c)
  PROVE  Inv'
<1>0. /\ call \in [Calls -> Call] /\ call[c] \in Call
      /\ position \in JsValue /\ Topped(call[c].held)
  BY CallFacts
<1>1. CurrentVersion(call[c].stream) \in JsValue
  BY <1>0, CurrentVersionType DEF Inv, MaximaExist, Call
<1>2. /\ call' \in [Calls -> Call] /\ \A d \in Calls \ {c} : call'[d] = call[d]
      /\ call'[c].pc = "resumed"
      /\ call'[c].batch = call[c].batch /\ call'[c].left = call[c].left
      /\ call'[c].held = call[c].held
  BY <1>0, <1>1 DEF GetCurrentStreamVersion, Call
<1>3. /\ call[c].pc = "reading"
      /\ rows' = rows /\ position' = position /\ boot' = boot /\ restarts' = restarts
  BY DEF GetCurrentStreamVersion
<1>4. call[c].left # 0 /\ \A r \in call[c].held : FALSE
  BY <1>3 DEF Inv, LoopHasEvents, HeldIsOwn
<1> QED
  BY <1>0, <1>2, <1>3, <1>4, CallStep

(* A call that ends without storing anything. *)
LEMMA FailureKeepsInv ==
  ASSUME Inv, NEW c \in Calls, call[c].pc \notin {"done", "failed"},
         End(c, "failed"), position' \in JsValue,
         UNCHANGED <<rows, boot, restarts>>
  PROVE  Inv'
<1>0. call \in [Calls -> Call] /\ call[c] \in Call
  BY CallFacts
<1>1. call'[c] \in Call /\ call'[c].pc = "failed" /\ call'[c].held = {}
  BY <1>0, EndedCall DEF End
<1>2. call' \in [Calls -> Call] /\ \A d \in Calls \ {c} : call'[d] = call[d]
  BY <1>0, <1>1 DEF End
<1> QED
  BY <1>1, <1>2, SmallIsTopped, CallStep

LEMMA PrepareKeepsInv ==
  ASSUME Inv, NEW c \in Calls, Prepare(c)
  PROVE  Inv'
<1>0. /\ call \in [Calls -> Call] /\ call[c] \in Call
      /\ position \in JsValue /\ Topped(call[c].held)
  BY CallFacts
<1>1. PlusOne(call[c].current) \in JsValue /\ position' \in JsValue
  BY <1>0, JsArithmetic DEF Prepare, Call
<1>2. position'.val \in Int
  BY <1>1 DEF JsValue
<1>3. /\ call' \in [Calls -> Call] /\ \A d \in Calls \ {c} : call'[d] = call[d]
      /\ call'[c].pc = "inserting" /\ call'[c].current = PlusOne(call[c].current)
      /\ call'[c].batch = call[c].batch /\ call'[c].left = call[c].left
      /\ call'[c].held = call[c].held /\ call'[c].expected = call[c].expected
  BY <1>0, <1>1, <1>2 DEF Prepare, Call
<1>4. /\ call[c].pc = "resumed" /\ ~Mismatch(c)
      /\ rows' = rows /\ boot' = boot /\ restarts' = restarts
  BY DEF Prepare
<1>5. Conditional(c) => call[c].current = call[c].expected
  BY <1>4 DEF Mismatch, Conditional
<1>6. call[c].left # 0 /\ \A r \in call[c].held : r.by = c /\ call[c].batch
  BY <1>4 DEF Inv, LoopHasEvents, HeldIsOwn
<1> QED
  BY <1>0, <1>1, <1>3, <1>4, <1>5, <1>6, CallStep DEF Conditional

LEMMA InsertInBatchKeepsInv ==
  ASSUME Inv, NEW c \in Calls, InsertInBatch(c)
  PROVE  Inv'
<1>0. /\ call \in [Calls -> Call] /\ call[c] \in Call
      /\ position \in JsValue /\ Topped(call[c].held)
  BY CallFacts
<1>1. RowOf(c) \in Row /\ RowOf(c).by = c
  BY RowOfType DEF Inv
<1>2. /\ call[c].pc = "inserting" /\ call[c].batch
      /\ rows' = rows /\ position' = position /\ boot' = boot /\ restarts' = restarts
  BY DEF InsertInBatch
<1>3. call[c].left \in 1..MaxBatch
  BY <1>0, <1>2, ConstantsAssumption DEF Inv, LoopHasEvents, Call
<1>4. call[c].left - 1 \in 0..MaxBatch
  BY <1>3, ConstantsAssumption
<1>5. call[c].held \cup {RowOf(c)} \in SUBSET Row
  BY <1>0, <1>1 DEF Call
<1>6. /\ call' \in [Calls -> Call] /\ \A d \in Calls \ {c} : call'[d] = call[d]
      /\ call'[c].pc = IF call[c].left = 1 THEN "committing" ELSE "resumed"
      /\ call'[c].batch /\ call'[c].left = call[c].left - 1
      /\ call'[c].held = call[c].held \cup {RowOf(c)}
  BY <1>0, <1>2, <1>4, <1>5 DEF InsertInBatch, Call
<1>7. Topped(call'[c].held)
  <2>1. call[c].held \in SUBSET Row /\ {RowOf(c)} \in SUBSET Row
    BY <1>0, <1>1 DEF Call
  <2>2. Topped({RowOf(c)})
    BY <1>1, SmallIsTopped
  <2>3. Topped(call[c].held \cup {RowOf(c)})
    BY <1>0, <2>1, <2>2, UnionIsTopped
  <2> QED
    BY <1>6, <2>3
<1>8. \A r \in call'[c].held : r.by = c
  BY <1>1, <1>6 DEF Inv, HeldIsOwn
<1>9. call'[c].pc = "committing" => call'[c].left = 0
  BY <1>3, <1>6
<1>10. call'[c].pc = "resumed" => call'[c].left # 0
  BY <1>3, <1>6
<1> QED
  BY <1>0, <1>2, <1>6, <1>7, <1>8, <1>9, <1>10, CallStep

LEMMA InsertEventKeepsInv ==
  ASSUME Inv, NEW c \in Calls, InsertEvent(c)
  PROVE  Inv'
<1>1. /\ RowOf(c) \in Row /\ RowOf(c).by = c /\ RowOf(c).version = call[c].current
  BY RowOfType DEF Inv
<1>2. PICK pc \in {"done", "failed"} : End(c, pc)
  BY DEF InsertEvent
<1>3. /\ call[c].pc = "inserting" /\ ~call[c].batch
      /\ rows' = rows \cup {RowOf(c)} /\ UNCHANGED <<position, boot, restarts>>
  BY DEF InsertEvent
<1>4. \A q \in rows : ~SameKey(q, RowOf(c))
  BY DEF InsertEvent, Free, Taken
<1>5. Conditional(c) => RowOf(c).version = PlusOne(call[c].expected)
  BY <1>1, <1>3 DEF Inv, ConditionalVersion
<1>6. Topped({RowOf(c)})
  BY <1>1, SmallIsTopped
<1> DEFINE T == {RowOf(c)}
<1>7. /\ T \in SUBSET Row /\ T # {} /\ Topped(T) /\ \A r \in T : r.by = c
      /\ rows' = rows \cup T
      /\ \E r \in T : T = {r} /\ \A q \in rows : ~SameKey(q, r)
      /\ Conditional(c) => \A r \in T : r.version = PlusOne(call[c].expected)
  BY <1>1, <1>3, <1>4, <1>5, <1>6
<1> HIDE DEF T
<1> QED
  BY <1>2, <1>3, <1>7, StoreStep

LEMMA CommitKeepsInv ==
  ASSUME Inv, NEW c \in Calls, Commit(c)
  PROVE  Inv'
<1>0. call[c] \in Call /\ Topped(call[c].held)
  BY CallFacts
<1>1. PICK pc \in {"done", "failed"} : End(c, pc)
  BY DEF Commit
<1>2. /\ call[c].pc = "committing"
      /\ rows' = rows \cup call[c].held /\ UNCHANGED <<position, boot, restarts>>
  BY DEF Commit
<1>3. call[c].batch /\ call[c].left = 0 /\ call[c].held # {}
  BY <1>2 DEF Inv, LoopHasEvents
<1>4. call[c].held \in SUBSET Row /\ \A r \in call[c].held : r.by = c
  BY <1>0 DEF Call, Inv, HeldIsOwn
<1> QED
  BY <1>0, <1>1, <1>2, <1>3, <1>4, StoreStep DEF Conditional

LEMMA InitKeepsInv == Init => Inv
<1> SUFFICES ASSUME Init PROVE Inv
  OBVIOUS
<1>1. NewCall \in Call /\ Num(0) \in JsValue
  BY NewCallType, JsConstructors
<1>2. /\ rows = {} /\ position = Num(0) /\ restarts = 0
      /\ boot = [pc |-> "asked", value |-> Num(0)]
  BY DEF Init
<1>3. call \in [Calls -> Call] /\ \A c \in Calls : call[c] = NewCall
  BY <1>1 DEF Init
<1>4. NewCall.pc = "new" /\ ~NewCall.batch /\ NewCall.held = {}
  BY DEF NewCall, Bare
<1>5. TypeOK
  BY <1>1, <1>2, <1>3, ConstantsAssumption DEF TypeOK
<1>6. MaximaExist
  BY <1>2, <1>3, <1>4, SmallIsTopped DEF MaximaExist
<1>7. HeldIsOwn /\ LoopHasEvents /\ DoneIsStored
  BY <1>3, <1>4 DEF HeldIsOwn, LoopHasEvents, DoneIsStored
<1>8. RowsAreFinal /\ ConditionalVersion /\ SingleKeys
  BY <1>2, <1>3, <1>4 DEF RowsAreFinal, ConditionalVersion, SingleKeys
<1> QED
  BY <1>5, <1>6, <1>7, <1>8 DEF Inv

(* A step that moves no call and stores no row keeps all but the types. *)
LEMMA QuietStep ==
  ASSUME Inv, rows' = rows, call' = call, TypeOK'
  PROVE  Inv'
<1>1. MaximaExist' /\ HeldIsOwn' /\ LoopHasEvents'
  BY DEF Inv, MaximaExist, Topped, HeldIsOwn, LoopHasEvents
<1>2. RowsAreFinal' /\ DoneIsStored'
  BY DEF Inv, RowsAreFinal, DoneIsStored
<1>3. ConditionalVersion' /\ SingleKeys'
  BY DEF Inv, ConditionalVersion, Conditional, ConditionalAppend, SingleKeys
<1> QED
  BY <1>1, <1>2, <1>3 DEF Inv

LEMMA BootKeepsInv ==
  ASSUME Inv, BootQuery \/ BootAssign
  PROVE  Inv'
<1>1. LatestPosition \in JsValue
  BY LatestPositionType DEF Inv, MaximaExist
<1>2. CASE BootQuery
  <2>1. TypeOK'
    BY <1>1, <1>2 DEF Inv, TypeOK, BootQuery
  <2> QED
    BY <1>2, <2>1, QuietStep DEF BootQuery
<1>3. CASE BootAssign
  <2>1. TypeOK'
    BY <1>3 DEF Inv, TypeOK, BootAssign
  <2> QED
    BY <1>3, <2>1, QuietStep DEF BootAssign
<1> QED
  BY <1>2, <1>3

LEMMA RestartKeepsInv ==
  ASSUME Inv, Restart
  PROVE  Inv'
<1>0. call \in [Calls -> Call] /\ rows \subseteq Row /\ Num(0) \in JsValue
  BY JsConstructors DEF Inv, TypeOK
<1>1. /\ rows' = rows /\ position' = Num(0) /\ restarts' = restarts + 1
      /\ boot' = [pc |-> "asked", value |-> Num(0)] /\ restarts < MaxRestarts
  BY DEF Restart
<1>2. ASSUME NEW c \in Calls
      PROVE  /\ call'[c] \in Call /\ call'[c].held = {}
             /\ call'[c].pc \in {"new", "done", "failed"}
             /\ call'[c].batch = call[c].batch /\ call'[c].left = call[c].left
             /\ call'[c].expected = call[c].expected
             /\ call'[c].pc = "done" => call[c].pc = "done"
             /\ call[c].pc \in {"done", "failed"} => call'[c].pc = call[c].pc
  <2>1. CASE call[c].pc \in {"new", "done", "failed"}
    <3>1. call'[c] = call[c]
      BY <2>1 DEF Restart
    <3>2. call[c].held = {}
      BY <2>1 DEF Inv, HeldIsOwn
    <3> QED
      BY <1>0, <2>1, <3>1, <3>2
  <2>2. CASE call[c].pc \notin {"new", "done", "failed"}
    <3>1. call'[c] = Ended(call[c], "failed")
      BY <2>2 DEF Restart
    <3> QED
      BY <1>0, <2>2, <3>1, EndedCall
  <2> QED
    BY <2>1, <2>2
<1>3. call' \in [Calls -> Call]
  BY <1>2 DEF Restart
<1>4. TypeOK'
  BY <1>0, <1>1, <1>3, ConstantsAssumption DEF Inv, TypeOK
<1>5. MaximaExist'
  BY <1>1, <1>2, SmallIsTopped DEF Inv, MaximaExist, Topped
<1>6. HeldIsOwn' /\ LoopHasEvents'
  BY <1>2 DEF HeldIsOwn, LoopHasEvents
<1>7. RowsAreFinal' /\ DoneIsStored'
  BY <1>0, <1>1, <1>2 DEF Inv, RowsAreFinal, DoneIsStored, Row
<1>8. ConditionalVersion' /\ SingleKeys'
  <2>1. \A r \in rows : r.by \in Calls
    BY <1>0 DEF Row
  <2> QED
    BY <1>1, <1>2, <2>1
    DEF Inv, ConditionalVersion, Conditional, ConditionalAppend, SingleKeys
<1> QED
  BY <1>4, <1>5, <1>6, <1>7, <1>8 DEF Inv

LEMMA NextKeepsInv == Inv /\ [Next]_vars => Inv'
<1> SUFFICES ASSUME Inv, [Next]_vars PROVE Inv'
  OBVIOUS
<1>1. CASE BootQuery \/ BootAssign
  BY <1>1, BootKeepsInv
<1>2. CASE Restart
  BY <1>2, RestartKeepsInv
<1>3. ASSUME NEW c \in Calls, NEW s \in Streams, NEW e \in KnownVersions(s),
             \/ AppendEvent(c, s, e)
             \/ \E n \in 1..MaxBatch : AppendEvents(c, s, e, n)
      PROVE  Inv'
  BY <1>3, AppendKeepsInv
<1>4. ASSUME NEW c \in Calls,
             Refuse(c) \/ UniqueViolation(c) \/ BatchViolation(c) \/ DatabaseError(c)
      PROVE  Inv'
  <2>1. position \in JsValue /\ MinusOne(position) \in JsValue
    BY CallFacts, <1>4, JsArithmetic
  <2>2. /\ call[c].pc \notin {"done", "failed"} /\ End(c, "failed")
        /\ UNCHANGED <<rows, boot, restarts>>
        /\ position' = position \/ position' = MinusOne(position)
    BY <1>4 DEF Refuse, UniqueViolation, BatchViolation, DatabaseError
  <2> QED
    BY <2>1, <2>2, FailureKeepsInv
<1>5. ASSUME NEW c \in Calls,
             \/ GetCurrentStreamVersion(c) \/ Prepare(c) \/ InsertInBatch(c)
             \/ InsertEvent(c) \/ Commit(c)
      PROVE  Inv'
  BY <1>5, ReadKeepsInv, PrepareKeepsInv, InsertInBatchKeepsInv,
     InsertEventKeepsInv, CommitKeepsInv
<1>6. CASE UNCHANGED vars
  <2>1. TypeOK'
    BY <1>6 DEF Inv, TypeOK, vars
  <2> QED
    BY <1>6, <2>1, QuietStep DEF vars
<1> QED
  BY <1>1, <1>2, <1>3, <1>4, <1>5, <1>6 DEF Next

-----------------------------------------------------------------------------
(* Every stored value has its type, whatever is appended: the versions and  *)
(* positions that "1" + 1 leads to are still values the service can count   *)
(* with, and the invariant behind it holds in every reachable state.        *)
THEOREM EventStoreInvariant == Spec => []Inv
  BY InitKeepsInv, NextKeepsInv, PTL DEF Spec

(* At most one of the appendEvent calls that expect the same version of a   *)
(* stream gets its event stored, for any number of calls, streams, batch    *)
(* sizes and restarts.                                                      *)
THEOREM ConditionalAppendOnce == Spec => []ExpectationMetOnce
<1>1. Inv => ExpectationMetOnce
  <2> SUFFICES ASSUME Inv, NEW r \in rows, NEW q \in rows,
                      ConditionalAppend(r), ConditionalAppend(q),
                      r.stream = q.stream,
                      call[r.by].expected = call[q.by].expected
               PROVE  r.by = q.by
    BY DEF ExpectationMetOnce
  <2>1. r.version = q.version
    BY DEF Inv, ConditionalVersion
  <2>2. ~call[r.by].batch /\ ~call[q.by].batch /\ SameKey(r, q)
    BY <2>1 DEF ConditionalAppend, SameKey
  <2> QED
    BY <2>2 DEF Inv, SingleKeys
<1> QED
  BY <1>1, EventStoreInvariant, PTL

(* appendEvents stores the events of a call all together or not at all, for *)
(* any batch size and any interleaving with other calls and restarts.       *)
THEOREM BatchesAreWhole == Spec => []BatchIsWhole
<1>1. Inv => BatchIsWhole
  BY DEF Inv, BatchIsWhole, RowsAreFinal, DoneIsStored
<1> QED
  BY <1>1, EventStoreInvariant, PTL

(***************************************************************************)
(* The versions of a stream.  Rows that a transaction holds will be stored *)
(* together, so what they lead on from may be among them; and they are     *)
(* apart from what others hold, because an insert waits for those.         *)
(***************************************************************************)
IsVersion(rs, s, n) ==
  n = 1 \/ \E q \in rs : q.stream = s /\ n \in {q.version.val + 1, 10 * q.version.val + 1}

(* What a call counts on from: the number 0, or the version of an event.    *)
IsBase(rs, s, x) == (x.val = 0 /\ x.text = FALSE) \/ \E q \in rs : q.stream = s /\ q.version.val = x.val

Numbered(rs, s, n) == n >= 1 /\ IsVersion(rs, s, n)
RowsFollow(rs) ==
  \A r \in rs : Numbered(rs, r.stream, r.version.val) /\ \A q \in rs : SameKey(r, q) => r = q

CallFollows(rs, x) ==
  /\ RowsFollow(rs \cup x.held)
  /\ \A r \in x.held :
       /\ r.stream = x.stream
       /\ \A q \in rs : ~SameKey(r, q)
       /\ r.version.val <= x.current.val
       /\ x.pc = "inserting" => r.version.val < x.current.val
  /\ x.pc = "resumed" => IsBase(rs \cup x.held, x.stream, x.current)
  /\ x.pc = "inserting" => Numbered(rs \cup x.held, x.stream, x.current.val)

Apart(one, other) == \A r \in one, q \in other : ~SameKey(r, q)
FollowInv ==
  /\ RowsFollow(rows)
  /\ \A c \in Calls : CallFollows(rows, call[c])
  /\ \A c, d \in Calls : c # d => Apart(call[c].held, call[d].held)

LEMMA RowsAreNumbers ==
  ASSUME NEW r \in Row
  PROVE  r.version \in JsValue /\ r.version.val \in Int /\ r.version.text \in BOOLEAN /\ r.stream \in Streams
BY DEF Row, JsValue

LEMMA KeysAreSymmetric == \A r, q : SameKey(r, q) <=> SameKey(q, r)
BY DEF SameKey

(* With more rows, what was a version or a base still is one.               *)
LEMMA MoreRows ==
  ASSUME NEW rs, NEW more, rs \subseteq more, NEW s
  PROVE  /\ \A n : Numbered(rs, s, n) => Numbered(more, s, n)
         /\ \A x : IsBase(rs, s, x) => IsBase(more, s, x)
BY DEF Numbered, IsVersion, IsBase

LEMMA RowsUnite ==
  ASSUME NEW rs, NEW more, RowsFollow(rs), Apart(rs, more),
         \A r \in more : Numbered(rs \cup more, r.stream, r.version.val) /\ \A q \in more : SameKey(r, q) => r = q
  PROVE  RowsFollow(rs \cup more)
<1>1. \A s, n : Numbered(rs, s, n) => Numbered(rs \cup more, s, n)
  BY MoreRows
<1> SUFFICES ASSUME NEW r \in rs \cup more
             PROVE  /\ Numbered(rs \cup more, r.stream, r.version.val)
                    /\ \A q \in rs \cup more : SameKey(r, q) => r = q
  BY DEF RowsFollow
<1>2. Numbered(rs \cup more, r.stream, r.version.val)
  BY <1>1 DEF RowsFollow
<1>3. ASSUME NEW q \in rs \cup more, SameKey(r, q) PROVE r = q
  BY <1>3, KeysAreSymmetric DEF RowsFollow, Apart
<1> QED BY <1>2, <1>3

(* One call makes a step: what it stores and holds is apart from what the
   others hold. *)
LEMMA FollowStep ==
  ASSUME Inv, FollowInv, NEW c \in Calls, NEW more \in SUBSET Row, rows' = rows \cup more,
         \A d \in Calls \ {c} : call'[d] = call[d],
         RowsFollow(rows'), CallFollows(rows', call'[c]),
         \A d \in Calls \ {c} : Apart(call[d].held, more \cup call'[c].held)
  PROVE  FollowInv'
<1>1. ASSUME NEW d \in Calls \ {c} PROVE CallFollows(rows', call'[d])
  <2>1. CallFollows(rows, call[d]) /\ call'[d] = call[d] /\ Apart(call[d].held, more)
    BY DEF FollowInv, Apart
  <2> DEFINE x == call[d]
             us == rows \cup x.held
             vs == rows' \cup x.held
  <2>2. \A s : (\A n : Numbered(us, s, n) => Numbered(vs, s, n)) /\ (\A b : IsBase(us, s, b) => IsBase(vs, s, b))
    BY MoreRows
  <2>3. RowsFollow(us) /\ RowsFollow(rows')
    BY <2>1 DEF CallFollows
  <2>4. Apart(rows', x.held)
    BY <2>1, KeysAreSymmetric DEF Apart, CallFollows
  <2>5. \A r \in x.held : Numbered(vs, r.stream, r.version.val) /\ \A q \in x.held : SameKey(r, q) => r = q
    BY <2>2, <2>3 DEF RowsFollow
  <2>6. RowsFollow(vs)
    BY <2>3, <2>4, <2>5, RowsUnite
  <2>7. \A r \in x.held : \A q \in rows' : ~SameKey(r, q)
    BY <2>4, KeysAreSymmetric DEF Apart
  <2> HIDE DEF us, vs
  <2>8. /\ x.pc = "resumed" => IsBase(vs, x.stream, x.current)
        /\ x.pc = "inserting" => Numbered(vs, x.stream, x.current.val)
    BY <2>1, <2>2 DEF CallFollows, us
  <2> QED BY <2>1, <2>6, <2>7, <2>8 DEF CallFollows, vs
<1>2. ASSUME NEW d \in Calls, NEW e \in Calls, d # e PROVE Apart(call'[d].held, call'[e].held)
  <2>1. CASE d # c /\ e # c
    BY <1>2, <2>1 DEF FollowInv
  <2>2. CASE d = c
    BY <1>2, <2>2, KeysAreSymmetric DEF Apart
  <2>3. CASE e = c
    BY <1>2, <2>3 DEF Apart
  <2> QED BY <2>1, <2>2, <2>3
<1> QED BY <1>1, <1>2 DEF FollowInv

(* A call that holds nothing says nothing but what it counts from.          *)
LEMMA HoldsNothing ==
  ASSUME NEW rs, RowsFollow(rs), NEW x, x.held = {},
         x.pc = "resumed" => IsBase(rs, x.stream, x.current), x.pc # "inserting"
  PROVE  CallFollows(rs, x)
<1>1. rs \cup x.held = rs
  OBVIOUS
<1> QED BY <1>1 DEF CallFollows

LEMMA QuietFollows ==
  ASSUME Inv, FollowInv, NEW c \in Calls, rows' = rows, \A d \in Calls \ {c} : call'[d] = call[d],
         call'[c].held = {}, call'[c].pc = "resumed" => IsBase(rows, call'[c].stream, call'[c].current),
         call'[c].pc # "inserting"
  PROVE  FollowInv'
<1>1. rows' = rows \cup {} /\ RowsFollow(rows') /\ {} \in SUBSET Row
  BY DEF FollowInv
<1>2. CallFollows(rows', call'[c])
  BY <1>1, HoldsNothing
<1>3. \A d \in Calls \ {c} : Apart(call[d].held, {} \cup call'[c].held)
  BY DEF Apart
<1> QED BY <1>1, <1>2, <1>3, FollowStep

LEMMA FollowTypes ==
  ASSUME Inv, NEW c \in Calls
  PROVE  /\ call \in [Calls -> Call] /\ call[c] \in Call /\ rows \subseteq Row
         /\ call[c].held \subseteq Row /\ call[c].current \in JsValue
         /\ call[c].held # {} => call[c].batch /\ call[c].pc \in {"resumed", "inserting", "committing"}
<1>1. call \in [Calls -> Call] /\ call[c] \in Call /\ rows \subseteq Row
  BY DEF Inv, TypeOK
<1>2. call[c].held \subseteq Row /\ call[c].current \in JsValue
  BY <1>1 DEF Call
<1>3. call[c].held # {} => call[c].batch /\ call[c].pc \in {"resumed", "inserting", "committing"}
  BY DEF Inv, HeldIsOwn
<1> QED BY <1>1, <1>2, <1>3

(* A version that a caller knows is 0 or that of an event.                  *)
LEMMA KnownIsBase ==
  ASSUME NEW s \in Streams, NEW e \in KnownVersions(s), e # NoVersion
  PROVE  IsBase(rows, s, e)
<1>1. CASE e = Num(0)
  BY <1>1 DEF IsBase, Num
<1>2. CASE e # Num(0)
  <2>1. PICK r \in rows : r.stream = s /\ (e = r.version \/ e = Text(r.version.val))
    BY <1>2 DEF KnownVersions
  <2>2. e.val = r.version.val
    BY <2>1 DEF Text
  <2> QED BY <2>1, <2>2 DEF IsBase
<1> QED BY <1>1, <1>2

LEMMA AppendFollows ==
  ASSUME Inv, FollowInv, NEW c \in Calls, NEW s \in Streams, NEW e \in KnownVersions(s),
         \/ AppendEvent(c, s, e)
         \/ \E n \in 1..MaxBatch : AppendEvents(c, s, e, n)
  PROVE  FollowInv'
<1>0. call \in [Calls -> Call]
  BY FollowTypes
<1>1. CASE AppendEvent(c, s, e)
  <2>1. /\ call'[c] = Bare("reading", FALSE, s, e, 1, Num(0)) /\ rows' = rows
        /\ \A d \in Calls \ {c} : call'[d] = call[d]
    BY <1>0, <1>1 DEF AppendEvent
  <2>2. call'[c].held = {} /\ call'[c].pc = "reading"
    BY <2>1 DEF Bare
  <2> QED BY <2>1, <2>2, QuietFollows
<1>2. ASSUME NEW n \in 1..MaxBatch, AppendEvents(c, s, e, n) PROVE FollowInv'
  <2>1. /\ call'[c] = IF e = NoVersion THEN Bare("reading", TRUE, s, e, n, Num(0))
                                       ELSE Bare("resumed", TRUE, s, e, n, e)
        /\ rows' = rows /\ \A d \in Calls \ {c} : call'[d] = call[d]
    BY <1>0, <1>2 DEF AppendEvents
  <2>2. CASE e = NoVersion
    <3>1. call'[c].held = {} /\ call'[c].pc = "reading"
      BY <2>1, <2>2 DEF Bare
    <3> QED BY <2>1, <3>1, QuietFollows
  <2>3. CASE e # NoVersion
    <3>1. call'[c].held = {} /\ call'[c].pc = "resumed" /\ call'[c].stream = s /\ call'[c].current = e
      BY <2>1, <2>3 DEF Bare
    <3>2. IsBase(rows, s, e)
      BY <2>3, KnownIsBase
    <3> QED BY <2>1, <3>1, <3>2, QuietFollows
  <2> QED BY <2>2, <2>3
<1> QED BY <1>1, <1>2

LEMMA ReadFollows == ASSUME Inv, FollowInv, NEW c \in Calls, GetCurrentStreamVersion(c) PROVE FollowInv'
<1>0. /\ call \in [Calls -> Call] /\ call[c] \in Call /\ call[c].pc = "reading" /\ call[c].held = {}
      /\ call[c].stream \in Streams
  BY FollowTypes DEF GetCurrentStreamVersion, Call
<1> DEFINE s == call[c].stream
<1>1. /\ call'[c].pc = "resumed" /\ call'[c].held = {} /\ call'[c].stream = s
      /\ call'[c].current = CurrentVersion(s) /\ rows' = rows
      /\ \A d \in Calls \ {c} : call'[d] = call[d]
  BY <1>0 DEF GetCurrentStreamVersion, Call
<1>2. IsBase(rows, s, CurrentVersion(s))
  <2>1. CASE Versions(rows, s) = {}
    BY <2>1 DEF CurrentVersion, Versions, IsBase, Num
  <2>2. CASE Versions(rows, s) # {}
    <3>1. CurrentVersion(s) = Text(Max(Versions(rows, s)))
      BY <2>2 DEF CurrentVersion, Versions
    <3>2. Max(Versions(rows, s)) \in Versions(rows, s)
      BY <1>0, <2>2, MaxIsMember DEF Inv, MaximaExist, Topped
    <3>3. PICK q \in rows : q.stream = s /\ q.version.val = Max(Versions(rows, s))
      BY <3>2 DEF Versions
    <3>4. CurrentVersion(s).val = Max(Versions(rows, s))
      BY <3>1 DEF Text
    <3> QED BY <3>3, <3>4 DEF IsBase
  <2> QED BY <2>1, <2>2
<1> QED BY <1>1, <1>2, QuietFollows

(* A call fails, or the process restarts: nothing is held any more.         *)
LEMMA FailureFollows ==
  ASSUME Inv, FollowInv, NEW c \in Calls, End(c, "failed"), rows' = rows
  PROVE  FollowInv'
<1>1. call \in [Calls -> Call] /\ call[c] \in Call
  BY FollowTypes
<1>2. call'[c] = Ended(call[c], "failed") /\ \A d \in Calls \ {c} : call'[d] = call[d]
  BY <1>1 DEF End
<1>3. call'[c].pc = "failed" /\ call'[c].held = {}
  BY <1>1, <1>2, EndedCall
<1> QED BY <1>2, <1>3, QuietFollows

LEMMA RestartFollows == ASSUME Inv, FollowInv, Restart PROVE FollowInv'
<1>1. ASSUME NEW c \in Calls PROVE call'[c].held = {} /\ call'[c].pc \in {"new", "done", "failed"}
  <2>1. call[c] \in Call /\ (call[c].held # {} => call[c].pc \in {"resumed", "inserting", "committing"})
    BY FollowTypes
  <2>2. CASE call[c].pc \in {"new", "done", "failed"}
    BY <2>1, <2>2 DEF Restart
  <2>3. CASE call[c].pc \notin {"new", "done", "failed"}
    <3>1. call'[c] = Ended(call[c], "failed")
      BY <2>3 DEF Restart
    <3> QED BY <2>1, <3>1, EndedCall
  <2> QED BY <2>2, <2>3
<1>2. RowsFollow(rows) /\ rows' = rows
  BY DEF FollowInv, Restart
<1>3. \A c \in Calls : CallFollows(rows', call'[c])
  BY <1>1, <1>2, HoldsNothing
<1>4. \A c, d \in Calls : Apart(call'[c].held, call'[d].held)
  BY <1>1 DEF Apart
<1> QED BY <1>2, <1>3, <1>4 DEF FollowInv

LEMMA PrepareFollows == ASSUME Inv, FollowInv, NEW c \in Calls, Prepare(c) PROVE FollowInv'
<1> DEFINE x == call[c]
           us == rows \cup call[c].held
           y == call'[c]
<1>0. /\ call \in [Calls -> Call] /\ call[c] \in Call /\ rows \subseteq Row /\ x.held \subseteq Row
      /\ x.current \in JsValue /\ x.pc = "resumed"
  BY FollowTypes DEF Prepare
<1>1. /\ y.pc = "inserting" /\ y.held = x.held /\ y.stream = x.stream /\ y.current = PlusOne(x.current)
      /\ rows' = rows /\ \A d \in Calls \ {c} : call'[d] = call[d]
  BY <1>0 DEF Prepare, Call
<1>2. CallFollows(rows, x) /\ RowsFollow(rows)
  BY DEF FollowInv
<1>3. us \subseteq Row /\ RowsFollow(us) /\ IsBase(us, x.stream, x.current)
  BY <1>0, <1>2 DEF CallFollows
<1>4. x.current.val \in Int /\ x.current.text \in BOOLEAN
  BY <1>0 DEF JsValue
<1> HIDE DEF us
<1>5. Numbered(us, x.stream, PlusOne(x.current).val) /\ x.current.val < PlusOne(x.current).val
  <2>1. CASE x.current.val = 0 /\ x.current.text = FALSE
    BY <2>1 DEF PlusOne, Numbered, IsVersion
  <2>2. ASSUME NEW q \in us, q.stream = x.stream, q.version.val = x.current.val
        PROVE  Numbered(us, x.stream, PlusOne(x.current).val) /\ x.current.val < PlusOne(x.current).val
    <3>1. x.current.val >= 1
      BY <1>3, <2>2 DEF RowsFollow, Numbered
    <3>2. PlusOne(x.current).val = x.current.val + 1 \/ PlusOne(x.current).val = 10 * x.current.val + 1
      BY <1>4, <3>1 DEF PlusOne
    <3>3. PlusOne(x.current).val >= 1 /\ x.current.val < PlusOne(x.current).val
      BY <1>4, <3>1, <3>2
    <3> QED BY <2>2, <3>2, <3>3 DEF Numbered, IsVersion
  <2> QED BY <1>3, <2>1, <2>2 DEF IsBase
<1>6. CallFollows(rows, y)
  <2>1. rows \cup y.held = us
    BY <1>1 DEF us
  <2>2. ASSUME NEW r \in y.held
        PROVE  r.stream = y.stream /\ (\A q \in rows : ~SameKey(r, q)) /\ r.version.val < y.current.val
    <3>1. r.version.val \in Int /\ r.version.val <= x.current.val /\ y.current.val \in Int
      <4>1. r \in Row /\ PlusOne(x.current) \in JsValue
        BY <1>0, <1>1, JsArithmetic
      <4> QED BY <1>1, <1>2, <4>1, RowsAreNumbers DEF CallFollows, JsValue
    <3>2. r.version.val < y.current.val
      BY <1>1, <1>4, <1>5, <3>1
    <3> QED BY <1>1, <1>2, <3>2 DEF CallFollows
  <2>3. \A r \in y.held : r.version.val <= y.current.val
    <3> TAKE r \in y.held
    <3>1. r \in Row /\ PlusOne(x.current) \in JsValue
      BY <1>0, <1>1, JsArithmetic
    <3>2. r.version.val \in Int /\ y.current.val \in Int
      BY <1>1, <3>1, RowsAreNumbers DEF JsValue
    <3> QED BY <2>2, <3>2
  <2> QED BY <1>1, <1>3, <1>5, <2>1, <2>2, <2>3 DEF CallFollows
<1>7. \A d \in Calls \ {c} : Apart(call[d].held, {} \cup y.held)
  BY <1>1 DEF FollowInv
<1>8. rows' = rows \cup {} /\ {} \in SUBSET Row
  BY <1>1
<1> QED BY <1>1, <1>2, <1>6, <1>7, <1>8, FollowStep

(* The row that is inserted is apart from the rows and from what is held.   *)
LEMMA FreeIsApart ==
  ASSUME Inv, FollowInv, NEW c \in Calls, call[c].pc = "inserting", Free(c)
  PROVE  /\ RowOf(c) \in Row /\ RowOf(c).stream = call[c].stream /\ RowOf(c).version = call[c].current
         /\ Apart(rows, {RowOf(c)})
         /\ \A d \in Calls \ {c} : Apart(call[d].held, {RowOf(c)})
         /\ Numbered(rows \cup call[c].held, RowOf(c).stream, RowOf(c).version.val)
<1>1. RowOf(c) \in Row /\ RowOf(c).stream = call[c].stream /\ RowOf(c).version = call[c].current
  BY RowOfType DEF Inv
<1>2. Apart(rows, {RowOf(c)})
  BY DEF Free, Taken, Apart
<1>3. \A d \in Calls \ {c} : Apart(call[d].held, {RowOf(c)})
  BY DEF Free, Waits, Apart
<1>4. Numbered(rows \cup call[c].held, RowOf(c).stream, RowOf(c).version.val)
  BY <1>1 DEF FollowInv, CallFollows
<1> QED BY <1>1, <1>2, <1>3, <1>4

LEMMA InsertFollows == ASSUME Inv, FollowInv, NEW c \in Calls, InsertEvent(c) PROVE FollowInv'
<1> DEFINE more == {RowOf(c)}
<1>0. /\ call \in [Calls -> Call] /\ call[c] \in Call /\ call[c].pc = "inserting" /\ Free(c) /\ call[c].held = {}
      /\ rows' = rows \cup more
  BY FollowTypes DEF InsertEvent
<1>1. PICK pc \in {"done", "failed"} : End(c, pc)
  BY DEF InsertEvent
<1>2. call'[c] = Ended(call[c], pc) /\ \A d \in Calls \ {c} : call'[d] = call[d]
  BY <1>0, <1>1 DEF End
<1>3. call'[c].held = {} /\ call'[c].pc \in {"done", "failed"}
  BY <1>0, <1>2, EndedCall
<1>4. more \in SUBSET Row /\ Apart(rows, more) /\ \A d \in Calls \ {c} : Apart(call[d].held, more)
  BY <1>0, FreeIsApart
<1>5. Numbered(rows, RowOf(c).stream, RowOf(c).version.val)
  <2>1. rows \cup call[c].held = rows
    BY <1>0
  <2> QED BY <1>0, <2>1, FreeIsApart
<1>6. RowsFollow(rows')
  <2>1. \A s, n : Numbered(rows, s, n) => Numbered(rows \cup more, s, n)
    BY MoreRows
  <2>2. \A r \in more : Numbered(rows \cup more, r.stream, r.version.val) /\ \A q \in more : SameKey(r, q) => r = q
    BY <1>5, <2>1
  <2>3. RowsFollow(rows)
    BY DEF FollowInv
  <2> HIDE DEF more
  <2> QED BY <1>0, <1>4, <2>2, <2>3, RowsUnite
<1> HIDE DEF more
<1>7. CallFollows(rows', call'[c])
  BY <1>3, <1>6, HoldsNothing
<1>8. \A d \in Calls \ {c} : Apart(call[d].held, more \cup call'[c].held)
  BY <1>3, <1>4 DEF Apart
<1> QED BY <1>0, <1>2, <1>4, <1>6, <1>7, <1>8, FollowStep

LEMMA InsertInBatchFollows == ASSUME Inv, FollowInv, NEW c \in Calls, InsertInBatch(c) PROVE FollowInv'
<1> DEFINE x == call[c]
           y == call'[c]
           row == RowOf(c)
           us == rows \cup call[c].held
<1>0. /\ call \in [Calls -> Call] /\ x \in Call /\ x.pc = "inserting" /\ Free(c) /\ rows' = rows
      /\ x.held \subseteq Row /\ x.current \in JsValue
  BY FollowTypes DEF InsertInBatch
<1>1. /\ y.pc \in {"resumed", "committing"} /\ y.held = x.held \cup {row} /\ y.stream = x.stream
      /\ y.current = x.current /\ \A d \in Calls \ {c} : call'[d] = call[d]
  <2>1. call' = [call EXCEPT ![c].pc = IF x.left = 1 THEN "committing" ELSE "resumed",
                             ![c].left = x.left - 1, ![c].held = x.held \cup {row}]
    BY DEF InsertInBatch
  <2> QED BY <1>0, <2>1 DEF Call
<1>2. /\ row \in Row /\ row.stream = x.stream /\ row.version = x.current /\ Apart(rows, {row})
      /\ \A d \in Calls \ {c} : Apart(call[d].held, {row})
      /\ Numbered(us, row.stream, row.version.val)
  BY <1>0, FreeIsApart
<1> HIDE DEF row
<1>3. CallFollows(rows, x) /\ RowsFollow(rows)
  BY DEF FollowInv
<1>4. \A r \in x.held : r.version.val \in Int /\ row.version.val \in Int /\ r.version.val < row.version.val
  BY <1>0, <1>2, <1>3, RowsAreNumbers DEF CallFollows
<1>5. RowsFollow(us \cup {row})
  <2>1. RowsFollow(us)
    BY <1>3 DEF CallFollows
  <2>2. Apart(us, {row})
    BY <1>2, <1>4 DEF Apart, SameKey
  <2>3. \A s, n : Numbered(us, s, n) => Numbered(us \cup {row}, s, n)
    BY MoreRows
  <2> HIDE DEF us
  <2> QED BY <1>2, <2>1, <2>2, <2>3, RowsUnite
<1>6. CallFollows(rows, y)
  <2>1. rows \cup y.held = us \cup {row}
    BY <1>1
  <2>2. ASSUME NEW r \in y.held
        PROVE  r.stream = y.stream /\ (\A q \in rows : ~SameKey(r, q)) /\ r.version.val <= y.current.val
    <3>1. CASE r \in x.held
      <4>1. r.version.val <= y.current.val
        BY <1>1, <1>2, <1>4, <3>1
      <4> QED BY <1>1, <1>3, <3>1, <4>1 DEF CallFollows
    <3>2. CASE r = row
      <4>1. row.version.val \in Int
        BY <1>2, RowsAreNumbers
      <4>2. r.version.val <= y.current.val
        BY <1>1, <1>2, <3>2, <4>1
      <4> QED BY <1>1, <1>2, <3>2, <4>2, KeysAreSymmetric DEF Apart
    <3> QED BY <1>1, <3>1, <3>2
  <2>3. IsBase(rows \cup y.held, y.stream, y.current)
    <3>1. row \in rows \cup y.held /\ row.stream = y.stream /\ row.version.val = y.current.val
      BY <1>1, <1>2
    <3> QED BY <3>1 DEF IsBase
  <2> QED BY <1>1, <1>5, <2>1, <2>2, <2>3 DEF CallFollows
<1>7. \A d \in Calls \ {c} : Apart(call[d].held, {} \cup y.held)
  <2> TAKE d \in Calls \ {c}
  <2>1. Apart(call[d].held, x.held) /\ Apart(call[d].held, {row})
    BY <1>2 DEF FollowInv
  <2> QED BY <1>1, <2>1 DEF Apart
<1>8. rows' = rows \cup {} /\ {} \in SUBSET Row
  BY <1>0
<1> QED BY <1>0, <1>1, <1>3, <1>6, <1>7, <1>8, FollowStep

LEMMA CommitFollows == ASSUME Inv, FollowInv, NEW c \in Calls, Commit(c) PROVE FollowInv'
<1> DEFINE more == call[c].held
<1>0. call \in [Calls -> Call] /\ call[c] \in Call /\ more \in SUBSET Row /\ rows' = rows \cup more
  BY FollowTypes DEF Commit
<1>1. PICK pc \in {"done", "failed"} : End(c, pc)
  BY DEF Commit
<1>2. call'[c] = Ended(call[c], pc) /\ \A d \in Calls \ {c} : call'[d] = call[d]
  BY <1>0, <1>1 DEF End
<1>3. call'[c].held = {} /\ call'[c].pc \in {"done", "failed"}
  BY <1>0, <1>2, EndedCall
<1>4. RowsFollow(rows') /\ \A d \in Calls \ {c} : Apart(call[d].held, more)
  BY <1>0 DEF FollowInv, CallFollows
<1> HIDE DEF more
<1>5. CallFollows(rows', call'[c])
  BY <1>3, <1>4, HoldsNothing
<1>6. \A d \in Calls \ {c} : Apart(call[d].held, more \cup call'[c].held)
  BY <1>3, <1>4 DEF Apart
<1> QED BY <1>0, <1>2, <1>4, <1>5, <1>6, FollowStep

LEMMA FollowInit == Init => FollowInv
<1> SUFFICES ASSUME Init PROVE FollowInv
  OBVIOUS
<1>1. rows = {} /\ \A c \in Calls : call[c].held = {} /\ call[c].pc = "new"
  BY DEF Init, NewCall, Bare
<1>2. RowsFollow(rows)
  BY <1>1 DEF RowsFollow
<1>3. \A c \in Calls : CallFollows(rows, call[c])
  BY <1>1, <1>2, HoldsNothing
<1>4. \A c, d \in Calls : Apart(call[c].held, call[d].held)
  BY <1>1 DEF Apart
<1> QED BY <1>2, <1>3, <1>4 DEF FollowInv

LEMMA FollowNext == Inv /\ FollowInv /\ [Next]_vars => FollowInv'
<1> SUFFICES ASSUME Inv, FollowInv, [Next]_vars PROVE FollowInv'
  OBVIOUS
<1>1. CASE UNCHANGED <<rows, call>>
  BY <1>1 DEF FollowInv
<1>2. ASSUME NEW c \in Calls, NEW s \in Streams, NEW e \in KnownVersions(s),
             \/ AppendEvent(c, s, e)
             \/ \E n \in 1..MaxBatch : AppendEvents(c, s, e, n)
      PROVE  FollowInv'
  BY <1>2, AppendFollows
<1>3. ASSUME NEW c \in Calls,
             Refuse(c) \/ UniqueViolation(c) \/ BatchViolation(c) \/ DatabaseError(c)
      PROVE  FollowInv'
  <2>1. End(c, "failed") /\ rows' = rows
    BY <1>3 DEF Refuse, UniqueViolation, BatchViolation, DatabaseError
  <2> QED BY <2>1, FailureFollows
<1>4. ASSUME NEW c \in Calls,
             \/ GetCurrentStreamVersion(c) \/ Prepare(c) \/ InsertInBatch(c)
             \/ InsertEvent(c) \/ Commit(c)
      PROVE  FollowInv'
  BY <1>4, ReadFollows, PrepareFollows, InsertInBatchFollows, InsertFollows, CommitFollows
<1>5. CASE BootQuery \/ BootAssign
  BY <1>1, <1>5 DEF BootQuery, BootAssign
<1>6. CASE Restart
  BY <1>6, RestartFollows
<1>7. CASE UNCHANGED vars
  BY <1>1, <1>7 DEF vars
<1> QED BY <1>2, <1>3, <1>4, <1>5, <1>6, <1>7 DEF Next

LEMMA VersionsTell == FollowInv => VersionsFollow
  BY DEF FollowInv, RowsFollow, Numbered, IsVersion, VersionsFollow

(* The versions of a stream's events are different, also where batches and  *)
(* single appends overlap, and each is 1 or leads on from another event's   *)
(* by one or by a digit: for any streams, calls, batches and restarts.      *)
THEOREM VersionsLeadOn == Spec => []VersionsFollow
<1>1. Init => Inv /\ FollowInv
  BY InitKeepsInv, FollowInit
<1>2. Inv /\ FollowInv /\ [Next]_vars => Inv' /\ FollowInv'
  BY NextKeepsInv, FollowNext
<1> QED BY <1>1, <1>2, VersionsTell, PTL DEF Spec

(***************************************************************************)
(* The analytics.  A kind's numbers are followed one kind at a time: cr    *)
(* creations, co in memory, ro in the row, up on their way, lp and lr the  *)
(* load and the row it read, rp, rl and rn the rebuild, the creations it   *)
(* still has to count and the number it sends, mi what was missed, and     *)
(* grown the most that rebuilds can have added.                            *)
(***************************************************************************)
Want(n) == IF n = 0 THEN -1 ELSE n
Slips == {"rebuild", "overlap", "restart", "unsaved", "aborted"}
Loads == [pc : {"idle", "start", "down"}, row : Int]
Recounts == [pc : {"idle", "clear", "count", "save"}, left : Int, number : Int]

KindTypes(cr, co, ro, up, lp, lr, rp, rl, rn) ==
  /\ cr \in 0..MaxCreations
  /\ co \in Int /\ co >= -1 /\ ro \in Int /\ ro >= -1
  /\ \A n \in up : n \in Int /\ n >= 0
  /\ lp \in {"idle", "start", "down"} /\ lr \in Int /\ (lp # "start" => lr = -1)
  /\ rp \in {"idle", "clear", "count", "save"} /\ rl \in 0..cr
  /\ rn \in Int /\ rn >= 0
  /\ (rp \in {"idle", "clear"} => rl = 0) /\ (rp # "save" => rn = 0)

(* Every rebuild can count all that was created once more. *)
AtMost(most, co, ro, up, rn) ==
  co <= most /\ ro <= most /\ rn <= most /\ \A n \in up : n <= most

KindBounded(cr, co, ro, up, rp, rl, rn, grown) ==
  IF rp = "clear"
  THEN grown >= MaxCreations /\ AtMost(cr + grown - MaxCreations, co, ro, up, rn)
  ELSE AtMost(cr + grown - rl, co, ro, up, rn)

(* With nothing missed but what failed to be saved, the numbers are those  *)
(* of the creations, or on their way there.                                *)
KindExact(cr, co, ro, up, lp, lr, rp, rl, rn, mi) ==
  /\ rp = "idle" /\ lp = "idle" =>
       /\ co = Want(cr) /\ (up = {} \/ (up = {cr} /\ cr > 0))
       /\ mi = {} /\ up = {} => ro = co
  /\ rp # "idle" => lp = "idle" /\ up = {} /\ mi = {}
  /\ rp = "clear" => co = -1
  /\ rp \in {"count", "save"} => co = Want(cr - rl)
  /\ rp = "count" => ro = co
  /\ rp = "save" => rn = co
  /\ lp # "idle" => mi = {} /\ co = -1 /\ up = {} /\ ro = Want(cr)
  /\ lp = "start" => lr = ro

(* Without a rebuild that overlapped they are no more than those, and only *)
(* a process that is to fall has less than the row.                        *)
KindModest(cr, co, ro, up, lp, lr, rp, rl, rn) ==
  /\ rp # "clear" => co <= cr - rl /\ ro <= cr /\ \A n \in up : n <= cr
  /\ rp = "clear" => co = -1
  /\ rp # "idle" => up = {} /\ lp = "idle"
  /\ rp # "clear" /\ (lp = "idle" \/ (lp = "start" /\ lr = -1)) =>
       ro <= co /\ \A n \in up : n <= co
  /\ rp = "save" => rn <= co

KindOK(cr, co, ro, up, lp, lr, rp, rl, rn, mi, grown) ==
  /\ KindTypes(cr, co, ro, up, lp, lr, rp, rl, rn)
  /\ KindBounded(cr, co, ro, up, rp, rl, rn, grown)
  /\ mi \subseteq {"unsaved"} =>
       KindExact(cr, co, ro, up, lp, lr, rp, rl, rn, mi)
  /\ "rebuild" \notin mi => KindModest(cr, co, ro, up, lp, lr, rp, rl, rn)

CountsTypes ==
  /\ created \in [A!Kinds -> Int] /\ others = [k \in A!Kinds |-> others[k]]
  /\ counted \in [A!Kinds -> Int] /\ totalRow \in [A!Kinds -> Int]
  /\ upserts \in [A!Kinds -> SUBSET Int]
  /\ loaded \in [A!Kinds -> Loads] /\ recount \in [A!Kinds -> Recounts]
  /\ missed \in [A!Kinds -> SUBSET Slips]
  /\ reloads \in 0..MaxReloads

KindIsOK(k) ==
  KindOK(created[k], counted[k], totalRow[k], upserts[k], loaded[k].pc,
         loaded[k].row, recount[k].pc, recount[k].left, recount[k].number, missed[k],
         reloads * MaxCreations)

CountsInv == CountsTypes /\ \A k \in A!Kinds : KindIsOK(k)

(* What rebuilds can have added grows by one count of all. *)
LEMMA GrownByOne ==
  ASSUME NEW n \in Nat
  PROVE  /\ n * MaxCreations \in Nat
         /\ (n + 1) * MaxCreations = n * MaxCreations + MaxCreations
  BY ReadersAssumption

(* Nothing is under way exactly when it says so. *)
LEMMA IdleFields ==
  /\ A!Idle.pc = "idle" /\ A!Idle.left = 0 /\ A!Idle.number = 0 /\ A!Idle \in Recounts
  /\ A!NoLoad.pc = "idle" /\ A!NoLoad.row = -1 /\ A!NoLoad \in Loads
  /\ A!Down.pc = "down" /\ A!Down.row = -1 /\ A!Down \in Loads
  BY DEF A!Idle, A!NoLoad, A!Down, A!None, Recounts, Loads

-----------------------------------------------------------------------------
(* One lemma for each step of a kind.  A creation is counted, and its      *)
(* number sent.                                                            *)
LEMMA CreatedKeepsKind ==
  ASSUME NEW cr, NEW co, NEW ro, NEW up, NEW lp, NEW lr, NEW rp, NEW rl, NEW rn,
         NEW mi, NEW grown \in Nat,
         KindOK(cr, co, ro, up, lp, lr, rp, rl, rn, mi, grown),
         cr < MaxCreations, lp # "down",
         NEW plus, plus = IF co = -1 THEN 1 ELSE co + 1,
         NEW mj, mi \subseteq mj, rp # "idle" => "rebuild" \in mj,
         ~ (up = {} /\ lp = "idle" /\ rp = "idle") => "overlap" \in mj
  PROVE  KindOK(cr + 1, plus, ro, up \cup {plus}, lp, lr, rp, rl, rn, mj, grown)
<1>t. KindTypes(cr, co, ro, up, lp, lr, rp, rl, rn)
  BY DEF KindOK
<1>1. KindTypes(cr + 1, plus, ro, up \cup {plus}, lp, lr, rp, rl, rn)
  BY <1>t, ReadersAssumption DEF KindTypes
<1>2. KindBounded(cr + 1, plus, ro, up \cup {plus}, rp, rl, rn, grown)
  BY <1>t, ReadersAssumption DEF KindOK, KindTypes, KindBounded, AtMost
<1>3. mj \subseteq {"unsaved"} =>
       KindExact(cr + 1, plus, ro, up \cup {plus}, lp, lr, rp, rl, rn, mj)
  BY <1>t DEF KindOK, KindTypes, KindExact, Want
<1>4. "rebuild" \notin mj =>
       KindModest(cr + 1, plus, ro, up \cup {plus}, lp, lr, rp, rl, rn)
  BY <1>t DEF KindOK, KindTypes, KindModest
<1> QED BY <1>1, <1>2, <1>3, <1>4 DEF KindOK

(* An upsert arrives. *)
LEMMA SavedKeepsKind ==
  ASSUME NEW cr, NEW co, NEW ro, NEW up, NEW lp, NEW lr, NEW rp, NEW rl, NEW rn,
         NEW mi, NEW grown \in Nat,
         KindOK(cr, co, ro, up, lp, lr, rp, rl, rn, mi, grown),
         NEW n \in up,
         NEW mj, mj = IF n = co THEN mi \ {"unsaved"} ELSE mi
  PROVE  KindOK(cr, co, n, up \ {n}, lp, lr, rp, rl, rn, mj, grown)
<1>t. KindTypes(cr, co, ro, up, lp, lr, rp, rl, rn)
  BY DEF KindOK
<1>1. KindTypes(cr, co, n, up \ {n}, lp, lr, rp, rl, rn)
  BY <1>t, ReadersAssumption DEF KindTypes
<1>2. KindBounded(cr, co, n, up \ {n}, rp, rl, rn, grown)
  BY <1>t, ReadersAssumption DEF KindOK, KindTypes, KindBounded, AtMost
<1>3. mj \subseteq {"unsaved"} =>
       KindExact(cr, co, n, up \ {n}, lp, lr, rp, rl, rn, mj)
  BY <1>t DEF KindOK, KindTypes, KindExact, Want
<1>4. "rebuild" \notin mj =>
       KindModest(cr, co, n, up \ {n}, lp, lr, rp, rl, rn)
  BY <1>t DEF KindOK, KindTypes, KindModest
<1> QED BY <1>1, <1>2, <1>3, <1>4 DEF KindOK

(* It throws. *)
LEMMA NotSavedKeepsKind ==
  ASSUME NEW cr, NEW co, NEW ro, NEW up, NEW lp, NEW lr, NEW rp, NEW rl, NEW rn,
         NEW mi, NEW grown \in Nat,
         KindOK(cr, co, ro, up, lp, lr, rp, rl, rn, mi, grown),
         NEW n \in up,
         NEW mj, mj = mi \cup {"unsaved"}
  PROVE  KindOK(cr, co, ro, up \ {n}, lp, lr, rp, rl, rn, mj, grown)
<1>t. KindTypes(cr, co, ro, up, lp, lr, rp, rl, rn)
  BY DEF KindOK
<1>1. KindTypes(cr, co, ro, up \ {n}, lp, lr, rp, rl, rn)
  BY <1>t, ReadersAssumption DEF KindTypes
<1>2. KindBounded(cr, co, ro, up \ {n}, rp, rl, rn, grown)
  BY <1>t, ReadersAssumption DEF KindOK, KindTypes, KindBounded, AtMost
<1>3. mj \subseteq {"unsaved"} =>
       KindExact(cr, co, ro, up \ {n}, lp, lr, rp, rl, rn, mj)
  BY <1>t DEF KindOK, KindTypes, KindExact, Want
<1>4. "rebuild" \notin mj =>
       KindModest(cr, co, ro, up \ {n}, lp, lr, rp, rl, rn)
  BY <1>t DEF KindOK, KindTypes, KindModest
<1> QED BY <1>1, <1>2, <1>3, <1>4 DEF KindOK

(* A rebuild starts with empty memory. *)
LEMMA StartKeepsKind ==
  ASSUME NEW cr, NEW co, NEW ro, NEW up, NEW lp, NEW lr, NEW rp, NEW rl, NEW rn,
         NEW mi, NEW grown \in Nat,
         KindOK(cr, co, ro, up, lp, lr, rp, rl, rn, mi, grown),
         rp = "idle",
         NEW mj, mj = IF up = {} /\ lp = "idle" THEN {} ELSE {"rebuild"}
  PROVE  KindOK(cr, -1, ro, up, lp, lr, "clear", rl, rn, mj, grown + MaxCreations)
<1>t. KindTypes(cr, co, ro, up, lp, lr, rp, rl, rn)
  BY DEF KindOK
<1>1. KindTypes(cr, -1, ro, up, lp, lr, "clear", rl, rn)
  BY <1>t, ReadersAssumption DEF KindTypes
<1>2. KindBounded(cr, -1, ro, up, "clear", rl, rn, grown + MaxCreations)
  BY <1>t, ReadersAssumption DEF KindOK, KindTypes, KindBounded, AtMost
<1>3. mj \subseteq {"unsaved"} =>
       KindExact(cr, -1, ro, up, lp, lr, "clear", rl, rn, mj)
  BY <1>t DEF KindOK, KindTypes, KindExact, Want
<1>4. "rebuild" \notin mj =>
       KindModest(cr, -1, ro, up, lp, lr, "clear", rl, rn)
  BY <1>t DEF KindOK, KindTypes, KindModest
<1> QED BY <1>1, <1>2, <1>3, <1>4 DEF KindOK

(* The row is gone, and what was created up to here is to be counted. *)
LEMMA ClearedKeepsKind ==
  ASSUME NEW cr, NEW co, NEW ro, NEW up, NEW lp, NEW lr, NEW rp, NEW rl, NEW rn,
         NEW mi, NEW grown \in Nat,
         KindOK(cr, co, ro, up, lp, lr, rp, rl, rn, mi, grown),
         rp = "clear"
  PROVE  KindOK(cr, co, -1, up, lp, lr, "count", cr, rn, mi, grown)
<1>t. KindTypes(cr, co, ro, up, lp, lr, rp, rl, rn)
  BY DEF KindOK
<1>1. KindTypes(cr, co, -1, up, lp, lr, "count", cr, rn)
  BY <1>t, ReadersAssumption DEF KindTypes
<1>2. KindBounded(cr, co, -1, up, "count", cr, rn, grown)
  BY <1>t, ReadersAssumption DEF KindOK, KindTypes, KindBounded, AtMost
<1>3. mi \subseteq {"unsaved"} =>
       KindExact(cr, co, -1, up, lp, lr, "count", cr, rn, mi)
  BY <1>t DEF KindOK, KindTypes, KindExact, Want
<1>4. "rebuild" \notin mi =>
       KindModest(cr, co, -1, up, lp, lr, "count", cr, rn)
  BY <1>t DEF KindOK, KindTypes, KindModest
<1> QED BY <1>1, <1>2, <1>3, <1>4 DEF KindOK

(* The rebuild counts one more. *)
LEMMA CountKeepsKind ==
  ASSUME NEW cr, NEW co, NEW ro, NEW up, NEW lp, NEW lr, NEW rp, NEW rl, NEW rn,
         NEW mi, NEW grown \in Nat,
         KindOK(cr, co, ro, up, lp, lr, rp, rl, rn, mi, grown),
         rp = "count", rl # 0,
         NEW plus, plus = IF co = -1 THEN 1 ELSE co + 1
  PROVE  KindOK(cr, plus, ro, up, lp, lr, "save", rl - 1, plus, mi, grown)
<1>t. KindTypes(cr, co, ro, up, lp, lr, rp, rl, rn)
  BY DEF KindOK
<1>1. KindTypes(cr, plus, ro, up, lp, lr, "save", rl - 1, plus)
  BY <1>t, ReadersAssumption DEF KindTypes
<1>2. KindBounded(cr, plus, ro, up, "save", rl - 1, plus, grown)
  BY <1>t, ReadersAssumption DEF KindOK, KindTypes, KindBounded, AtMost
<1>3. mi \subseteq {"unsaved"} =>
       KindExact(cr, plus, ro, up, lp, lr, "save", rl - 1, plus, mi)
  BY <1>t DEF KindOK, KindTypes, KindExact, Want
<1>4. "rebuild" \notin mi =>
       KindModest(cr, plus, ro, up, lp, lr, "save", rl - 1, plus)
  BY <1>t DEF KindOK, KindTypes, KindModest
<1> QED BY <1>1, <1>2, <1>3, <1>4 DEF KindOK

(* Its number arrives. *)
LEMMA SavedAgainKeepsKind ==
  ASSUME NEW cr, NEW co, NEW ro, NEW up, NEW lp, NEW lr, NEW rp, NEW rl, NEW rn,
         NEW mi, NEW grown \in Nat,
         KindOK(cr, co, ro, up, lp, lr, rp, rl, rn, mi, grown),
         rp = "save"
  PROVE  KindOK(cr, co, rn, up, lp, lr, "count", rl, 0, mi, grown)
<1>t. KindTypes(cr, co, ro, up, lp, lr, rp, rl, rn)
  BY DEF KindOK
<1>1. KindTypes(cr, co, rn, up, lp, lr, "count", rl, 0)
  BY <1>t, ReadersAssumption DEF KindTypes
<1>2. KindBounded(cr, co, rn, up, "count", rl, 0, grown)
  BY <1>t, ReadersAssumption DEF KindOK, KindTypes, KindBounded, AtMost
<1>3. mi \subseteq {"unsaved"} =>
       KindExact(cr, co, rn, up, lp, lr, "count", rl, 0, mi)
  BY <1>t DEF KindOK, KindTypes, KindExact, Want
<1>4. "rebuild" \notin mi => KindModest(cr, co, rn, up, lp, lr, "count", rl, 0)
  BY <1>t DEF KindOK, KindTypes, KindModest
<1> QED BY <1>1, <1>2, <1>3, <1>4 DEF KindOK

(* The rebuild is over, *)
LEMMA RebuiltKeepsKind ==
  ASSUME NEW cr, NEW co, NEW ro, NEW up, NEW lp, NEW lr, NEW rp, NEW rl, NEW rn,
         NEW mi, NEW grown \in Nat,
         KindOK(cr, co, ro, up, lp, lr, rp, rl, rn, mi, grown),
         rp = "count", rl = 0
  PROVE  KindOK(cr, co, ro, up, lp, lr, "idle", rl, rn, mi, grown)
<1>t. KindTypes(cr, co, ro, up, lp, lr, rp, rl, rn)
  BY DEF KindOK
<1>1. KindTypes(cr, co, ro, up, lp, lr, "idle", rl, rn)
  BY <1>t, ReadersAssumption DEF KindTypes
<1>2. KindBounded(cr, co, ro, up, "idle", rl, rn, grown)
  BY <1>t, ReadersAssumption DEF KindOK, KindTypes, KindBounded, AtMost
<1>3. mi \subseteq {"unsaved"} =>
       KindExact(cr, co, ro, up, lp, lr, "idle", rl, rn, mi)
  BY <1>t DEF KindOK, KindTypes, KindExact, Want
<1>4. "rebuild" \notin mi => KindModest(cr, co, ro, up, lp, lr, "idle", rl, rn)
  BY <1>t DEF KindOK, KindTypes, KindModest
<1> QED BY <1>1, <1>2, <1>3, <1>4 DEF KindOK

(* or given up. *)
LEMMA RebuildThrowsKeepsKind ==
  ASSUME NEW cr, NEW co, NEW ro, NEW up, NEW lp, NEW lr, NEW rp, NEW rl, NEW rn,
         NEW mi, NEW grown \in Nat,
         KindOK(cr, co, ro, up, lp, lr, rp, rl, rn, mi, grown),
         rp # "idle",
         NEW mj, mi \subseteq mj, mj \cap {"rebuild", "aborted"} # {},
         rp = "clear" => "rebuild" \in mj
  PROVE  KindOK(cr, co, ro, up, lp, lr, "idle", 0, 0, mj, grown)
<1>t. KindTypes(cr, co, ro, up, lp, lr, rp, rl, rn)
  BY DEF KindOK
<1>1. KindTypes(cr, co, ro, up, lp, lr, "idle", 0, 0)
  BY <1>t, ReadersAssumption DEF KindTypes
<1>2. KindBounded(cr, co, ro, up, "idle", 0, 0, grown)
  BY <1>t, ReadersAssumption DEF KindOK, KindTypes, KindBounded, AtMost
<1>3. mj \subseteq {"unsaved"} =>
       KindExact(cr, co, ro, up, lp, lr, "idle", 0, 0, mj)
  BY <1>t DEF KindOK, KindTypes, KindExact, Want
<1>4. "rebuild" \notin mj => KindModest(cr, co, ro, up, lp, lr, "idle", 0, 0)
  BY <1>t DEF KindOK, KindTypes, KindModest
<1> QED BY <1>1, <1>2, <1>3, <1>4 DEF KindOK

(* A process ends, and the next one starts over the row or none does. *)
LEMMA EndsKeepsKind ==
  ASSUME NEW cr, NEW co, NEW ro, NEW up, NEW lp, NEW lr, NEW rp, NEW rl, NEW rn,
         NEW mi, NEW grown \in Nat,
         KindOK(cr, co, ro, up, lp, lr, rp, rl, rn, mi, grown),
         NEW lq, NEW ls, (lq = "start" /\ ls = ro) \/ (lq = "down" /\ ls = -1),
         NEW mj, mi \subseteq mj, rp = "clear" => "rebuild" \in mj,
         ~ (up = {} /\ rp = "idle" /\ mi = {}) => "restart" \in mj,
         up = {} /\ rp = "idle" /\ mi = {} => mj = {}
  PROVE  KindOK(cr, -1, ro, {}, lq, ls, "idle", 0, 0, mj, grown)
<1>t. KindTypes(cr, co, ro, up, lp, lr, rp, rl, rn)
  BY DEF KindOK
<1>1. KindTypes(cr, -1, ro, {}, lq, ls, "idle", 0, 0)
  BY <1>t, ReadersAssumption DEF KindTypes
<1>2. KindBounded(cr, -1, ro, {}, "idle", 0, 0, grown)
  BY <1>t, ReadersAssumption DEF KindOK, KindTypes, KindBounded, AtMost
<1>3. mj \subseteq {"unsaved"} =>
       KindExact(cr, -1, ro, {}, lq, ls, "idle", 0, 0, mj)
  BY <1>t DEF KindOK, KindTypes, KindExact, Want
<1>4. "rebuild" \notin mj => KindModest(cr, -1, ro, {}, lq, ls, "idle", 0, 0)
  BY <1>t DEF KindOK, KindTypes, KindModest
<1> QED BY <1>1, <1>2, <1>3, <1>4 DEF KindOK

(* There was no row to load. *)
LEMMA LoadDoneKeepsKind ==
  ASSUME NEW cr, NEW co, NEW ro, NEW up, NEW lp, NEW lr, NEW rp, NEW rl, NEW rn,
         NEW mi, NEW grown \in Nat,
         KindOK(cr, co, ro, up, lp, lr, rp, rl, rn, mi, grown),
         lp = "start", lr = -1
  PROVE  KindOK(cr, co, ro, up, "idle", lr, rp, rl, rn, mi, grown)
<1>t. KindTypes(cr, co, ro, up, lp, lr, rp, rl, rn)
  BY DEF KindOK
<1>1. KindTypes(cr, co, ro, up, "idle", lr, rp, rl, rn)
  BY <1>t, ReadersAssumption DEF KindTypes
<1>2. KindBounded(cr, co, ro, up, rp, rl, rn, grown)
  BY <1>t, ReadersAssumption DEF KindOK, KindTypes, KindBounded, AtMost
<1>3. mi \subseteq {"unsaved"} =>
       KindExact(cr, co, ro, up, "idle", lr, rp, rl, rn, mi)
  BY <1>t DEF KindOK, KindTypes, KindExact, Want
<1>4. "rebuild" \notin mi => KindModest(cr, co, ro, up, "idle", lr, rp, rl, rn)
  BY <1>t DEF KindOK, KindTypes, KindModest
<1> QED BY <1>1, <1>2, <1>3, <1>4 DEF KindOK

(* A kind that rests keeps what it has while the other reloads. *)
LEMMA GrownKeepsKind ==
  ASSUME NEW cr, NEW co, NEW ro, NEW up, NEW lp, NEW lr, NEW rp, NEW rl, NEW rn,
         NEW mi, NEW grown \in Nat,
         KindOK(cr, co, ro, up, lp, lr, rp, rl, rn, mi, grown)
  PROVE  KindOK(cr, co, ro, up, lp, lr, rp, rl, rn, mi, grown + MaxCreations)
<1>1. KindBounded(cr, co, ro, up, rp, rl, rn, grown + MaxCreations)
  BY ReadersAssumption DEF KindOK, KindTypes, KindBounded, AtMost
<1> QED BY <1>1 DEF KindOK

-----------------------------------------------------------------------------
LEMMA CountsInit == A!Init => CountsInv
<1> SUFFICES ASSUME A!Init PROVE CountsInv
  OBVIOUS
<1>1. CountsTypes
  BY ReadersAssumption, IdleFields DEF A!Init, CountsTypes, A!None, Slips
<1>2. ASSUME NEW k \in A!Kinds PROVE KindIsOK(k)
  <2>1. /\ created[k] = 0 /\ counted[k] = -1 /\ totalRow[k] = -1 /\ upserts[k] = {}
        /\ loaded[k].pc = "idle" /\ loaded[k].row = -1
        /\ recount[k].pc = "idle" /\ recount[k].left = 0 /\ recount[k].number = 0
        /\ missed[k] = {} /\ reloads * MaxCreations = 0
    BY <1>1, IdleFields, ReadersAssumption DEF A!Init, A!None
  <2>2. KindOK(0, -1, -1, {}, "idle", -1, "idle", 0, 0, {}, 0)
    BY ReadersAssumption DEF KindOK, KindTypes, KindBounded, AtMost, KindExact, KindModest, Want
  <2> QED BY <2>1, <2>2 DEF KindIsOK
<1> QED BY <1>1, <1>2 DEF CountsInv

(* A step of one kind keeps the other as it is. *)
LEMMA OneKindMoves ==
  ASSUME CountsInv, CountsTypes', NEW k \in A!Kinds, KindIsOK(k)',
         reloads' \in {reloads, reloads + 1},
         \A j \in A!Kinds \ {k} :
           /\ created'[j] = created[j] /\ counted'[j] = counted[j]
           /\ totalRow'[j] = totalRow[j] /\ upserts'[j] = upserts[j]
           /\ loaded'[j] = loaded[j] /\ recount'[j] = recount[j] /\ missed'[j] = missed[j]
  PROVE  CountsInv'
<1>0. reloads \in Nat
  BY DEF CountsInv, CountsTypes
<1>1. ASSUME NEW j \in A!Kinds \ {k} PROVE KindIsOK(j)'
  <2>1. KindOK(created[j], counted[j], totalRow[j], upserts[j], loaded[j].pc,
               loaded[j].row, recount[j].pc, recount[j].left, recount[j].number,
               missed[j], reloads * MaxCreations)
    BY DEF CountsInv, KindIsOK
  <2>2. reloads * MaxCreations \in Nat
    BY <1>0, GrownByOne
  <2>3. KindOK(created[j], counted[j], totalRow[j], upserts[j], loaded[j].pc,
               loaded[j].row, recount[j].pc, recount[j].left, recount[j].number,
               missed[j], reloads' * MaxCreations)
    <3>1. CASE reloads' = reloads
      BY <2>1, <3>1
    <3>2. CASE reloads' = reloads + 1
      <4>1. reloads' * MaxCreations = reloads * MaxCreations + MaxCreations
        BY <1>0, <3>2, GrownByOne
      <4>2. KindOK(created[j], counted[j], totalRow[j], upserts[j],
                   loaded[j].pc, loaded[j].row, recount[j].pc, recount[j].left,
                   recount[j].number, missed[j],
                   reloads * MaxCreations + MaxCreations)
        BY <2>1, <2>2, GrownKeepsKind
      <4> QED BY <4>1, <4>2
    <3> QED BY <3>1, <3>2
  <2> QED BY <2>3 DEF KindIsOK
<1> QED BY <1>1 DEF CountsInv

LEMMA CountsNext == CountsInv /\ A!Next => CountsInv'
<1> SUFFICES ASSUME CountsInv, A!Next PROVE CountsInv'
  OBVIOUS
<1>0. CountsTypes /\ reloads \in Nat /\ reloads * MaxCreations \in Nat
  BY GrownByOne DEF CountsInv, CountsTypes
<1>1. ASSUME NEW k \in A!Kinds
      PROVE  /\ KindOK(created[k], counted[k], totalRow[k], upserts[k],
                   loaded[k].pc, loaded[k].row, recount[k].pc, recount[k].left,
                   recount[k].number, missed[k], reloads * MaxCreations)
             /\ recount[k] = A!Idle <=> recount[k].pc = "idle"
             /\ A!Settled(k) <=> upserts[k] = {} /\ recount[k].pc = "idle"
             /\ missed[k] \subseteq Slips /\ upserts[k] \subseteq Int
             /\ created[k] \in Int /\ counted[k] \in Int /\ totalRow[k] \in Int
             /\ recount[k] \in Recounts /\ loaded[k] \in Loads
             /\ A!Plus(counted[k]) = IF counted[k] = -1 THEN 1 ELSE counted[k] + 1
             /\ A!Plus(counted[k]) \in Int
  <2>1. KindOK(created[k], counted[k], totalRow[k], upserts[k], loaded[k].pc,
               loaded[k].row, recount[k].pc, recount[k].left, recount[k].number,
               missed[k], reloads * MaxCreations)
    BY DEF CountsInv, KindIsOK
  <2>2. /\ missed[k] \subseteq Slips /\ upserts[k] \subseteq Int
        /\ created[k] \in Int /\ counted[k] \in Int /\ totalRow[k] \in Int
        /\ recount[k] \in Recounts /\ loaded[k] \in Loads
    BY <1>0 DEF CountsTypes
  <2>3. recount[k] = A!Idle <=> recount[k].pc = "idle"
    <3>1. recount[k].pc = "idle" => recount[k].left = 0 /\ recount[k].number = 0
      BY <2>1 DEF KindOK, KindTypes
    <3>2. recount[k].pc = "idle" => recount[k] = [pc |-> "idle", left |-> 0, number |-> 0]
      BY <2>2, <3>1 DEF Recounts
    <3> QED BY <3>2 DEF A!Idle
  <2>4. A!Settled(k) <=> upserts[k] = {} /\ recount[k].pc = "idle"
    BY <2>3 DEF A!Settled
  <2>5. /\ A!Plus(counted[k]) = IF counted[k] = -1 THEN 1 ELSE counted[k] + 1
        /\ A!Plus(counted[k]) \in Int
    BY <2>2 DEF A!Plus, A!None
  <2> QED BY <2>1, <2>2, <2>3, <2>4, <2>5
<1>2. CASE A!PaymentEvent \/ A!SubscriptionEvent
  <2>1. PICK k \in A!Kinds : A!Unnamed(k)
    BY <1>2 DEF A!PaymentEvent, A!SubscriptionEvent, A!Kinds
  <2>2. CountsTypes'
    BY <1>0, <2>1 DEF A!Unnamed, CountsTypes
  <2>3. KindIsOK(k)'
    BY <2>1 DEF A!Unnamed, CountsInv, KindIsOK
  <2> QED BY <2>1, <2>2, <2>3, OneKindMoves DEF A!Unnamed
<1>3. ASSUME NEW k \in A!Kinds, A!Created(k) PROVE CountsInv'
  <2> DEFINE plus == A!Plus(counted[k])
             mj == missed[k] \cup ((IF recount[k] # A!Idle THEN {"rebuild"} ELSE {})
                                 \cup (IF A!Quiet(k) THEN {} ELSE {"overlap"}))
  <2>0. /\ plus = IF counted[k] = -1 THEN 1 ELSE counted[k] + 1
        /\ plus \in Int /\ upserts[k] \cup {plus} \in SUBSET Int /\ created[k] + 1 \in Int
        /\ missed[k] \subseteq mj /\ mj \in SUBSET Slips
        /\ recount[k].pc # "idle" => "rebuild" \in mj
        /\ loaded[k].pc # "down" =>
             (~ (upserts[k] = {} /\ loaded[k].pc = "idle" /\ recount[k].pc = "idle") => "overlap" \in mj)
    BY <1>1 DEF A!Quiet, Slips, Loads
  <2>1. /\ created[k] < MaxCreations /\ loaded[k].pc # "down"
        /\ created' = [created EXCEPT ![k] = @ + 1]
        /\ counted' = [counted EXCEPT ![k] = plus]
        /\ upserts' = [upserts EXCEPT ![k] = @ \cup {plus}]
        /\ missed' = [missed EXCEPT ![k] = mj]
        /\ others' = others /\ totalRow' = totalRow /\ loaded' = loaded
        /\ recount' = recount /\ reloads' = reloads
    BY <1>1, <1>3 DEF A!Created, A!Up, A!Miss
  <2> HIDE DEF plus, mj
  <2>2. CountsTypes'
    BY <1>0, <2>0, <2>1 DEF CountsTypes
  <2>3. /\ created'[k] = created[k] + 1
        /\ counted'[k] = plus
        /\ upserts'[k] = upserts[k] \cup {plus}
        /\ missed'[k] = mj
    BY <1>0, <2>1 DEF CountsTypes
  <2>4. KindOK(created[k] + 1, plus, totalRow[k], upserts[k] \cup {plus},
               loaded[k].pc, loaded[k].row, recount[k].pc, recount[k].left,
               recount[k].number, mj, reloads * MaxCreations)
    <3> DEFINE cr == created[k]
               co == counted[k]
               ro == totalRow[k]
               up == upserts[k]
               lp == loaded[k].pc
               lr == loaded[k].row
               rp == recount[k].pc
               rl == recount[k].left
               rn == recount[k].number
               mi == missed[k]
               grown == reloads * MaxCreations
    <3>1. /\ KindOK(cr, co, ro, up, lp, lr, rp, rl, rn, mi, grown)
          /\ grown \in Nat
          /\ cr < MaxCreations /\ lp # "down"
          /\ plus = IF co = -1 THEN 1 ELSE co + 1
          /\ mi \subseteq mj /\ (rp # "idle" => "rebuild" \in mj)
          /\ ~ (up = {} /\ lp = "idle" /\ rp = "idle") => "overlap" \in mj
      BY <1>0, <1>1, <2>0, <2>1
    <3> HIDE DEF cr, co, ro, up, lp, lr, rp, rl, rn, mi, grown
    <3>2. KindOK(cr + 1, plus, ro, up \cup {plus}, lp, lr, rp, rl, rn, mj, grown)
      BY <3>1, CreatedKeepsKind
    <3> QED BY <3>2 DEF cr, co, ro, up, lp, lr, rp, rl, rn, mi, grown
  <2>6. KindIsOK(k)'
    BY <2>0, <2>1, <2>3, <2>4 DEF KindIsOK
  <2> QED BY <1>0, <2>1, <2>2, <2>6, OneKindMoves DEF CountsTypes
<1>4. ASSUME NEW k \in A!Kinds, A!Saved(k) PROVE CountsInv'
  <2> DEFINE mj(n) == IF n = counted[k] THEN missed[k] \ {"unsaved"} ELSE missed[k]
  <2>1. PICK n \in upserts[k] : /\ totalRow' = [totalRow EXCEPT ![k] = n]
                                /\ upserts' = [upserts EXCEPT ![k] = @ \ {n}]
                                /\ missed' = [missed EXCEPT ![k] = mj(n)]
    BY <1>4 DEF A!Saved
  <2>2. /\ created' = created /\ others' = others /\ counted' = counted /\ loaded' = loaded
        /\ recount' = recount /\ reloads' = reloads
    BY <1>4 DEF A!Saved
  <2>3. n \in Int /\ upserts[k] \ {n} \in SUBSET Int /\ mj(n) \in SUBSET Slips
    BY <1>1, <2>1
  <2>4. mj(n) = IF n = counted[k] THEN missed[k] \ {"unsaved"} ELSE missed[k]
    OBVIOUS
  <2> HIDE DEF mj
  <2>5. CountsTypes'
    BY <1>0, <2>1, <2>2, <2>3 DEF CountsTypes
  <2>6. totalRow'[k] = n /\ upserts'[k] = upserts[k] \ {n} /\ missed'[k] = mj(n)
    BY <1>0, <2>1 DEF CountsTypes
  <2>7. KindOK(created[k], counted[k], n, upserts[k] \ {n}, loaded[k].pc,
               loaded[k].row, recount[k].pc, recount[k].left, recount[k].number,
               mj(n), reloads * MaxCreations)
    BY <1>0, <1>1, <2>1, <2>4, SavedKeepsKind
  <2>8. KindIsOK(k)'
    BY <2>2, <2>6, <2>7 DEF KindIsOK
  <2> QED BY <1>0, <2>1, <2>2, <2>5, <2>8, OneKindMoves DEF CountsTypes
<1>5. ASSUME NEW k \in A!Kinds, A!NotSaved(k) PROVE CountsInv'
  <2>1. PICK n \in upserts[k] : upserts' = [upserts EXCEPT ![k] = @ \ {n}]
    BY <1>5 DEF A!NotSaved
  <2>2. /\ created' = created /\ others' = others /\ counted' = counted /\ loaded' = loaded
        /\ totalRow' = totalRow /\ recount' = recount /\ reloads' = reloads
        /\ missed' = [missed EXCEPT ![k] = @ \cup {"unsaved"}]
    BY <1>5 DEF A!NotSaved, A!Miss
  <2>3. upserts[k] \ {n} \in SUBSET Int /\ missed[k] \cup {"unsaved"} \in SUBSET Slips
    BY <1>1 DEF Slips
  <2>5. CountsTypes'
    BY <1>0, <2>1, <2>2, <2>3 DEF CountsTypes
  <2>6. upserts'[k] = upserts[k] \ {n} /\ missed'[k] = missed[k] \cup {"unsaved"}
    BY <1>0, <2>1, <2>2 DEF CountsTypes
  <2>7. KindOK(created[k], counted[k], totalRow[k], upserts[k] \ {n},
               loaded[k].pc, loaded[k].row, recount[k].pc, recount[k].left,
               recount[k].number, missed[k] \cup {"unsaved"},
               reloads * MaxCreations)
    BY <1>0, <1>1, <2>1, NotSavedKeepsKind
  <2>8. KindIsOK(k)'
    BY <2>2, <2>6, <2>7 DEF KindIsOK
  <2> QED BY <1>0, <2>1, <2>2, <2>5, <2>8, OneKindMoves DEF CountsTypes
<1>6. ASSUME NEW k \in A!Kinds, A!StartRebuild(k) PROVE CountsInv'
  <2>r. recount[k].pc = "idle"
    BY <1>1, <1>6 DEF A!StartRebuild
  <2> DEFINE rq == [recount[k] EXCEPT !.pc = "clear"]
             mj == IF A!Quiet(k) THEN {} ELSE {"rebuild"}
  <2>0. /\ rq.pc = "clear" /\ rq.left = recount[k].left /\ rq.number = recount[k].number
        /\ rq \in Recounts
        /\ loaded[k].pc # "down" =>
             mj = IF upserts[k] = {} /\ loaded[k].pc = "idle" THEN {} ELSE {"rebuild"}
        /\ mj \in SUBSET Slips
    BY <1>1, <2>r DEF A!Quiet, Slips, Recounts, Loads
  <2>1. /\ loaded[k].pc # "down"
        /\ counted' = [counted EXCEPT ![k] = -1]
        /\ recount' = [recount EXCEPT ![k] = rq]
        /\ reloads < MaxReloads /\ reloads' = reloads + 1
        /\ missed' = [missed EXCEPT ![k] = mj]
        /\ created' = created /\ others' = others /\ totalRow' = totalRow
        /\ upserts' = upserts /\ loaded' = loaded
    BY <1>1, <1>6 DEF A!StartRebuild, A!Reload, A!None, A!Up
  <2> HIDE DEF rq, mj
  <2>2. CountsTypes'
    BY <1>0, <2>0, <2>1, ReadersAssumption DEF CountsTypes
  <2>3. counted'[k] = -1 /\ recount'[k] = rq /\ missed'[k] = mj
    BY <1>0, <2>1 DEF CountsTypes
  <2>4. KindOK(created[k], -1, totalRow[k], upserts[k], loaded[k].pc,
               loaded[k].row, "clear", recount[k].left, recount[k].number, mj,
               reloads * MaxCreations + MaxCreations)
    <3> DEFINE cr == created[k]
               co == counted[k]
               ro == totalRow[k]
               up == upserts[k]
               lp == loaded[k].pc
               lr == loaded[k].row
               rp == recount[k].pc
               rl == recount[k].left
               rn == recount[k].number
               mi == missed[k]
               grown == reloads * MaxCreations
    <3>1. /\ KindOK(cr, co, ro, up, lp, lr, rp, rl, rn, mi, grown)
          /\ grown \in Nat
          /\ rp = "idle"
          /\ mj = IF up = {} /\ lp = "idle" THEN {} ELSE {"rebuild"}
      BY <1>0, <1>1, <2>0, <2>1, <2>r
    <3> HIDE DEF cr, co, ro, up, lp, lr, rp, rl, rn, mi, grown
    <3>2. KindOK(cr, -1, ro, up, lp, lr, "clear", rl, rn, mj, grown + MaxCreations)
      BY <3>1, StartKeepsKind
    <3> QED BY <3>2 DEF cr, co, ro, up, lp, lr, rp, rl, rn, mi, grown
  <2>5. reloads' * MaxCreations = reloads * MaxCreations + MaxCreations
    BY <1>0, <2>1, GrownByOne
  <2>6. KindIsOK(k)'
    BY <2>0, <2>1, <2>3, <2>4, <2>5 DEF KindIsOK
  <2> QED BY <1>0, <2>1, <2>2, <2>6, OneKindMoves DEF CountsTypes
<1>7. ASSUME NEW k \in A!Kinds, A!Cleared(k) PROVE CountsInv'
  <2>r. recount[k].number = 0
    BY <1>1, <1>7 DEF A!Cleared, KindOK, KindTypes
  <2> DEFINE rq == [A!Idle EXCEPT !.pc = "count", !.left = created[k]]
  <2>0. /\ rq.pc = "count" /\ rq.left = created[k] /\ rq.number = recount[k].number
        /\ rq \in Recounts
    BY <1>1, <2>r, IdleFields DEF Recounts
  <2>1. /\ recount[k].pc = "clear"
        /\ totalRow' = [totalRow EXCEPT ![k] = -1]
        /\ recount' = [recount EXCEPT ![k] = rq]
        /\ created' = created /\ others' = others /\ counted' = counted
        /\ upserts' = upserts /\ loaded' = loaded /\ reloads' = reloads
        /\ missed' = missed
    BY <1>1, <1>7 DEF A!Cleared, A!None
  <2> HIDE DEF rq
  <2>2. CountsTypes'
    BY <1>0, <2>0, <2>1 DEF CountsTypes
  <2>3. totalRow'[k] = -1 /\ recount'[k] = rq
    BY <1>0, <2>1 DEF CountsTypes
  <2>4. KindOK(created[k], counted[k], -1, upserts[k], loaded[k].pc,
               loaded[k].row, "count", created[k], recount[k].number, missed[k],
               reloads * MaxCreations)
    <3> DEFINE cr == created[k]
               co == counted[k]
               ro == totalRow[k]
               up == upserts[k]
               lp == loaded[k].pc
               lr == loaded[k].row
               rp == recount[k].pc
               rl == recount[k].left
               rn == recount[k].number
               mi == missed[k]
               grown == reloads * MaxCreations
    <3>1. /\ KindOK(cr, co, ro, up, lp, lr, rp, rl, rn, mi, grown)
          /\ grown \in Nat
          /\ rp = "clear"
      BY <1>0, <1>1, <2>0, <2>1
    <3> HIDE DEF cr, co, ro, up, lp, lr, rp, rl, rn, mi, grown
    <3>2. KindOK(cr, co, -1, up, lp, lr, "count", cr, rn, mi, grown)
      BY <3>1, ClearedKeepsKind
    <3> QED BY <3>2 DEF cr, co, ro, up, lp, lr, rp, rl, rn, mi, grown
  <2>6. KindIsOK(k)'
    BY <2>0, <2>1, <2>3, <2>4 DEF KindIsOK
  <2> QED BY <1>0, <2>1, <2>2, <2>6, OneKindMoves DEF CountsTypes
<1>8. ASSUME NEW k \in A!Kinds, A!CountAgain(k) PROVE CountsInv'
  <2>a. CASE recount[k].left = 0
    <3>r. recount[k].left = 0 /\ recount[k].number = 0
      BY <1>1, <1>8, <2>a DEF A!CountAgain, KindOK, KindTypes
    <3> DEFINE rq == A!Idle
    <3>0. /\ rq.pc = "idle" /\ rq.left = recount[k].left /\ rq.number = recount[k].number
          /\ rq \in Recounts
      BY <1>1, <3>r, IdleFields
    <3>1. /\ recount[k].pc = "count"
          /\ recount' = [recount EXCEPT ![k] = rq]
          /\ created' = created /\ others' = others /\ counted' = counted
          /\ totalRow' = totalRow /\ upserts' = upserts /\ loaded' = loaded
          /\ reloads' = reloads /\ missed' = missed
      BY <1>1, <1>8, <2>a DEF A!CountAgain
    <3> HIDE DEF rq
    <3>2. CountsTypes'
      BY <1>0, <3>0, <3>1 DEF CountsTypes
    <3>3. recount'[k] = rq
      BY <1>0, <3>1 DEF CountsTypes
    <3>4. KindOK(created[k], counted[k], totalRow[k], upserts[k], loaded[k].pc,
                 loaded[k].row, "idle", recount[k].left, recount[k].number,
                 missed[k], reloads * MaxCreations)
      BY <1>0, <1>1, <3>0, <3>1, <3>r, RebuiltKeepsKind
    <3>6. KindIsOK(k)'
      BY <3>0, <3>1, <3>3, <3>4 DEF KindIsOK
    <3> QED BY <1>0, <3>1, <3>2, <3>6, OneKindMoves DEF CountsTypes
  <2>b. CASE recount[k].left # 0
    <3> DEFINE plus == A!Plus(counted[k])
               rq == [pc |-> "save", left |-> recount[k].left - 1, number |-> plus]
    <3>0. /\ plus = IF counted[k] = -1 THEN 1 ELSE counted[k] + 1
          /\ plus \in Int
          /\ rq.pc = "save" /\ rq.left = recount[k].left - 1 /\ rq.number = plus
          /\ rq \in Recounts
      BY <1>1 DEF Recounts
    <3>1. /\ recount[k].pc = "count"
          /\ counted' = [counted EXCEPT ![k] = plus]
          /\ recount' = [recount EXCEPT ![k] = rq]
          /\ created' = created /\ others' = others /\ totalRow' = totalRow
          /\ upserts' = upserts /\ loaded' = loaded /\ reloads' = reloads
          /\ missed' = missed
      BY <1>1, <1>8, <2>b DEF A!CountAgain
    <3> HIDE DEF plus, rq
    <3>2. CountsTypes'
      BY <1>0, <3>0, <3>1 DEF CountsTypes
    <3>3. counted'[k] = plus /\ recount'[k] = rq
      BY <1>0, <3>1 DEF CountsTypes
    <3>4. KindOK(created[k], plus, totalRow[k], upserts[k], loaded[k].pc,
                 loaded[k].row, "save", recount[k].left - 1, plus, missed[k],
                 reloads * MaxCreations)
      <4> DEFINE cr == created[k]
                 co == counted[k]
                 ro == totalRow[k]
                 up == upserts[k]
                 lp == loaded[k].pc
                 lr == loaded[k].row
                 rp == recount[k].pc
                 rl == recount[k].left
                 rn == recount[k].number
                 mi == missed[k]
                 grown == reloads * MaxCreations
      <4>1. /\ KindOK(cr, co, ro, up, lp, lr, rp, rl, rn, mi, grown)
            /\ grown \in Nat /\ rp = "count" /\ rl # 0
            /\ plus = IF co = -1 THEN 1 ELSE co + 1
        BY <1>0, <1>1, <3>0, <3>1, <2>b
      <4> HIDE DEF cr, co, ro, up, lp, lr, rp, rl, rn, mi, grown
      <4>2. KindOK(cr, plus, ro, up, lp, lr, "save", rl - 1, plus, mi, grown)
        BY <4>1, CountKeepsKind
      <4> QED BY <4>2 DEF cr, co, ro, up, lp, lr, rp, rl, rn, mi, grown
    <3>6. KindIsOK(k)'
      BY <3>0, <3>1, <3>3, <3>4 DEF KindIsOK
    <3> QED BY <1>0, <3>1, <3>2, <3>6, OneKindMoves DEF CountsTypes
  <2> QED BY <2>a, <2>b
<1>9. ASSUME NEW k \in A!Kinds, A!SavedAgain(k) PROVE CountsInv'
  <2>r. recount[k] \in Recounts
    BY <1>1
  <2> DEFINE rq == [pc |-> "count", left |-> recount[k].left, number |-> 0]
  <2>0. /\ rq.pc = "count" /\ rq.left = recount[k].left /\ rq.number = 0
        /\ rq \in Recounts
        /\ recount[k].number \in Int
    BY <2>r DEF Recounts
  <2>1. /\ recount[k].pc = "save"
        /\ totalRow' = [totalRow EXCEPT ![k] = recount[k].number]
        /\ recount' = [recount EXCEPT ![k] = rq]
        /\ created' = created /\ others' = others /\ counted' = counted
        /\ upserts' = upserts /\ loaded' = loaded /\ reloads' = reloads
        /\ missed' = missed
    BY <1>1, <1>9 DEF A!SavedAgain
  <2> HIDE DEF rq
  <2>2. CountsTypes'
    BY <1>0, <2>0, <2>1 DEF CountsTypes
  <2>3. totalRow'[k] = recount[k].number /\ recount'[k] = rq
    BY <1>0, <2>1 DEF CountsTypes
  <2>4. KindOK(created[k], counted[k], recount[k].number, upserts[k],
               loaded[k].pc, loaded[k].row, "count", recount[k].left, 0,
               missed[k], reloads * MaxCreations)
    <3> DEFINE cr == created[k]
               co == counted[k]
               ro == totalRow[k]
               up == upserts[k]
               lp == loaded[k].pc
               lr == loaded[k].row
               rp == recount[k].pc
               rl == recount[k].left
               rn == recount[k].number
               mi == missed[k]
               grown == reloads * MaxCreations
    <3>1. /\ KindOK(cr, co, ro, up, lp, lr, rp, rl, rn, mi, grown)
          /\ grown \in Nat
          /\ rp = "save"
      BY <1>0, <1>1, <2>0, <2>1
    <3> HIDE DEF cr, co, ro, up, lp, lr, rp, rl, rn, mi, grown
    <3>2. KindOK(cr, co, rn, up, lp, lr, "count", rl, 0, mi, grown)
      BY <3>1, SavedAgainKeepsKind
    <3> QED BY <3>2 DEF cr, co, ro, up, lp, lr, rp, rl, rn, mi, grown
  <2>6. KindIsOK(k)'
    BY <2>0, <2>1, <2>3, <2>4 DEF KindIsOK
  <2> QED BY <1>0, <2>1, <2>2, <2>6, OneKindMoves DEF CountsTypes
<1>10. ASSUME NEW k \in A!Kinds, A!ClearThrows(k) PROVE CountsInv'
  <2> DEFINE rq == A!Idle
             mj == missed[k] \cup {"rebuild"}
  <2>0. /\ rq.pc = "idle" /\ rq.left = 0 /\ rq.number = 0
        /\ rq \in Recounts
        /\ missed[k] \subseteq mj /\ mj \in SUBSET Slips
        /\ mj \cap {"rebuild", "aborted"} # {}
        /\ "rebuild" \in mj
    BY <1>1, IdleFields DEF Slips
  <2>1. /\ recount[k].pc = "clear"
        /\ recount' = [recount EXCEPT ![k] = rq]
        /\ missed' = [missed EXCEPT ![k] = mj]
        /\ created' = created /\ others' = others /\ counted' = counted
        /\ totalRow' = totalRow /\ upserts' = upserts /\ loaded' = loaded
        /\ reloads' = reloads
    BY <1>1, <1>10 DEF A!ClearThrows, A!Miss
  <2> HIDE DEF rq, mj
  <2>2. CountsTypes'
    BY <1>0, <2>0, <2>1 DEF CountsTypes
  <2>3. recount'[k] = rq /\ missed'[k] = mj
    BY <1>0, <2>1 DEF CountsTypes
  <2>4. KindOK(created[k], counted[k], totalRow[k], upserts[k], loaded[k].pc,
               loaded[k].row, "idle", 0, 0, mj, reloads * MaxCreations)
    <3> DEFINE cr == created[k]
               co == counted[k]
               ro == totalRow[k]
               up == upserts[k]
               lp == loaded[k].pc
               lr == loaded[k].row
               rp == recount[k].pc
               rl == recount[k].left
               rn == recount[k].number
               mi == missed[k]
               grown == reloads * MaxCreations
    <3>1. /\ KindOK(cr, co, ro, up, lp, lr, rp, rl, rn, mi, grown)
          /\ grown \in Nat
          /\ rp = "clear" /\ rp # "idle" /\ mi \subseteq mj
          /\ "rebuild" \in mj /\ mj \cap {"rebuild", "aborted"} # {}
      BY <1>0, <1>1, <2>0, <2>1
    <3> HIDE DEF cr, co, ro, up, lp, lr, rp, rl, rn, mi, grown
    <3>2. KindOK(cr, co, ro, up, lp, lr, "idle", 0, 0, mj, grown)
      BY <3>1, RebuildThrowsKeepsKind
    <3> QED BY <3>2 DEF cr, co, ro, up, lp, lr, rp, rl, rn, mi, grown
  <2>6. KindIsOK(k)'
    BY <2>0, <2>1, <2>3, <2>4 DEF KindIsOK
  <2> QED BY <1>0, <2>1, <2>2, <2>6, OneKindMoves DEF CountsTypes
<1>11. ASSUME NEW k \in A!Kinds, A!RebuildThrows(k) PROVE CountsInv'
  <2> DEFINE rq == A!Idle
             mj == missed[k] \cup {"aborted"}
  <2>0. /\ rq.pc = "idle" /\ rq.left = 0 /\ rq.number = 0
        /\ rq \in Recounts
        /\ missed[k] \subseteq mj /\ mj \in SUBSET Slips
        /\ mj \cap {"rebuild", "aborted"} # {}
    BY <1>1, IdleFields DEF Slips
  <2>1. /\ recount[k].pc \in {"count", "save"}
        /\ recount' = [recount EXCEPT ![k] = rq]
        /\ missed' = [missed EXCEPT ![k] = mj]
        /\ created' = created /\ others' = others /\ counted' = counted
        /\ totalRow' = totalRow /\ upserts' = upserts /\ loaded' = loaded
        /\ reloads' = reloads
    BY <1>1, <1>11 DEF A!RebuildThrows, A!Miss
  <2> HIDE DEF rq, mj
  <2>2. CountsTypes'
    BY <1>0, <2>0, <2>1 DEF CountsTypes
  <2>3. recount'[k] = rq /\ missed'[k] = mj
    BY <1>0, <2>1 DEF CountsTypes
  <2>4. KindOK(created[k], counted[k], totalRow[k], upserts[k], loaded[k].pc,
               loaded[k].row, "idle", 0, 0, mj, reloads * MaxCreations)
    <3> DEFINE cr == created[k]
               co == counted[k]
               ro == totalRow[k]
               up == upserts[k]
               lp == loaded[k].pc
               lr == loaded[k].row
               rp == recount[k].pc
               rl == recount[k].left
               rn == recount[k].number
               mi == missed[k]
               grown == reloads * MaxCreations
    <3>1. /\ KindOK(cr, co, ro, up, lp, lr, rp, rl, rn, mi, grown)
          /\ grown \in Nat
          /\ rp \in {"count", "save"} /\ rp # "idle" /\ rp # "clear"
          /\ mi \subseteq mj /\ mj \cap {"rebuild", "aborted"} # {}
      BY <1>0, <1>1, <2>0, <2>1
    <3> HIDE DEF cr, co, ro, up, lp, lr, rp, rl, rn, mi, grown
    <3>2. KindOK(cr, co, ro, up, lp, lr, "idle", 0, 0, mj, grown)
      BY <3>1, RebuildThrowsKeepsKind
    <3> QED BY <3>2 DEF cr, co, ro, up, lp, lr, rp, rl, rn, mi, grown
  <2>6. KindIsOK(k)'
    BY <2>0, <2>1, <2>3, <2>4 DEF KindIsOK
  <2> QED BY <1>0, <2>1, <2>2, <2>6, OneKindMoves DEF CountsTypes
<1>12. ASSUME NEW k \in A!Kinds, A!LoadDone(k) PROVE CountsInv'
  <2> DEFINE lq == A!NoLoad
  <2>0. /\ lq.pc = "idle" /\ lq \in Loads
        /\ loaded[k].row = -1 /\ lq.row = loaded[k].row
    BY <1>1, <1>12, IdleFields DEF A!LoadDone, A!None
  <2>1. /\ loaded[k].pc = "start"
        /\ loaded' = [loaded EXCEPT ![k] = lq]
        /\ created' = created /\ others' = others /\ counted' = counted
        /\ totalRow' = totalRow /\ upserts' = upserts /\ recount' = recount
        /\ reloads' = reloads /\ missed' = missed
    BY <1>1, <1>12 DEF A!LoadDone
  <2> HIDE DEF lq
  <2>2. CountsTypes'
    BY <1>0, <2>0, <2>1 DEF CountsTypes
  <2>3. loaded'[k] = lq
    BY <1>0, <2>1 DEF CountsTypes
  <2>4. KindOK(created[k], counted[k], totalRow[k], upserts[k], "idle",
               loaded[k].row, recount[k].pc, recount[k].left, recount[k].number,
               missed[k], reloads * MaxCreations)
    <3> DEFINE cr == created[k]
               co == counted[k]
               ro == totalRow[k]
               up == upserts[k]
               lp == loaded[k].pc
               lr == loaded[k].row
               rp == recount[k].pc
               rl == recount[k].left
               rn == recount[k].number
               mi == missed[k]
               grown == reloads * MaxCreations
    <3>1. /\ KindOK(cr, co, ro, up, lp, lr, rp, rl, rn, mi, grown)
          /\ grown \in Nat
          /\ lp = "start" /\ lr = -1
      BY <1>0, <1>1, <2>0, <2>1
    <3> HIDE DEF cr, co, ro, up, lp, lr, rp, rl, rn, mi, grown
    <3>2. KindOK(cr, co, ro, up, "idle", lr, rp, rl, rn, mi, grown)
      BY <3>1, LoadDoneKeepsKind
    <3> QED BY <3>2 DEF cr, co, ro, up, lp, lr, rp, rl, rn, mi, grown
  <2>6. KindIsOK(k)'
    BY <2>0, <2>1, <2>3, <2>4 DEF KindIsOK
  <2> QED BY <1>0, <2>1, <2>2, <2>6, OneKindMoves DEF CountsTypes
<1>13. ASSUME A!Restart \/ \E k \in A!Kinds : A!LoadThrows(k) PROVE CountsInv'
  <2> DEFINE mj(k) ==
               (IF A!Settled(k) /\ missed[k] = {} THEN {} ELSE missed[k] \cup {"restart"})
               \cup (IF recount[k].pc = "clear" THEN {"rebuild"} ELSE {})
  <2>1. PICK then \in [A!Kinds -> Loads] :
          /\ \A k \in A!Kinds : \/ then[k].pc = "start" /\ then[k].row = totalRow[k]
                                \/ then[k].pc = "down" /\ then[k].row = -1
          /\ loaded' = then
          /\ counted' = [k \in A!Kinds |-> -1] /\ upserts' = [k \in A!Kinds |-> {}]
          /\ recount' = [k \in A!Kinds |-> A!Idle] /\ missed' = [k \in A!Kinds |-> mj(k)]
    <3>1. CASE A!Restart
      <4> DEFINE then == [k \in A!Kinds |-> [pc |-> "start", row |-> totalRow[k]]]
      <4>1. then \in [A!Kinds -> Loads]
        BY <1>1 DEF Loads
      <4>2. \A k \in A!Kinds : then[k].pc = "start" /\ then[k].row = totalRow[k]
        OBVIOUS
      <4> QED BY <3>1, <4>1, <4>2 DEF A!Restart, A!Ends, A!None
    <3>2. CASE \E k \in A!Kinds : A!LoadThrows(k)
      <4> DEFINE then == [k \in A!Kinds |-> A!Down]
      <4>1. then \in [A!Kinds -> Loads]
        BY IdleFields
      <4>2. \A k \in A!Kinds : then[k].pc = "down" /\ then[k].row = -1
        BY IdleFields
      <4> QED BY <3>2, <4>1, <4>2 DEF A!LoadThrows, A!Ends, A!None
    <3> QED BY <1>13, <3>1, <3>2
  <2>2. /\ created' = created /\ others' = others /\ totalRow' = totalRow
        /\ reloads' = reloads \/ (reloads < MaxReloads /\ reloads' = reloads + 1)
    BY <1>13 DEF A!Restart, A!LoadThrows, A!Reload
  <2>3. ASSUME NEW k \in A!Kinds
        PROVE  /\ mj(k) \in SUBSET Slips /\ missed[k] \subseteq mj(k)
               /\ recount[k].pc = "clear" => "rebuild" \in mj(k)
               /\ ~ (upserts[k] = {} /\ recount[k].pc = "idle" /\ missed[k] = {}) =>
                    "restart" \in mj(k)
               /\ upserts[k] = {} /\ recount[k].pc = "idle" /\ missed[k] = {} => mj(k) = {}
    BY <1>1 DEF Slips
  <2> HIDE DEF mj
  <2>4. CountsTypes'
    <3>1. reloads' \in 0..MaxReloads
      BY <1>0, <2>2, ReadersAssumption DEF CountsTypes
    <3>2. /\ counted' \in [A!Kinds -> Int] /\ upserts' \in [A!Kinds -> SUBSET Int]
          /\ missed' \in [A!Kinds -> SUBSET Slips] /\ recount' \in [A!Kinds -> Recounts]
      BY <2>1, <2>3, IdleFields
    <3> QED BY <1>0, <2>1, <2>2, <3>1, <3>2 DEF CountsTypes
  <2>5. ASSUME NEW k \in A!Kinds PROVE KindIsOK(k)'
    <3> DEFINE lq == then[k].pc
               ls == then[k].row
               mk == mj(k)
    <3>1. (lq = "start" /\ ls = totalRow[k]) \/ (lq = "down" /\ ls = -1)
      BY <2>1
    <3>2. /\ counted'[k] = -1 /\ upserts'[k] = {} /\ loaded'[k].pc = lq /\ loaded'[k].row = ls
          /\ recount'[k].pc = "idle" /\ recount'[k].left = 0 /\ recount'[k].number = 0
          /\ missed'[k] = mk
      BY <2>1, IdleFields
    <3>3. /\ missed[k] \subseteq mk /\ (recount[k].pc = "clear" => "rebuild" \in mk)
          /\ ~ (upserts[k] = {} /\ recount[k].pc = "idle" /\ missed[k] = {}) =>
               "restart" \in mk
          /\ upserts[k] = {} /\ recount[k].pc = "idle" /\ missed[k] = {} => mk = {}
      BY <2>3
    <3> HIDE DEF lq, ls, mk
    <3>4. KindOK(created[k], -1, totalRow[k], {}, lq, ls, "idle", 0, 0, mk,
                 reloads * MaxCreations)
      BY <1>0, <1>1, <3>1, <3>3, EndsKeepsKind
    <3>5. KindOK(created[k], -1, totalRow[k], {}, lq, ls, "idle", 0, 0, mk,
                 reloads * MaxCreations + MaxCreations)
      BY <1>0, <3>4, GrownKeepsKind
    <3>6. reloads' * MaxCreations \in
            {reloads * MaxCreations, reloads * MaxCreations + MaxCreations}
      BY <1>0, <2>2, GrownByOne
    <3> QED BY <2>2, <3>2, <3>4, <3>5, <3>6 DEF KindIsOK
  <2> QED BY <2>4, <2>5 DEF CountsInv
<1> QED
  BY <1>2, <1>3, <1>4, <1>5, <1>6, <1>7, <1>8, <1>9, <1>10, <1>11, <1>12, <1>13 DEF A!Next

(* The invariant says what the properties ask. *)
LEMMA CountsTell ==
  CountsInv => A!TypeOK /\ A!TotalsAreCreations /\ A!NeverTooMany /\ A!MemoryIsAhead
<1> SUFFICES ASSUME CountsInv
             PROVE  A!TypeOK /\ A!TotalsAreCreations /\ A!NeverTooMany /\ A!MemoryIsAhead
  OBVIOUS
<1>0. CountsTypes /\ reloads \in 0..MaxReloads /\ reloads \in Nat
  BY ReadersAssumption DEF CountsInv, CountsTypes
<1>1. ASSUME NEW k \in A!Kinds
      PROVE  /\ counted[k] \in A!Number /\ totalRow[k] \in A!Number
             /\ upserts[k] \subseteq A!Number /\ created[k] \in 0..MaxCreations
             /\ A!Quiet(k) /\ missed[k] = {} =>
                  totalRow[k] = IF created[k] = 0 THEN A!None ELSE created[k]
             /\ recount[k] = A!Idle /\ "rebuild" \notin missed[k] => totalRow[k] <= created[k]
             /\ loaded[k].pc = "idle" /\ recount[k] = A!Idle /\ "rebuild" \notin missed[k] =>
                  totalRow[k] <= counted[k]
  <2> DEFINE grown == reloads * MaxCreations
             cr == created[k]
             co == counted[k]
             ro == totalRow[k]
             up == upserts[k]
             lp == loaded[k].pc
             lr == loaded[k].row
             rp == recount[k].pc
             rl == recount[k].left
             rn == recount[k].number
             mi == missed[k]
  <2>1. KindOK(cr, co, ro, up, lp, lr, rp, rl, rn, mi, grown)
    BY DEF CountsInv, KindIsOK
  <2>r. recount[k] = A!Idle => rp = "idle" /\ rl = 0
    BY IdleFields
  <2>q. A!Quiet(k) => up = {} /\ recount[k] = A!Idle /\ lp # "start"
    BY DEF A!Quiet, A!Settled
  <2>3. grown \in Nat /\ MaxCreations \in Nat
    BY <1>0, GrownByOne, ReadersAssumption
  <2>4. grown + MaxCreations <= (1 + MaxReloads) * MaxCreations
    <3>1. reloads + 1 <= MaxReloads + 1 /\ MaxReloads \in Nat
      BY <1>0, ReadersAssumption
    <3>2. (reloads + 1) * MaxCreations <= (1 + MaxReloads) * MaxCreations
      BY <1>0, <3>1, ReadersAssumption
    <3> QED BY <1>0, <3>2, GrownByOne
  <2> HIDE DEF grown, cr, co, ro, up, lp, lr, rp, rl, rn, mi
  <2>2. KindTypes(cr, co, ro, up, lp, lr, rp, rl, rn)
    BY <2>1 DEF KindOK
  <2>5. AtMost(grown + MaxCreations, co, ro, up, rn)
    <3>1. CASE rp = "clear"
      BY <2>1, <2>2, <2>3, <3>1 DEF KindOK, KindBounded, AtMost, KindTypes
    <3>2. CASE rp # "clear"
      BY <2>1, <2>2, <2>3, <3>2 DEF KindOK, KindBounded, AtMost, KindTypes
    <3> QED BY <3>1, <3>2
  <2> DEFINE bound == (1 + MaxReloads) * MaxCreations
  <2>6. bound \in Int
    BY ReadersAssumption
  <2>7. A!Number = {-1} \cup 0..bound
    BY DEF A!Number, A!None
  <2>b. grown + MaxCreations <= bound
    BY <2>4
  <2> HIDE DEF bound
  <2>8. \A n \in Int : n >= -1 /\ n <= grown + MaxCreations => n \in A!Number
    BY <2>3, <2>b, <2>6, <2>7
  <2>9. co \in A!Number /\ ro \in A!Number /\ up \subseteq A!Number /\ cr \in 0..MaxCreations
    BY <2>2, <2>5, <2>8 DEF KindTypes, AtMost
  <2>11. up = {} /\ rp = "idle" /\ lp # "start" /\ mi = {} => ro = IF cr = 0 THEN -1 ELSE cr
    BY <2>1, <2>2 DEF KindOK, KindTypes, KindExact, Want
  <2>12. rp = "idle" /\ rl = 0 /\ "rebuild" \notin mi => ro <= cr
    BY <2>1 DEF KindOK, KindModest
  <2>13. lp = "idle" /\ rp = "idle" /\ "rebuild" \notin mi => ro <= co
    BY <2>1 DEF KindOK, KindModest
  <2> QED
    BY <2>r, <2>q, <2>9, <2>11, <2>12, <2>13 DEF cr, co, ro, up, lp, rp, rl, mi, A!None
<1> QED
  BY <1>0, <1>1 DEF A!TypeOK, A!TotalsAreCreations, A!NeverTooMany, A!MemoryIsAhead

(***************************************************************************)
(* The monitored payments.  Between overlaps one thing is under way at a   *)
(* time, and for each payment what it shows follows from its last event    *)
(* that was handled; whatever overlaps, a payment that has not ended is in *)
(* memory exactly when its row is or will be, or a rebuild is still to     *)
(* bring both, or the process is to fall over the row.                     *)
(***************************************************************************)
EventNames == {"Created", "Confirmed", "Settled", "Failed", "Cancelled", "Expired"}
Handlers == {"live", "rebuild"}

IsLife(hs) ==
  hs \in {<<>>, <<"Created">>, <<"Created", "Confirmed">>, <<"Created", "Failed">>,
          <<"Created", "Cancelled">>, <<"Created", "Expired">>,
          <<"Created", "Confirmed", "Settled">>, <<"Created", "Confirmed", "Failed">>}
Unfinished(hs) ==
  hs \in {<<"Created">>, <<"Created", "Confirmed">>, <<"Created", "Expired">>}
HasEvent(hs, event) == \E i \in 1..Len(hs) : hs[i] = event

Saving == [pc : {"save", "remove"}, of : MonPayments, event : EventNames]
Loading == [pc : {"start"}, of : SUBSET MonPayments]
Rebuilding == [pc : {"handle"}, todo : [MonPayments -> Seq(EventNames)]]

MonTypes ==
  /\ history \in [MonPayments -> Seq(EventNames)]
  /\ \A p \in MonPayments : IsLife(history[p])
  /\ memory \in [MonPayments -> M!Shown] /\ monRow \in [MonPayments -> M!Shown]
  /\ handler \in [Handlers -> {M!NoHandler} \cup Saving]
  /\ timers \in [MonPayments -> Nat] /\ removals \in [MonPayments -> Nat]
  /\ load \in {M!NoLoad, M!Down} \cup Loading
  /\ rebuild \in {M!NoRebuild, [pc |-> "clear"], [pc |-> "read"]} \cup Rebuilding
  /\ handler["rebuild"] # M!NoHandler => rebuild \in Rebuilding

(* What is handled happened, and what is dropped has ended. *)
MonHappened ==
  /\ \A h \in Handlers : handler[h] # M!NoHandler =>
       /\ HasEvent(history[handler[h].of], handler[h].event)
       /\ handler[h].pc = "remove" => handler[h].event = "Cancelled"
  /\ rebuild \in Rebuilding =>
       \A p \in MonPayments : \A i \in 1..Len(rebuild.todo[p]) :
         HasEvent(history[p], rebuild.todo[p][i])
  /\ \A p \in MonPayments :
       timers[p] > 0 \/ removals[p] > 0 => history[p] # <<>> /\ ~ Unfinished(history[p])

StillToCreate(p) ==
  \/ rebuild.pc \in {"clear", "read"}
  \/ rebuild.pc = "handle" /\ HasEvent(rebuild.todo[p], "Created")

BeingSaved(p) == \E h \in Handlers : handler[h].pc = "save" /\ handler[h].of = p

IsShown(p) ==
  /\ load # M!Down /\ (monRow[p] # "none" \/ BeingSaved(p)) =>
       memory[p] # "none" \/ StillToCreate(p) \/ (load \in Loading /\ p \in load.of)
  /\ memory[p] # "none" \/ "restart" \notin disturbed =>
       monRow[p] # "none" \/ StillToCreate(p) \/ BeingSaved(p)

MonShown ==
  "unsaved" \notin disturbed =>
    \A p \in MonPayments : Unfinished(history[p]) => IsShown(p)

(* What a payment shows when its event was handled, and while it is.        *)
Rests(event, me, ro, ti, re) ==
  \/ event \in {"none", "Cancelled"} /\ me = "none" /\ ro = "none" /\ ti = 0 /\ re = 0
  \/ event \in EventNames \ {"Cancelled"} /\ me = M!Status(event) /\ ro = M!Status(event)
       /\ ti = (IF event \in {"Settled", "Failed"} THEN 1 ELSE 0) /\ re = 0
  \/ event \in {"Settled", "Failed"} /\ me = "none" /\ ro = M!Status(event)
       /\ ti = 0 /\ re = 1
  \/ event \in {"Settled", "Failed"} /\ me = "none" /\ ro = "none" /\ ti = 0 /\ re = 0

Works(ha, event, me, ti, re) ==
  /\ ha.event = event /\ event \in EventNames /\ ti = 0 /\ re = 0
  /\ \/ ha.pc = "save" /\ me = M!Status(event)
     \/ ha.pc = "remove" /\ event = "Cancelled" /\ me = "none"

LastOf(hs, n) == IF n = 0 THEN "none" ELSE hs[n]

PaymentOK(p, ha, hs, n, me, ro, ti, re) ==
  IF ha.pc # "idle" /\ ha.of = p
  THEN Works(ha, LastOf(hs, n), me, ti, re)
  ELSE Rests(LastOf(hs, n), me, ro, ti, re)

(* The events left are the last of those that happened. *)
IsRest(td, hs) ==
  /\ Len(td) <= Len(hs)
  /\ \A i \in 1..Len(td) : td[i] = hs[Len(hs) - Len(td) + i]

HandledBy(h, p) ==
  IF h = "live" THEN Len(history[p]) ELSE Len(history[p]) - Len(rebuild.todo[p])

WorkPhase(h) ==
  /\ load # M!Down
  /\ \A g \in Handlers \ {h} : handler[g] = M!NoHandler
  /\ h = "live" => rebuild = M!NoRebuild
  /\ h = "rebuild" =>
       rebuild \in Rebuilding /\ \A p \in MonPayments : IsRest(rebuild.todo[p], history[p])
  /\ \A p \in MonPayments :
       PaymentOK(p, handler[h], history[p], HandledBy(h, p), memory[p], monRow[p],
                 timers[p], removals[p])

QuietPhase ==
  /\ \A h \in Handlers : handler[h] = M!NoHandler
  /\ \A p \in MonPayments : timers[p] = 0 /\ removals[p] = 0

(* A process has yet to load, or is down. *)
StartPhase ==
  /\ QuietPhase /\ rebuild = M!NoRebuild /\ load # M!NoLoad
  /\ \A p \in MonPayments :
       /\ memory[p] = "none"
       /\ load \in Loading /\ monRow[p] # "none" => p \in load.of
       /\ Rests(LastOf(history[p], Len(history[p])), monRow[p], monRow[p], 0, 0)

ClearPhase ==
  /\ QuietPhase /\ load # M!Down
  /\ rebuild \in {[pc |-> "clear"], [pc |-> "read"]}
  /\ \A p \in MonPayments :
       memory[p] = "none" /\ (rebuild.pc = "read" => monRow[p] = "none")

MonExact ==
  disturbed = {} => (\E h \in Handlers : WorkPhase(h)) \/ StartPhase \/ ClearPhase

MonInv == MonTypes /\ MonHappened /\ MonShown /\ MonExact

-----------------------------------------------------------------------------
(* What a payment's life tells of its events. *)
LEMMA LifeFacts ==
  ASSUME NEW hs, IsLife(hs)
  PROVE  /\ hs \in Seq(EventNames) /\ Len(hs) \in 0..3
         /\ (hs # <<>> /\ ~ M!Finished(hs)) <=> Unfinished(hs)
         /\ hs = <<>> <=> Len(hs) = 0
         /\ Len(hs) > 0 => hs[1] = "Created"
         /\ \A i \in 1..Len(hs) : hs[i] \in EventNames
         /\ \A i \in 1..Len(hs) : hs[i] = "Created" => i = 1
         /\ \A i \in 1..Len(hs) : i + 1 <= Len(hs) => hs[i] \in {"Created", "Confirmed"}
         /\ \A i \in 1..Len(hs) : hs[i] = "Expired" => i = 2 /\ hs[1] = "Created"
         /\ Unfinished(hs) => hs[Len(hs)] \in {"Created", "Confirmed", "Expired"}
         /\ hs # <<>> /\ ~ Unfinished(hs) => hs[Len(hs)] \in {"Settled", "Failed", "Cancelled"}
         /\ \A i \in 1..Len(hs) :
              hs[i] \in {"Settled", "Failed", "Cancelled"} => ~ Unfinished(hs)
<1>1. CASE hs = <<>>
  BY <1>1 DEF M!Finished, Unfinished, EventNames
<1>2. CASE hs = <<"Created">>
  BY <1>2 DEF M!Finished, M!NextEvents, M!Last, Unfinished, EventNames
<1>3. CASE hs = <<"Created", "Confirmed">>
  BY <1>3 DEF M!Finished, M!NextEvents, M!Last, Unfinished, EventNames
<1>4. CASE hs = <<"Created", "Failed">>
  BY <1>4 DEF M!Finished, M!NextEvents, M!Last, Unfinished, EventNames
<1>5. CASE hs = <<"Created", "Cancelled">>
  BY <1>5 DEF M!Finished, M!NextEvents, M!Last, Unfinished, EventNames
<1>6. CASE hs = <<"Created", "Confirmed", "Settled">>
  BY <1>6 DEF M!Finished, M!NextEvents, M!Last, Unfinished, EventNames
<1>7. CASE hs = <<"Created", "Confirmed", "Failed">>
  BY <1>7 DEF M!Finished, M!NextEvents, M!Last, Unfinished, EventNames
<1>8. CASE hs = <<"Created", "Expired">>
  BY <1>8 DEF M!Finished, M!NextEvents, M!Last, Unfinished, EventNames
<1> QED BY <1>1, <1>2, <1>3, <1>4, <1>5, <1>6, <1>7, <1>8 DEF IsLife

LEMMA AppendFacts ==
  ASSUME NEW hs \in Seq(EventNames), NEW event \in EventNames
  PROVE  /\ Append(hs, event) \in Seq(EventNames)
         /\ Len(Append(hs, event)) = Len(hs) + 1
         /\ \A i \in 1..Len(hs) : Append(hs, event)[i] = hs[i]
         /\ Append(hs, event)[Len(hs) + 1] = event
  BY AppendProperties

(* What can follow makes a life again. *)
LEMMA LifeGoesOn ==
  ASSUME NEW hs, IsLife(hs), NEW event, event \in M!NextEvents(hs)
  PROVE  /\ IsLife(Append(hs, event)) /\ event \in EventNames
         /\ hs = <<>> <=> event = "Created"
         /\ hs # <<>> => Unfinished(hs)
         /\ Len(Append(hs, event)) = Len(hs) + 1
         /\ Append(hs, event)[Len(hs) + 1] = event
         /\ \A i \in 1..Len(hs) : Append(hs, event)[i] = hs[i]
         /\ event = "Expired" => Len(hs) = 1 /\ hs[1] = "Created"
<1>1. CASE hs = <<>>
  BY <1>1 DEF M!NextEvents, IsLife, EventNames
<1>2. CASE hs = <<"Created">>
  <2>1. event \in {"Confirmed", "Failed", "Cancelled", "Expired"}
    BY <1>2 DEF M!NextEvents, M!Last
  <2>2. Append(hs, event) = <<"Created", event>>
    <3>1. /\ hs \in Seq(EventNames) /\ Len(hs) = 1 /\ event \in EventNames
          /\ \A i \in 1..1 : hs[i] = <<"Created", event>>[i]
      BY <1>2, <2>1 DEF EventNames
    <3>a. hs \in Seq(EventNames) /\ event \in EventNames /\ Len(hs) = 1
      BY <3>1
    <3>b. /\ Append(hs, event) \in Seq(EventNames)
          /\ Len(Append(hs, event)) = Len(hs) + 1
          /\ \A i \in 1..Len(hs) : Append(hs, event)[i] = hs[i]
          /\ Append(hs, event)[Len(hs) + 1] = event
      BY <3>a, AppendFacts
    <3>2. /\ Append(hs, event) \in Seq(EventNames) /\ Len(Append(hs, event)) = 2
          /\ \A i \in 1..1 : Append(hs, event)[i] = hs[i]
          /\ Append(hs, event)[2] = event
      BY <3>a, <3>b
    <3>3. /\ <<"Created", event>> \in Seq(EventNames) /\ Len(<<"Created", event>>) = 2
          /\ <<"Created", event>>[2] = event
      BY <3>1 DEF EventNames
    <3>4. \A i \in 1..2 : Append(hs, event)[i] = <<"Created", event>>[i]
      BY <3>1, <3>2, <3>3
    <3> QED BY <3>2, <3>3, <3>4, SeqEqual
  <2>3. IsLife(<<"Created", event>>)
    BY <2>1 DEF IsLife
  <2>5. hs \in Seq(EventNames) /\ event \in EventNames /\ hs # <<>> /\ Unfinished(hs)
    BY <1>2, <2>1 DEF EventNames, Unfinished
  <2>6. /\ Len(Append(hs, event)) = Len(hs) + 1
        /\ Append(hs, event)[Len(hs) + 1] = event
        /\ \A i \in 1..Len(hs) : Append(hs, event)[i] = hs[i]
    BY <2>5, AppendFacts
  <2>7. Len(hs) = 1 /\ hs[1] = "Created"
    BY <1>2
  <2> QED BY <2>1, <2>2, <2>3, <2>5, <2>6, <2>7
<1>3. CASE hs = <<"Created", "Confirmed">>
  <2>1. event \in {"Settled", "Failed"}
    BY <1>3 DEF M!NextEvents, M!Last
  <2>2. Append(hs, event) = <<"Created", "Confirmed", event>>
    <3>1. /\ hs \in Seq(EventNames) /\ Len(hs) = 2 /\ event \in EventNames
          /\ \A i \in 1..2 : hs[i] = <<"Created", "Confirmed", event>>[i]
      BY <1>3, <2>1 DEF EventNames
    <3>a. hs \in Seq(EventNames) /\ event \in EventNames /\ Len(hs) = 2
      BY <3>1
    <3>b. /\ Append(hs, event) \in Seq(EventNames)
          /\ Len(Append(hs, event)) = Len(hs) + 1
          /\ \A i \in 1..Len(hs) : Append(hs, event)[i] = hs[i]
          /\ Append(hs, event)[Len(hs) + 1] = event
      BY <3>a, AppendFacts
    <3>2. /\ Append(hs, event) \in Seq(EventNames) /\ Len(Append(hs, event)) = 3
          /\ \A i \in 1..2 : Append(hs, event)[i] = hs[i]
          /\ Append(hs, event)[3] = event
      BY <3>a, <3>b
    <3>3. /\ <<"Created", "Confirmed", event>> \in Seq(EventNames) /\ Len(<<"Created", "Confirmed", event>>) = 3
          /\ <<"Created", "Confirmed", event>>[3] = event
      BY <3>1 DEF EventNames
    <3>4. \A i \in 1..3 : Append(hs, event)[i] = <<"Created", "Confirmed", event>>[i]
      BY <3>1, <3>2, <3>3
    <3> QED BY <3>2, <3>3, <3>4, SeqEqual
  <2>3. IsLife(<<"Created", "Confirmed", event>>)
    BY <2>1 DEF IsLife
  <2>5. hs \in Seq(EventNames) /\ event \in EventNames /\ hs # <<>> /\ Unfinished(hs)
    BY <1>3, <2>1 DEF EventNames, Unfinished
  <2>6. /\ Len(Append(hs, event)) = Len(hs) + 1
        /\ Append(hs, event)[Len(hs) + 1] = event
        /\ \A i \in 1..Len(hs) : Append(hs, event)[i] = hs[i]
    BY <2>5, AppendFacts
  <2> QED BY <2>1, <2>2, <2>3, <2>5, <2>6
<1>4. CASE hs = <<"Created", "Failed">>
  BY <1>4 DEF M!NextEvents, M!Last
<1>5. CASE hs = <<"Created", "Cancelled">>
  BY <1>5 DEF M!NextEvents, M!Last
<1>6. CASE hs = <<"Created", "Confirmed", "Settled">>
  BY <1>6 DEF M!NextEvents, M!Last
<1>7. CASE hs = <<"Created", "Confirmed", "Failed">>
  BY <1>7 DEF M!NextEvents, M!Last
<1>8. CASE hs = <<"Created", "Expired">>
  BY <1>8 DEF M!NextEvents, M!Last
<1> QED BY <1>1, <1>2, <1>3, <1>4, <1>5, <1>6, <1>7, <1>8 DEF IsLife

LEMMA ShownStatus ==
  \A event \in EventNames : M!Status(event) \in M!Shown /\ M!Status(event) # "none"
  BY DEF EventNames, M!Status, M!Shown

(* What is under way says what it is. *)
LEMMA MonStates ==
  ASSUME MonTypes
  PROVE  /\ "none" \in M!Shown
         /\ M!NoHandler.pc = "idle" /\ M!NoLoad = [pc |-> "idle"] /\ M!NoRebuild.pc = "idle"
         /\ \A h \in Handlers :
              /\ handler[h] # M!NoHandler <=> handler[h].pc # "idle"
              /\ handler[h] # M!NoHandler <=> handler[h].pc \in {"save", "remove"}
              /\ handler[h] # M!NoHandler =>
                   handler[h] \in Saving /\ handler[h].of \in MonPayments
                     /\ handler[h].event \in EventNames
         /\ M!Down = [pc |-> "down"] /\ M!Down # M!NoLoad
         /\ M!Down \notin Loading /\ M!NoLoad \notin Loading
         /\ M!Starting <=> load \in Loading
         /\ load = M!NoLoad \/ load = M!Down \/ load \in Loading
         /\ rebuild \in Rebuilding <=> rebuild.pc = "handle"
         /\ rebuild.pc = "clear" <=> rebuild = [pc |-> "clear"]
         /\ rebuild.pc = "read" <=> rebuild = [pc |-> "read"]
         /\ rebuild.pc = "idle" <=> rebuild = M!NoRebuild
         /\ rebuild # M!NoRebuild <=> rebuild.pc \in {"clear", "read", "handle"}
<1>1. /\ M!NoHandler.pc = "idle" /\ M!NoLoad = [pc |-> "idle"] /\ M!NoRebuild.pc = "idle"
      /\ "none" \in M!Shown
  BY DEF M!NoHandler, M!NoLoad, M!NoRebuild, M!Shown
<1>2. ASSUME NEW h \in Handlers
      PROVE  /\ handler[h] # M!NoHandler <=> handler[h].pc # "idle"
             /\ handler[h] # M!NoHandler <=> handler[h].pc \in {"save", "remove"}
             /\ handler[h] # M!NoHandler =>
                  handler[h] \in Saving /\ handler[h].of \in MonPayments
                    /\ handler[h].event \in EventNames
  <2>1. handler[h] = M!NoHandler \/ handler[h] \in Saving
    BY DEF MonTypes
  <2> QED BY <1>1, <2>1 DEF Saving
<1>3. /\ M!Down = [pc |-> "down"] /\ M!Down # M!NoLoad
      /\ M!Down \notin Loading /\ M!NoLoad \notin Loading
  <2>1. M!Down = [pc |-> "down"] /\ M!Down.pc = "down" /\ M!NoLoad.pc = "idle"
    BY <1>1 DEF M!Down
  <2>2. \A lo \in Loading : lo.pc = "start"
    BY DEF Loading
  <2> QED BY <2>1, <2>2
<1>4. /\ M!Starting <=> load \in Loading
      /\ load = M!NoLoad \/ load = M!Down \/ load \in Loading
  BY <1>3 DEF MonTypes, M!Starting
<1>5. rebuild = M!NoRebuild \/ rebuild = [pc |-> "clear"] \/ rebuild = [pc |-> "read"]
        \/ rebuild \in Rebuilding
  BY DEF MonTypes
<1>6. rebuild \in Rebuilding => rebuild.pc = "handle"
  BY DEF Rebuilding
<1> QED BY <1>1, <1>2, <1>3, <1>4, <1>5, <1>6

LEMMA MonParts ==
  ASSUME MonInv
  PROVE  MonTypes /\ MonHappened /\ MonShown /\ MonExact
  BY DEF MonInv

-----------------------------------------------------------------------------
LEMMA MonInitially == M!Init => MonInv
<1> SUFFICES ASSUME M!Init PROVE MonInv
  OBVIOUS
<1>1. /\ history = [p \in MonPayments |-> <<>>]
      /\ memory = [p \in MonPayments |-> "none"] /\ monRow = [p \in MonPayments |-> "none"]
      /\ handler = [h \in Handlers |-> M!NoHandler]
      /\ timers = [p \in MonPayments |-> 0] /\ removals = [p \in MonPayments |-> 0]
      /\ load = M!NoLoad /\ rebuild = M!NoRebuild
  BY DEF M!Init, Handlers
<1>2. IsLife(<<>>) /\ ~ Unfinished(<<>>)
  BY DEF IsLife, Unfinished
<1>3. MonTypes
  BY <1>1, <1>2 DEF MonTypes, M!Shown, Handlers
<1>4. M!NoRebuild.pc = "idle" /\ M!NoHandler.pc = "idle" /\ rebuild \notin Rebuilding
  BY <1>1, <1>3, MonStates
<1>5. MonHappened
  BY <1>1, <1>4 DEF MonHappened
<1>6. MonShown
  BY <1>1, <1>2 DEF MonShown
<1>7. WorkPhase("live")
  <2>1. ASSUME NEW p \in MonPayments
        PROVE  PaymentOK(p, handler["live"], history[p], HandledBy("live", p), memory[p],
                         monRow[p], timers[p], removals[p])
    <3>1. HandledBy("live", p) = 0 /\ handler["live"].pc = "idle"
      BY <1>1, <1>4 DEF HandledBy, Handlers
    <3>2. LastOf(history[p], HandledBy("live", p)) = "none"
      BY <3>1 DEF LastOf
    <3>3. Rests("none", memory[p], monRow[p], timers[p], removals[p])
      BY <1>1 DEF Rests
    <3> QED BY <3>1, <3>2, <3>3 DEF PaymentOK
  <2>2. load # M!Down /\ \A g \in Handlers : handler[g] = M!NoHandler
    BY <1>1 DEF M!NoLoad, M!Down
  <2> QED BY <1>1, <2>1, <2>2 DEF WorkPhase
<1>8. MonExact
  BY <1>7 DEF MonExact, Handlers
<1> QED BY <1>3, <1>5, <1>6, <1>8 DEF MonInv

(* Handling an event. *)
Heeded(p, event) == event = "Created" \/ (event # "Expired" /\ memory[p] # "none")

LEMMA HandleFacts ==
  ASSUME MonTypes, NEW h \in Handlers, NEW p \in MonPayments, NEW event \in EventNames,
         M!Handle(h, p, event)
  PROVE  /\ memory' \in [MonPayments -> M!Shown]
         /\ handler' \in [Handlers -> {M!NoHandler} \cup Saving]
         /\ \A q \in MonPayments \ {p} : memory'[q] = memory[q]
         /\ \A g \in Handlers \ {h} : handler'[g] = handler[g]
         /\ Heeded(p, event) =>
              /\ memory'[p] = M!Status(event) /\ memory'[p] # "none"
              /\ handler'[h] # M!NoHandler
              /\ handler'[h].pc = "save" /\ handler'[h].of = p /\ handler'[h].event = event
         /\ ~ Heeded(p, event) =>
              memory' = memory /\ handler' = handler
<1>1. memory \in [MonPayments -> M!Shown] /\ handler \in [Handlers -> {M!NoHandler} \cup Saving]
  BY DEF MonTypes
<1>2. CASE Heeded(p, event)
  <2> DEFINE ha == [pc |-> "save", of |-> p, event |-> event]
  <2>1. memory' = [memory EXCEPT ![p] = M!Status(event)] /\ handler' = [handler EXCEPT ![h] = ha]
    BY <1>2 DEF M!Handle, Heeded
  <2>2. /\ ha \in Saving /\ ha.pc = "save" /\ ha.of = p /\ ha.event = event
        /\ ha # M!NoHandler
    BY DEF Saving, M!NoHandler
  <2> HIDE DEF ha
  <2> QED BY <1>1, <1>2, <2>1, <2>2, ShownStatus
<1>3. CASE ~ Heeded(p, event)
  BY <1>1, <1>3 DEF M!Handle, Heeded
<1> QED BY <1>2, <1>3

(* A payment that rests is as a handler without work leaves it. *)
LEMMA RestsIsOK ==
  ASSUME NEW p, NEW ha, ha.pc = "idle", NEW hs, NEW n, NEW me, NEW ro, NEW ti, NEW re,
         Rests(LastOf(hs, n), me, ro, ti, re)
  PROVE  PaymentOK(p, ha, hs, n, me, ro, ti, re)
  BY DEF PaymentOK

(* An expiry is shown as the creation was. *)
LEMMA ExpiryChangesNothing ==
  ASSUME NEW me, NEW ro, NEW ti, NEW re, Rests("Created", me, ro, ti, re)
  PROVE  Rests("Expired", me, ro, ti, re)
  BY DEF Rests, EventNames, M!Status

-----------------------------------------------------------------------------
(* A payment's new event. *)
LEMMA LiveKeeps ==
  ASSUME MonInv, NEW p \in MonPayments, NEW event, M!Live(p, event)
  PROVE  MonInv'
<1>0. MonTypes /\ MonHappened /\ MonShown /\ MonExact
  BY MonParts
<1>1. /\ event \in M!NextEvents(history[p]) /\ handler["live"] = M!NoHandler
      /\ history' = [history EXCEPT ![p] = Append(@, event)]
      /\ M!Handle("live", p, event)
      /\ monRow' = monRow /\ timers' = timers /\ removals' = removals
      /\ load' = load /\ rebuild' = rebuild /\ load # M!Down
  BY DEF M!Live
<1>2. /\ disturbed \subseteq disturbed'
      /\ disturbed' = {} => ~ M!Working /\ ~ M!Starting /\ disturbed = {}
  BY DEF M!Live, M!Disturb, M!Undisturbed
<1> DEFINE hs == history[p]
           hp == Append(history[p], event)
<1>3. /\ IsLife(hs) /\ hs \in Seq(EventNames) /\ Len(hs) \in 0..3
      /\ IsLife(hp) /\ event \in EventNames /\ hp \in Seq(EventNames)
      /\ (hs = <<>> <=> event = "Created") /\ (hs # <<>> => Unfinished(hs))
      /\ Len(hp) = Len(hs) + 1 /\ hp[Len(hs) + 1] = event
      /\ \A i \in 1..Len(hs) : hp[i] = hs[i]
      /\ event = "Expired" => Len(hs) = 1 /\ hs[1] = "Created"
  BY <1>0, <1>1, LifeFacts, LifeGoesOn DEF MonTypes
<1>h. /\ history'[p] = hp /\ \A q \in MonPayments \ {p} : history'[q] = history[q]
      /\ history' \in [MonPayments -> Seq(EventNames)]
      /\ \A q \in MonPayments : IsLife(history'[q])
  BY <1>0, <1>1, <1>3 DEF MonTypes
<1> HIDE DEF hs, hp
<1>4. /\ memory' \in [MonPayments -> M!Shown]
      /\ handler' \in [Handlers -> {M!NoHandler} \cup Saving]
      /\ \A q \in MonPayments \ {p} : memory'[q] = memory[q]
      /\ handler'["rebuild"] = handler["rebuild"]
      /\ Heeded(p, event) =>
           /\ memory'[p] = M!Status(event) /\ memory'[p] # "none"
           /\ handler'["live"] # M!NoHandler
           /\ handler'["live"].pc = "save" /\ handler'["live"].of = p
           /\ handler'["live"].event = event
      /\ ~ Heeded(p, event) => memory' = memory /\ handler' = handler
  BY <1>0, <1>1, <1>3, HandleFacts DEF Handlers
<1>5. MonTypes'
  BY <1>0, <1>1, <1>4, <1>h DEF MonTypes
<1>6. \A q \in MonPayments, e \in EventNames :
        HasEvent(history[q], e) => HasEvent(history'[q], e)
  <2>1. ASSUME NEW e \in EventNames, HasEvent(hs, e) PROVE HasEvent(hp, e)
    BY <1>3, <2>1 DEF HasEvent
  <2> QED BY <1>h, <2>1 DEF hs
<1>7. HasEvent(hp, event)
  BY <1>3 DEF HasEvent
<1>8. MonHappened'
  <2>1. ASSUME NEW h \in Handlers, handler'[h] # M!NoHandler
        PROVE  /\ HasEvent(history'[handler'[h].of], handler'[h].event)
               /\ handler'[h].pc = "remove" => handler'[h].event = "Cancelled"
    <3>1. CASE handler'[h] = handler[h]
      BY <1>0, <1>6, <2>1, <3>1, MonStates DEF MonHappened
    <3>2. CASE handler'[h] # handler[h]
      <4>1. h = "live" /\ Heeded(p, event)
        BY <1>4, <3>2 DEF Handlers
      <4> QED BY <1>4, <1>7, <1>h, <4>1
    <3> QED BY <3>1, <3>2
  <2>2. ASSUME rebuild' \in Rebuilding, NEW q \in MonPayments,
               NEW i \in 1..Len(rebuild'.todo[q])
        PROVE  HasEvent(history'[q], rebuild'.todo[q][i])
    <3>1. rebuild.todo[q] \in Seq(EventNames)
      BY <1>1, <2>2 DEF Rebuilding
    <3>2. rebuild.todo[q][i] \in EventNames
      BY <1>1, <2>2, <3>1
    <3> QED BY <1>0, <1>1, <1>6, <2>2, <3>2 DEF MonHappened
  <2>3. ASSUME NEW q \in MonPayments, timers'[q] > 0 \/ removals'[q] > 0
        PROVE  history'[q] # <<>> /\ ~ Unfinished(history'[q])
    <3>1. history[q] # <<>> /\ ~ Unfinished(history[q])
      BY <1>0, <1>1, <2>3 DEF MonHappened
    <3>2. q # p
      BY <1>3, <3>1 DEF hs
    <3> QED BY <1>h, <3>1, <3>2
  <2> QED BY <2>1, <2>2, <2>3 DEF MonHappened
<1>9. MonShown'
  <2> SUFFICES ASSUME "unsaved" \notin disturbed', NEW q \in MonPayments,
                      Unfinished(history'[q])
               PROVE  IsShown(q)'
    BY DEF MonShown
  <2>1. StillToCreate(q)' <=> StillToCreate(q)
    BY <1>1 DEF StillToCreate
  <2>2. CASE q # p
    <3>1. IsShown(q)
      BY <1>0, <1>2, <1>h, <2>2 DEF MonShown
    <3>2. \A h \in Handlers : handler[h].pc = "save" /\ handler[h].of = q =>
            handler'[h] = handler[h]
      BY <1>0, <1>1, <1>4, MonStates DEF Handlers
    <3>3. \A h \in Handlers : handler'[h].pc = "save" /\ handler'[h].of = q =>
            handler'[h] = handler[h]
      BY <1>4, <2>2 DEF Handlers
    <3>4. BeingSaved(q)' <=> BeingSaved(q)
      BY <3>2, <3>3 DEF BeingSaved
    <3> QED BY <1>1, <1>2, <1>4, <2>1, <2>2, <3>1, <3>4 DEF IsShown
  <2>3. CASE q = p /\ Heeded(p, event)
    BY <1>4, <2>3 DEF IsShown, BeingSaved, Handlers
  <2>4. CASE q = p /\ ~ Heeded(p, event)
    <3>1. Unfinished(history[p])
      BY <1>3, <2>4 DEF hs, Heeded
    <3>2. IsShown(p)
      BY <1>0, <1>2, <3>1 DEF MonShown
    <3>3. BeingSaved(p)' <=> BeingSaved(p)
      BY <1>4, <2>4 DEF BeingSaved
    <3> QED BY <1>1, <1>2, <1>4, <2>1, <2>4, <3>2, <3>3 DEF IsShown
  <2> QED BY <2>2, <2>3, <2>4
<1>10. MonExact'
  <2> SUFFICES ASSUME disturbed' = {} PROVE WorkPhase("live")'
    BY DEF MonExact, Handlers
  <2>1. /\ load = M!NoLoad /\ rebuild = M!NoRebuild /\ disturbed = {}
        /\ \A h \in Handlers : handler[h] = M!NoHandler
    BY <1>0, <1>1, <1>2, MonStates DEF M!Working, MonTypes
  <2>2. rebuild \notin Rebuilding /\ load \notin Loading
        /\ rebuild.pc = "idle" /\ M!NoHandler.pc = "idle"
    BY <1>0, <2>1, MonStates
  <2>3. WorkPhase("live")
    <3>1. PICK h \in Handlers : WorkPhase(h)
      BY <1>0, <2>1, <2>2 DEF MonExact, StartPhase, ClearPhase
    <3> QED BY <2>2, <3>1 DEF WorkPhase, Handlers
  <2>4. ASSUME NEW q \in MonPayments
        PROVE  Rests(LastOf(history[q], Len(history[q])), memory[q], monRow[q],
                     timers[q], removals[q])
    BY <2>1, <2>2, <2>3 DEF WorkPhase, PaymentOK, HandledBy, Handlers
  <2>5. ASSUME NEW q \in MonPayments \ {p}
        PROVE  PaymentOK(q, handler'["live"], history'[q], Len(history'[q]), memory'[q],
                         monRow'[q], timers'[q], removals'[q])
    <3>1. ~ (handler'["live"].pc # "idle" /\ handler'["live"].of = q)
      BY <1>4, <2>1, <2>2, <2>5 DEF Handlers
    <3> QED BY <1>1, <1>4, <1>h, <2>4, <3>1 DEF PaymentOK
  <2>6. /\ event = "Created" \/ memory[p] # "none"
        /\ timers[p] = 0 /\ removals[p] = 0
    <3>1. CASE hs = <<>>
      <4>1. LastOf(hs, Len(hs)) = "none"
        BY <3>1 DEF LastOf
      <4> QED BY <1>3, <2>4, <3>1, <4>1 DEF Rests, EventNames, hs
    <3>2. CASE hs # <<>>
      <4>1. hs[Len(hs)] \in {"Created", "Confirmed", "Expired"} /\ Len(hs) # 0
        BY <1>3, <3>2, LifeFacts
      <4>2. LastOf(hs, Len(hs)) \in {"Created", "Confirmed", "Expired"}
        BY <4>1 DEF LastOf
      <4>3. memory[p] = M!Status(LastOf(hs, Len(hs))) /\ timers[p] = 0 /\ removals[p] = 0
        BY <2>4, <4>2 DEF Rests, EventNames, hs
      <4> QED BY <4>2, <4>3, ShownStatus DEF EventNames
    <3> QED BY <3>1, <3>2
  <2>7. PaymentOK(p, handler'["live"], history'[p], Len(history'[p]), memory'[p],
                  monRow'[p], timers'[p], removals'[p])
    <3>1. LastOf(hp, Len(hp)) = event
      BY <1>3 DEF LastOf
    <3>2. CASE event # "Expired"
      <4>1. Heeded(p, event)
        BY <2>6, <3>2 DEF Heeded
      <4>2. Works(handler'["live"], event, memory'[p], timers'[p], removals'[p])
        BY <1>1, <1>3, <1>4, <2>6, <4>1 DEF Works
      <4> QED BY <1>4, <1>h, <3>1, <4>1, <4>2 DEF PaymentOK
    <3>3. CASE event = "Expired"
      <4>1. ~ Heeded(p, event)
        BY <3>3 DEF Heeded
      <4>2. LastOf(hs, Len(hs)) = "Created"
        <5>1. Len(hs) = 1 /\ hs[1] = "Created"
          BY <1>3, <3>3
        <5> QED BY <5>1 DEF LastOf
      <4>3. Rests("Created", memory[p], monRow[p], timers[p], removals[p])
        BY <2>4, <4>2 DEF hs
      <4>4. Rests("Expired", memory'[p], monRow'[p], timers'[p], removals'[p])
        BY <1>1, <1>4, <4>1, <4>3, ExpiryChangesNothing
      <4>5. handler'["live"].pc = "idle"
        BY <1>4, <2>1, <2>2, <4>1 DEF Handlers
      <4> QED BY <1>h, <3>1, <3>3, <4>4, <4>5, RestsIsOK
    <3> QED BY <3>2, <3>3
  <2>8. \A q \in MonPayments :
          PaymentOK(q, handler'["live"], history'[q], HandledBy("live", q)', memory'[q],
                    monRow'[q], timers'[q], removals'[q])
    BY <2>5, <2>7 DEF HandledBy
  <2>9. \A g \in Handlers \ {"live"} : handler'[g] = M!NoHandler
    BY <1>4, <2>1 DEF Handlers
  <2> QED BY <1>1, <2>1, <2>8, <2>9 DEF WorkPhase
<1> QED BY <1>5, <1>8, <1>9, <1>10 DEF MonInv

-----------------------------------------------------------------------------
(* A step of one payment while the store, the load and the rebuild rest:   *)
(* what holds of that payment and its handler holds of all.                *)
LEMMA PaymentMoves ==
  ASSUME MonInv, MonTypes', NEW g \in Handlers, WorkPhase(g), NEW p \in MonPayments,
         history' = history, load' = load, rebuild' = rebuild,
         \A h \in Handlers \ {g} : handler'[h] = handler[h],
         \A q \in MonPayments \ {p} :
           /\ memory'[q] = memory[q] /\ monRow'[q] = monRow[q]
           /\ timers'[q] = timers[q] /\ removals'[q] = removals[q],
         \/ handler'[g] = handler[g]
         \/ /\ handler[g] # M!NoHandler /\ handler[g].of = p
            /\ handler'[g] = M!NoHandler \/ handler'[g].of = p,
         PaymentOK(p, handler'[g], history[p], HandledBy(g, p), memory'[p], monRow'[p],
                   timers'[p], removals'[p])
  PROVE  WorkPhase(g)'
<1>0. MonTypes /\ M!NoHandler.pc = "idle"
  BY MonParts, MonStates
<1>1. \A q \in MonPayments : HandledBy(g, q)' = HandledBy(g, q)
  BY DEF HandledBy
<1>2. ASSUME NEW q \in MonPayments \ {p}
      PROVE  PaymentOK(q, handler'[g], history[q], HandledBy(g, q), memory'[q],
                       monRow'[q], timers'[q], removals'[q])
  <2>1. PaymentOK(q, handler[g], history[q], HandledBy(g, q), memory[q], monRow[q],
                  timers[q], removals[q])
    BY DEF WorkPhase
  <2>2. (handler'[g].pc # "idle" /\ handler'[g].of = q) <=>
        (handler[g].pc # "idle" /\ handler[g].of = q)
    BY <1>0
  <2>3. handler'[g].pc # "idle" /\ handler'[g].of = q => handler'[g] = handler[g]
    BY <1>0
  <2> QED BY <2>1, <2>2, <2>3 DEF PaymentOK
<1>3. \A q \in MonPayments :
        PaymentOK(q, handler'[g], history'[q], HandledBy(g, q)', memory'[q],
                  monRow'[q], timers'[q], removals'[q])
  BY <1>1, <1>2
<1> QED BY <1>3 DEF WorkPhase

(* A handler works alone. *)
LEMMA HandlerAlone ==
  ASSUME MonInv, disturbed = {}, NEW h \in Handlers, handler[h] # M!NoHandler
  PROVE  WorkPhase(h)
<1>1. (\E g \in Handlers : WorkPhase(g)) \/ StartPhase \/ ClearPhase
  BY MonParts DEF MonExact
<1>2. ~ StartPhase /\ ~ ClearPhase
  BY DEF StartPhase, ClearPhase, QuietPhase
<1>3. PICK g \in Handlers : WorkPhase(g)
  BY <1>1, <1>2
<1>4. g = h
  BY <1>3 DEF WorkPhase
<1> QED BY <1>3, <1>4

(* While something waits, one handler may work. *)
LEMMA WaitingAlone ==
  ASSUME MonInv, disturbed = {}, NEW p \in MonPayments, timers[p] > 0 \/ removals[p] > 0
  PROVE  \E g \in Handlers : WorkPhase(g)
<1>1. (\E g \in Handlers : WorkPhase(g)) \/ StartPhase \/ ClearPhase
  BY MonParts DEF MonExact
<1>2. ~ StartPhase /\ ~ ClearPhase
  BY DEF StartPhase, ClearPhase, QuietPhase
<1> QED BY <1>1, <1>2

LEMMA SavedKeeps ==
  ASSUME MonInv, NEW h \in Handlers, M!Saved(h)
  PROVE  MonInv'
<1>0. MonTypes /\ MonHappened /\ MonShown /\ MonExact
  BY MonParts
<1>1. handler[h].pc = "save"
  BY DEF M!Saved
<1>2. /\ handler[h] # M!NoHandler /\ handler[h] \in Saving /\ handler[h].of \in MonPayments
      /\ handler[h].event \in EventNames /\ M!NoHandler.pc = "idle"
  BY <1>0, <1>1, MonStates
<1> SUFFICES ASSUME NEW p \in MonPayments, p = handler[h].of,
                    NEW event \in EventNames, event = handler[h].event
             PROVE  MonInv'
  BY <1>2
<1> DEFINE gone == [handler[h] EXCEPT !.pc = "remove"]
<1>g. /\ gone \in Saving /\ gone.pc = "remove" /\ gone.of = p /\ gone.event = event
      /\ gone # M!NoHandler
  BY <1>2 DEF Saving
<1>3. /\ monRow' = [monRow EXCEPT ![p] = M!Status(event)]
      /\ timers' = [timers EXCEPT ![p] = IF event \in {"Settled", "Failed"} THEN @ + 1 ELSE @]
      /\ event = "Cancelled" => memory' = [memory EXCEPT ![p] = "none"]
                                  /\ handler' = [handler EXCEPT ![h] = gone]
      /\ event # "Cancelled" => memory' = memory
                                  /\ handler' = [handler EXCEPT ![h] = M!NoHandler]
      /\ history' = history /\ removals' = removals /\ load' = load /\ rebuild' = rebuild
      /\ disturbed' = disturbed
  BY DEF M!Saved, M!Done
<1> HIDE DEF gone
<1>4. MonTypes'
  <2>1. timers' \in [MonPayments -> Nat]
    <3>1. timers \in [MonPayments -> Nat] /\ timers[p] + 1 \in Nat
      BY <1>0 DEF MonTypes
    <3> QED BY <1>3, <3>1
  <2>2. monRow' \in [MonPayments -> M!Shown]
    BY <1>0, <1>3, ShownStatus DEF MonTypes
  <2>3. /\ memory' \in [MonPayments -> M!Shown]
        /\ handler' \in [Handlers -> {M!NoHandler} \cup Saving]
        /\ handler'["rebuild"] # M!NoHandler => handler["rebuild"] # M!NoHandler
    <3>0. /\ memory \in [MonPayments -> M!Shown] /\ "none" \in M!Shown
          /\ handler \in [Handlers -> {M!NoHandler} \cup Saving]
      BY <1>0, MonStates DEF MonTypes
    <3>1. memory' \in [MonPayments -> M!Shown]
      BY <1>3, <3>0
    <3>2. \E ha \in {M!NoHandler} \cup Saving : handler' = [handler EXCEPT ![h] = ha]
      BY <1>3, <1>g
    <3>3. handler' \in [Handlers -> {M!NoHandler} \cup Saving]
      BY <3>0, <3>2
    <3>4. handler'["rebuild"] # M!NoHandler => handler["rebuild"] # M!NoHandler
      BY <1>2, <3>0, <3>2 DEF Handlers
    <3> QED BY <3>1, <3>3, <3>4
  <2> QED BY <1>0, <1>3, <2>1, <2>2, <2>3 DEF MonTypes
<1>5. /\ monRow'[p] = M!Status(event) /\ monRow'[p] # "none"
      /\ timers'[p] = timers[p] + (IF event \in {"Settled", "Failed"} THEN 1 ELSE 0)
      /\ event = "Cancelled" => memory'[p] = "none" /\ handler'[h] = gone
      /\ event # "Cancelled" => memory'[p] = memory[p] /\ handler'[h] = M!NoHandler
      /\ handler'[h] = M!NoHandler \/ handler'[h].of = p
      /\ \A g \in Handlers \ {h} : handler'[g] = handler[g]
      /\ \A q \in MonPayments \ {p} :
           memory'[q] = memory[q] /\ monRow'[q] = monRow[q] /\ timers'[q] = timers[q]
  BY <1>0, <1>3, <1>g, ShownStatus DEF MonTypes
<1>6. HasEvent(history[p], event) /\ IsLife(history[p])
  BY <1>0, <1>2 DEF MonHappened, MonTypes
<1>7. event \in {"Settled", "Failed", "Cancelled"} =>
        history[p] # <<>> /\ ~ Unfinished(history[p])
  BY <1>6, LifeFacts DEF HasEvent
<1>8. MonHappened'
  <2>1. ASSUME NEW g \in Handlers, handler'[g] # M!NoHandler
        PROVE  /\ HasEvent(history'[handler'[g].of], handler'[g].event)
               /\ handler'[g].pc = "remove" => handler'[g].event = "Cancelled"
    BY <1>0, <1>3, <1>5, <1>6, <1>g, <2>1 DEF MonHappened
  <2>2. ASSUME NEW q \in MonPayments, timers'[q] > 0 \/ removals'[q] > 0
        PROVE  history'[q] # <<>> /\ ~ Unfinished(history'[q])
    <3>1. timers[q] > 0 \/ removals[q] > 0 \/ (q = p /\ event \in {"Settled", "Failed"})
      BY <1>0, <1>3, <1>5, <2>2 DEF MonTypes
    <3> QED BY <1>0, <1>3, <1>7, <3>1 DEF MonHappened
  <2> QED BY <1>0, <1>3, <2>1, <2>2 DEF MonHappened
<1>9. MonShown'
  <2> SUFFICES ASSUME "unsaved" \notin disturbed', NEW q \in MonPayments,
                      Unfinished(history'[q])
               PROVE  IsShown(q)'
    BY DEF MonShown
  <2>1. IsShown(q) /\ (StillToCreate(q)' <=> StillToCreate(q))
    BY <1>0, <1>3 DEF MonShown, StillToCreate
  <2>2. CASE q = p
    <3>1. event # "Cancelled"
      BY <1>3, <1>7, <2>2
    <3>2. BeingSaved(p)
      BY <1>1 DEF BeingSaved
    <3> QED BY <1>3, <1>5, <2>1, <2>2, <3>1, <3>2 DEF IsShown
  <2>3. CASE q # p
    <3>1. \A g \in Handlers : handler[g].pc = "save" /\ handler[g].of = q =>
            handler'[g] = handler[g]
      BY <1>5, <2>3
    <3>2. \A g \in Handlers : handler'[g].pc = "save" /\ handler'[g].of = q =>
            handler'[g] = handler[g]
      BY <1>2, <1>5, <2>3
    <3>3. BeingSaved(q)' <=> BeingSaved(q)
      BY <3>1, <3>2 DEF BeingSaved
    <3> QED BY <1>3, <1>5, <2>1, <2>3, <3>3 DEF IsShown
  <2> QED BY <2>2, <2>3
<1>10. MonExact'
  <2> SUFFICES ASSUME disturbed' = {} PROVE WorkPhase(h)'
    BY DEF MonExact
  <2>1. WorkPhase(h)
    BY <1>2, <1>3, HandlerAlone
  <2>2. PaymentOK(p, handler[h], history[p], HandledBy(h, p), memory[p], monRow[p],
                  timers[p], removals[p])
    BY <2>1 DEF WorkPhase
  <2>3. Works(handler[h], LastOf(history[p], HandledBy(h, p)), memory[p], timers[p], removals[p])
    BY <1>1, <2>2 DEF PaymentOK
  <2>4. /\ LastOf(history[p], HandledBy(h, p)) = event /\ memory[p] = M!Status(event)
        /\ timers[p] = 0 /\ removals[p] = 0
    BY <1>1, <2>3 DEF Works
  <2>5. PaymentOK(p, handler'[h], history[p], HandledBy(h, p), memory'[p], monRow'[p],
                  timers'[p], removals'[p])
    <3>1. CASE event = "Cancelled"
      BY <1>3, <1>5, <1>g, <2>4, <3>1 DEF PaymentOK, Works, EventNames
    <3>2. CASE event # "Cancelled"
      BY <1>2, <1>3, <1>5, <2>4, <3>2 DEF PaymentOK, Rests, EventNames
    <3> QED BY <3>1, <3>2
  <2> QED BY <1>2, <1>3, <1>4, <1>5, <2>1, <2>5, PaymentMoves
<1> QED BY <1>4, <1>8, <1>9, <1>10 DEF MonInv

LEMMA RemovedKeeps ==
  ASSUME MonInv, NEW h \in Handlers, M!Removed(h)
  PROVE  MonInv'
<1>0. MonTypes /\ MonHappened /\ MonShown /\ MonExact
  BY MonParts
<1>1. handler[h].pc = "remove"
  BY DEF M!Removed
<1>2. /\ handler[h] # M!NoHandler /\ handler[h] \in Saving /\ handler[h].of \in MonPayments
      /\ handler[h].event = "Cancelled" /\ M!NoHandler.pc = "idle"
  BY <1>0, <1>1, MonStates DEF MonHappened
<1> SUFFICES ASSUME NEW p \in MonPayments, p = handler[h].of PROVE MonInv'
  BY <1>2
<1>3. /\ monRow' = [monRow EXCEPT ![p] = "none"]
      /\ handler' = [handler EXCEPT ![h] = M!NoHandler]
      /\ history' = history /\ memory' = memory /\ timers' = timers
      /\ removals' = removals /\ load' = load /\ rebuild' = rebuild
      /\ disturbed' = disturbed
  BY DEF M!Removed, M!Done
<1>4. MonTypes'
  BY <1>0, <1>3, MonStates DEF MonTypes
<1>5. /\ monRow'[p] = "none" /\ handler'[h] = M!NoHandler
      /\ \A g \in Handlers \ {h} : handler'[g] = handler[g]
      /\ \A q \in MonPayments \ {p} : monRow'[q] = monRow[q]
  BY <1>0, <1>3 DEF MonTypes
<1>6. HasEvent(history[p], "Cancelled") /\ IsLife(history[p])
  BY <1>0, <1>2 DEF MonHappened, MonTypes
<1>7. ~ Unfinished(history[p])
  BY <1>6, LifeFacts DEF HasEvent
<1>8. MonHappened'
  BY <1>0, <1>3, <1>5 DEF MonHappened
<1>9. MonShown'
  <2> SUFFICES ASSUME "unsaved" \notin disturbed', NEW q \in MonPayments,
                      Unfinished(history'[q])
               PROVE  IsShown(q)'
    BY DEF MonShown
  <2>1. IsShown(q) /\ (StillToCreate(q)' <=> StillToCreate(q)) /\ q # p
    BY <1>0, <1>3, <1>7 DEF MonShown, StillToCreate
  <2>2. /\ \A g \in Handlers : handler[g].pc = "save" => handler'[g] = handler[g]
        /\ \A g \in Handlers : handler'[g].pc = "save" => handler'[g] = handler[g]
    BY <1>1, <1>2, <1>5
  <2>3. BeingSaved(q)' <=> BeingSaved(q)
    BY <2>2 DEF BeingSaved
  <2> QED BY <1>3, <1>5, <2>1, <2>3 DEF IsShown
<1>10. MonExact'
  <2> SUFFICES ASSUME disturbed' = {} PROVE WorkPhase(h)'
    BY DEF MonExact
  <2>1. WorkPhase(h)
    BY <1>2, <1>3, HandlerAlone
  <2>2. PaymentOK(p, handler[h], history[p], HandledBy(h, p), memory[p], monRow[p],
                  timers[p], removals[p])
    BY <2>1 DEF WorkPhase
  <2>3. Works(handler[h], LastOf(history[p], HandledBy(h, p)), memory[p], timers[p], removals[p])
    BY <1>1, <2>2 DEF PaymentOK
  <2>4. /\ LastOf(history[p], HandledBy(h, p)) = "Cancelled" /\ memory[p] = "none"
        /\ timers[p] = 0 /\ removals[p] = 0
    BY <1>1, <1>2, <2>3 DEF Works
  <2>5. PaymentOK(p, handler'[h], history[p], HandledBy(h, p), memory'[p], monRow'[p],
                  timers'[p], removals'[p])
    BY <1>2, <1>3, <1>5, <2>4 DEF PaymentOK, Rests
  <2> QED BY <1>2, <1>3, <1>4, <1>5, <2>1, <2>5, PaymentMoves
<1> QED BY <1>4, <1>8, <1>9, <1>10 DEF MonInv

(* A finished payment is dropped from memory, then from the table. *)
LEMMA DroppedKeeps ==
  ASSUME MonInv, NEW p \in MonPayments, M!TimerFires(p) \/ M!RemovalDone(p)
  PROVE  MonInv'
<1>0. MonTypes /\ MonHappened /\ MonShown /\ MonExact
  BY MonParts
<1>1. /\ history' = history /\ handler' = handler /\ load' = load /\ rebuild' = rebuild
      /\ disturbed' = disturbed
      /\ timers[p] > 0 \/ removals[p] > 0
      /\ \/ /\ timers[p] > 0 /\ timers' = [timers EXCEPT ![p] = @ - 1]
            /\ removals' = [removals EXCEPT ![p] = @ + 1]
            /\ memory' = [memory EXCEPT ![p] = "none"] /\ monRow' = monRow
         \/ /\ removals[p] > 0 /\ removals' = [removals EXCEPT ![p] = @ - 1]
            /\ timers' = timers
            /\ monRow' = [monRow EXCEPT ![p] = "none"] /\ memory' = memory
  BY DEF M!TimerFires, M!RemovalDone
<1>2. /\ \/ /\ timers[p] > 0 /\ timers'[p] = timers[p] - 1 /\ removals'[p] = removals[p] + 1
            /\ memory'[p] = "none" /\ monRow'[p] = monRow[p]
         \/ /\ removals[p] > 0 /\ removals'[p] = removals[p] - 1 /\ timers'[p] = timers[p]
            /\ monRow'[p] = "none" /\ memory'[p] = memory[p]
      /\ \A q \in MonPayments \ {p} :
           /\ memory'[q] = memory[q] /\ monRow'[q] = monRow[q]
           /\ timers'[q] = timers[q] /\ removals'[q] = removals[q]
  BY <1>0, <1>1 DEF MonTypes
<1>3. timers[p] \in Nat /\ removals[p] \in Nat
  BY <1>0 DEF MonTypes
<1>4. MonTypes'
  <2>0. /\ timers \in [MonPayments -> Nat] /\ removals \in [MonPayments -> Nat]
        /\ memory \in [MonPayments -> M!Shown] /\ monRow \in [MonPayments -> M!Shown]
        /\ "none" \in M!Shown
    BY <1>0, MonStates DEF MonTypes
  <2>1. timers' \in [MonPayments -> Nat] /\ removals' \in [MonPayments -> Nat]
    <3>1. CASE timers[p] > 0 /\ timers' = [timers EXCEPT ![p] = @ - 1]
                 /\ removals' = [removals EXCEPT ![p] = @ + 1]
      <4>1. timers[p] - 1 \in Nat /\ removals[p] + 1 \in Nat
        BY <1>3, <3>1
      <4> QED BY <2>0, <3>1, <4>1
    <3>2. CASE removals[p] > 0 /\ timers' = timers
                 /\ removals' = [removals EXCEPT ![p] = @ - 1]
      <4>1. removals[p] - 1 \in Nat
        BY <1>3, <3>2
      <4> QED BY <2>0, <3>2, <4>1
    <3> QED BY <1>1, <3>1, <3>2
  <2>2. memory' \in [MonPayments -> M!Shown] /\ monRow' \in [MonPayments -> M!Shown]
    <3>1. CASE memory' = [memory EXCEPT ![p] = "none"] /\ monRow' = monRow
      BY <2>0, <3>1
    <3>2. CASE monRow' = [monRow EXCEPT ![p] = "none"] /\ memory' = memory
      BY <2>0, <3>2
    <3> QED BY <1>1, <3>1, <3>2
  <2> QED BY <1>0, <1>1, <2>1, <2>2 DEF MonTypes
<1>5. history[p] # <<>> /\ ~ Unfinished(history[p])
  BY <1>0, <1>1 DEF MonHappened
<1>6. MonHappened'
  <2>1. ASSUME NEW q \in MonPayments, timers'[q] > 0 \/ removals'[q] > 0
        PROVE  history'[q] # <<>> /\ ~ Unfinished(history'[q])
    BY <1>0, <1>1, <1>2, <1>5, <2>1 DEF MonHappened
  <2> QED BY <1>0, <1>1, <2>1 DEF MonHappened
<1>7. MonShown'
  <2> SUFFICES ASSUME "unsaved" \notin disturbed', NEW q \in MonPayments,
                      Unfinished(history'[q])
               PROVE  IsShown(q)'
    BY DEF MonShown
  <2>1. IsShown(q) /\ (StillToCreate(q)' <=> StillToCreate(q)) /\ q # p
    BY <1>0, <1>1, <1>5 DEF MonShown, StillToCreate
  <2> QED BY <1>1, <1>2, <2>1 DEF IsShown, BeingSaved
<1>8. MonExact'
  <2> SUFFICES ASSUME disturbed' = {} PROVE \E g \in Handlers : WorkPhase(g)'
    BY DEF MonExact
  <2>1. PICK g \in Handlers : WorkPhase(g)
    BY <1>1, WaitingAlone
  <2>2. PaymentOK(p, handler[g], history[p], HandledBy(g, p), memory[p], monRow[p],
                  timers[p], removals[p])
    BY <2>1 DEF WorkPhase
  <2>3. ~ (handler[g].pc # "idle" /\ handler[g].of = p)
    BY <1>1, <2>2 DEF PaymentOK, Works
  <2> DEFINE event == LastOf(history[p], HandledBy(g, p))
  <2>4. Rests(event, memory[p], monRow[p], timers[p], removals[p])
    BY <2>2, <2>3 DEF PaymentOK
  <2> HIDE DEF event
  <2>5. Rests(event, memory'[p], monRow'[p], timers'[p], removals'[p])
    BY <1>1, <1>2, <2>4 DEF Rests, EventNames
  <2>6. PaymentOK(p, handler'[g], history[p], HandledBy(g, p), memory'[p], monRow'[p],
                  timers'[p], removals'[p])
    BY <1>1, <2>3, <2>5 DEF PaymentOK, event
  <2>7. WorkPhase(g)'
    BY <1>1, <1>2, <1>4, <2>1, <2>6, PaymentMoves
  <2> QED BY <2>7
<1> QED BY <1>4, <1>6, <1>7, <1>8 DEF MonInv

-----------------------------------------------------------------------------
(* With nothing to do and undisturbed, what is shown is what happened. *)
LEMMA RestIsExact ==
  ASSUME MonInv, ~ M!Working, ~ M!Waiting
  PROVE  /\ rebuild = M!NoRebuild /\ \A h \in Handlers : handler[h] = M!NoHandler
         /\ \A p \in MonPayments : timers[p] = 0 /\ removals[p] = 0
         /\ disturbed = {} => \A p \in MonPayments :
              /\ load = M!NoLoad => memory[p] = monRow[p]
              /\ Rests(LastOf(history[p], Len(history[p])), monRow[p], monRow[p], 0, 0)
<1>0. MonTypes /\ MonExact
  BY MonParts
<1>1. rebuild = M!NoRebuild /\ \A h \in Handlers : handler[h] = M!NoHandler
  BY <1>0 DEF M!Working, MonTypes
<1>2. ASSUME NEW p \in MonPayments PROVE timers[p] = 0 /\ removals[p] = 0
  <2>1. timers[p] \in Nat /\ removals[p] \in Nat
    BY <1>0 DEF MonTypes
  <2>2. ~ (timers[p] + removals[p] > 0)
    BY DEF M!Waiting
  <2> QED BY <2>1, <2>2
<1>3. ASSUME disturbed = {}, NEW p \in MonPayments
      PROVE  /\ load = M!NoLoad => memory[p] = monRow[p]
             /\ Rests(LastOf(history[p], Len(history[p])), monRow[p], monRow[p], 0, 0)
  <2>1. /\ rebuild \notin Rebuilding
        /\ rebuild.pc = "idle" /\ M!NoHandler.pc = "idle"
    BY <1>0, <1>1, MonStates
  <2>2. CASE StartPhase
    BY <2>2 DEF StartPhase
  <2>3. CASE ~ StartPhase
    <3>1. PICK h \in Handlers : WorkPhase(h)
      BY <1>0, <1>1, <1>3, <2>1, <2>3 DEF MonExact, ClearPhase
    <3>2. WorkPhase("live")
      BY <2>1, <3>1 DEF WorkPhase, Handlers
    <3>3. Rests(LastOf(history[p], Len(history[p])), memory[p], monRow[p], timers[p],
                removals[p])
      BY <1>1, <2>1, <3>2 DEF WorkPhase, PaymentOK, HandledBy, Handlers
    <3> QED BY <1>2, <3>3 DEF Rests
  <2> QED BY <2>2, <2>3
<1> QED BY <1>1, <1>2, <1>3

LEMMA DisturbFacts ==
  ASSUME NEW kind, NEW overlaps, M!Disturb(kind, overlaps)
  PROVE  /\ disturbed \subseteq disturbed'
         /\ disturbed' = {} => ~ overlaps /\ disturbed = {}
         /\ kind \notin disturbed' => ~ overlaps
         /\ overlaps => kind \in disturbed'
  BY DEF M!Disturb

(* There was no row to load. *)
LEMMA LoadDoneKeeps ==
  ASSUME MonInv, M!LoadDone
  PROVE  MonInv'
<1>0. MonTypes /\ MonHappened /\ MonShown /\ MonExact
  BY MonParts
<1>1. /\ M!Starting /\ load.of = {} /\ load' = M!NoLoad
      /\ history' = history /\ monRow' = monRow /\ handler' = handler /\ memory' = memory
      /\ timers' = timers /\ removals' = removals /\ rebuild' = rebuild
      /\ disturbed' = disturbed
  BY DEF M!LoadDone
<1>2. /\ load \in Loading /\ load # M!Down /\ load' # M!Down
      /\ load' \notin Loading /\ M!NoHandler.pc = "idle"
  BY <1>0, <1>1, MonStates
<1>3. MonTypes'
  BY <1>0, <1>1 DEF MonTypes
<1>4. MonHappened'
  BY <1>0, <1>1 DEF MonHappened
<1>5. MonShown'
  BY <1>0, <1>1, <1>2 DEF MonShown, IsShown, StillToCreate, BeingSaved
<1>6. MonExact'
  <2> SUFFICES ASSUME disturbed' = {}
               PROVE  (\E h \in Handlers : WorkPhase(h)') \/ ClearPhase'
    BY DEF MonExact
  <2>1. CASE \E h \in Handlers : WorkPhase(h)
    <3>1. PICK h \in Handlers : WorkPhase(h)
      BY <2>1
    <3>2. \A p \in MonPayments : HandledBy(h, p)' = HandledBy(h, p)
      BY <1>1 DEF HandledBy
    <3>3. WorkPhase(h)'
      BY <1>1, <1>2, <3>1, <3>2 DEF WorkPhase
    <3> QED BY <3>3
  <2>2. CASE ClearPhase
    BY <1>1, <1>2, <2>2 DEF ClearPhase, QuietPhase
  <2>3. CASE StartPhase
    <3>1. ASSUME NEW p \in MonPayments
          PROVE  PaymentOK(p, handler'["live"], history'[p], HandledBy("live", p)',
                           memory'[p], monRow'[p], timers'[p], removals'[p])
      <4>1. /\ Rests(LastOf(history[p], Len(history[p])), monRow[p], monRow[p], 0, 0)
            /\ timers[p] = 0 /\ removals[p] = 0 /\ memory[p] = "none"
            /\ monRow[p] = "none"
        BY <1>1, <1>2, <2>3 DEF StartPhase, QuietPhase
      <4>2. handler["live"].pc = "idle"
        BY <1>2, <2>3 DEF StartPhase, QuietPhase, Handlers
      <4> QED BY <1>1, <4>1, <4>2, RestsIsOK DEF HandledBy
    <3>2. /\ rebuild = M!NoRebuild /\ \A h \in Handlers : handler[h] = M!NoHandler
      BY <2>3 DEF StartPhase, QuietPhase
    <3>3. WorkPhase("live")'
      BY <1>1, <1>2, <3>1, <3>2 DEF WorkPhase
    <3> QED BY <3>3 DEF Handlers
  <2> QED BY <1>0, <1>1, <2>1, <2>2, <2>3 DEF MonExact
<1> QED BY <1>3, <1>4, <1>5, <1>6 DEF MonInv

-----------------------------------------------------------------------------
LEMMA StartRebuildKeeps ==
  ASSUME MonInv, M!StartRebuild
  PROVE  MonInv'
<1>0. MonTypes /\ MonHappened /\ MonShown /\ MonExact
  BY MonParts
<1>1. /\ rebuild = M!NoRebuild /\ rebuild' = [pc |-> "clear"]
      /\ memory' = [p \in MonPayments |-> "none"]
      /\ history' = history /\ monRow' = monRow /\ handler' = handler
      /\ timers' = timers /\ removals' = removals /\ load' = load
      /\ M!Disturb("rebuild", M!Working \/ M!Waiting) /\ load # M!Down
  BY DEF M!StartRebuild
<1>2. disturbed \subseteq disturbed'
      /\ (disturbed' = {} => ~ M!Working /\ ~ M!Waiting /\ disturbed = {})
  BY <1>1, DisturbFacts
<1>3. rebuild \notin Rebuilding /\ "none" \in M!Shown
  BY <1>0, <1>1, MonStates
<1>4. MonTypes'
  BY <1>0, <1>1, <1>3 DEF MonTypes
<1>5. rebuild'.pc = "clear" /\ rebuild' \notin Rebuilding
  BY <1>1 DEF Rebuilding
<1>6. MonHappened'
  BY <1>0, <1>1, <1>5 DEF MonHappened
<1>7. MonShown'
  BY <1>5 DEF MonShown, IsShown, StillToCreate
<1>8. MonExact'
  <2> SUFFICES ASSUME disturbed' = {} PROVE ClearPhase'
    BY DEF MonExact
  <2> QED BY <1>1, <1>2, <1>5, RestIsExact DEF ClearPhase, QuietPhase
<1> QED BY <1>4, <1>6, <1>7, <1>8 DEF MonInv

LEMMA ClearedKeeps ==
  ASSUME MonInv, M!Cleared
  PROVE  MonInv'
<1>0. MonTypes /\ MonHappened /\ MonShown /\ MonExact
  BY MonParts
<1>1. /\ rebuild.pc = "clear" /\ rebuild' = [pc |-> "read"]
      /\ monRow' = [p \in MonPayments |-> "none"]
      /\ history' = history /\ memory' = memory /\ handler' = handler
      /\ timers' = timers /\ removals' = removals /\ load' = load
      /\ disturbed' = disturbed
  BY DEF M!Cleared
<1>3. rebuild \notin Rebuilding /\ "none" \in M!Shown /\ rebuild # M!NoRebuild
  BY <1>0, <1>1, MonStates
<1>4. MonTypes'
  BY <1>0, <1>1, <1>3 DEF MonTypes
<1>5. rebuild'.pc = "read" /\ rebuild' \notin Rebuilding
  BY <1>1 DEF Rebuilding
<1>6. MonHappened'
  BY <1>0, <1>1, <1>5 DEF MonHappened
<1>7. MonShown'
  BY <1>5 DEF MonShown, IsShown, StillToCreate
<1>8. MonExact'
  <2> SUFFICES ASSUME disturbed' = {} PROVE ClearPhase'
    BY DEF MonExact
  <2>1. ClearPhase
    BY <1>0, <1>1, <1>3 DEF MonExact, WorkPhase, StartPhase, Handlers
  <2> QED BY <1>1, <2>1 DEF ClearPhase, QuietPhase
<1> QED BY <1>4, <1>6, <1>7, <1>8 DEF MonInv

LEMMA ReadEventsKeeps ==
  ASSUME MonInv, M!ReadEvents
  PROVE  MonInv'
<1>0. MonTypes /\ MonHappened /\ MonShown /\ MonExact
  BY MonParts
<1>1. /\ rebuild.pc = "read" /\ rebuild' = [pc |-> "handle", todo |-> history]
      /\ monRow' = monRow /\ history' = history /\ memory' = memory /\ handler' = handler
      /\ timers' = timers /\ removals' = removals /\ load' = load
      /\ disturbed' = disturbed
  BY DEF M!ReadEvents
<1>3. /\ rebuild \notin Rebuilding /\ rebuild # M!NoRebuild /\ M!NoHandler.pc = "idle"
  BY <1>0, <1>1, MonStates
<1>5. rebuild'.pc = "handle" /\ rebuild' \in Rebuilding /\ rebuild'.todo = history
  BY <1>0, <1>1 DEF Rebuilding, MonTypes
<1>4. MonTypes'
  BY <1>0, <1>1, <1>5 DEF MonTypes
<1>6. MonHappened'
  BY <1>0, <1>1, <1>5 DEF MonHappened, HasEvent
<1>7. MonShown'
  <2>1. ASSUME NEW p \in MonPayments, Unfinished(history[p])
        PROVE  HasEvent(history[p], "Created")
    BY <2>1 DEF Unfinished, HasEvent
  <2> QED BY <1>1, <1>5, <2>1 DEF MonShown, IsShown, StillToCreate
<1>8. MonExact'
  <2> SUFFICES ASSUME disturbed' = {} PROVE WorkPhase("rebuild")'
    BY DEF MonExact, Handlers
  <2>1. ClearPhase
    BY <1>0, <1>1, <1>3 DEF MonExact, WorkPhase, StartPhase, Handlers
  <2>2. ASSUME NEW p \in MonPayments
        PROVE  /\ PaymentOK(p, handler'["rebuild"], history'[p], HandledBy("rebuild", p)',
                            memory'[p], monRow'[p], timers'[p], removals'[p])
               /\ IsRest(rebuild'.todo[p], history'[p])
    <3>1. Len(history[p]) \in Nat
      BY <1>0 DEF MonTypes
    <3>2. HandledBy("rebuild", p)' = 0
      BY <1>1, <1>5, <3>1 DEF HandledBy
    <3>3. /\ memory'[p] = "none" /\ monRow'[p] = "none" /\ timers'[p] = 0 /\ removals'[p] = 0
          /\ handler'["rebuild"].pc = "idle"
      BY <1>1, <1>3, <2>1 DEF ClearPhase, QuietPhase, Handlers
    <3>4. Rests(LastOf(history'[p], 0), memory'[p], monRow'[p], timers'[p], removals'[p])
      BY <3>3 DEF LastOf, Rests
    <3>5. IsRest(history[p], history[p])
      BY <3>1 DEF IsRest
    <3> QED BY <1>1, <1>5, <3>2, <3>3, <3>4, <3>5, RestsIsOK
  <2>3. load' # M!Down /\ \A g \in Handlers : handler'[g] = M!NoHandler
    BY <1>1, <2>1 DEF ClearPhase, QuietPhase
  <2> QED BY <1>5, <2>2, <2>3 DEF WorkPhase
<1> QED BY <1>4, <1>6, <1>7, <1>8 DEF MonInv

(* What is left when the first event left is taken. *)
LEMMA TailFacts ==
  ASSUME NEW td \in Seq(EventNames), td # <<>>
  PROVE  /\ Len(td) \in Nat /\ Len(td) >= 1 /\ Head(td) = td[1] /\ td[1] \in EventNames
         /\ Tail(td) \in Seq(EventNames) /\ Len(Tail(td)) = Len(td) - 1
         /\ \A i \in 1..Len(td) - 1 : Tail(td)[i] = td[i + 1]
         /\ \A i \in 1..Len(Tail(td)) : i + 1 \in 1..Len(td) /\ Tail(td)[i] = td[i + 1]
         /\ \A event : HasEvent(td, event) => event = td[1] \/ HasEvent(Tail(td), event)
<1>1. Len(td) \in Nat /\ Len(td) >= 1 /\ Head(td) = td[1] /\ td[1] \in EventNames
  OBVIOUS
<1>2. /\ Tail(td) \in Seq(EventNames) /\ Len(Tail(td)) = Len(td) - 1
      /\ \A i \in 1..Len(td) - 1 : Tail(td)[i] = td[i + 1]
  OBVIOUS
<1>3. \A i \in 1..Len(Tail(td)) : i + 1 \in 1..Len(td) /\ Tail(td)[i] = td[i + 1]
  BY <1>1, <1>2
<1>4. ASSUME NEW event, HasEvent(td, event), event # td[1]
      PROVE  HasEvent(Tail(td), event)
  <2>1. PICK i \in 1..Len(td) : td[i] = event
    BY <1>4 DEF HasEvent
  <2>2. i # 1
    BY <1>4, <2>1
  <2>3. i - 1 \in 1..Len(td) - 1 /\ (i - 1) + 1 = i
    BY <1>1, <2>2
  <2>4. Tail(td)[i - 1] = event
    BY <1>2, <2>1, <2>3
  <2> QED BY <1>2, <2>3, <2>4 DEF HasEvent
<1> QED BY <1>1, <1>2, <1>3, <1>4

LEMMA OneFurther ==
  ASSUME NEW a \in Nat, NEW b \in Nat, b >= 1, b <= a, NEW n, n = a - b
  PROVE  /\ n \in Nat /\ n + 1 \in 1..a /\ (n # 0 => n \in 1..a)
         /\ n + 1 # 0 /\ a - (b - 1) = n + 1 /\ b - 1 <= a
         /\ \A i \in 1..b - 1 : i + 1 \in 1..b /\ n + (i + 1) = (n + 1) + i
  OBVIOUS

LEMMA RestMoves ==
  ASSUME NEW td \in Seq(EventNames), td # <<>>, NEW hs \in Seq(EventNames),
         IsRest(td, hs), NEW n, n = Len(hs) - Len(td)
  PROVE  /\ n \in Nat /\ n + 1 \in 1..Len(hs) /\ hs[n + 1] = td[1]
         /\ n # 0 => n \in 1..Len(hs)
         /\ Len(hs) - Len(Tail(td)) = n + 1 /\ LastOf(hs, n + 1) = td[1]
         /\ IsRest(Tail(td), hs)
<1>0. Len(hs) \in Nat
  OBVIOUS
<1>1. /\ Len(td) \in Nat /\ Len(td) >= 1 /\ Len(Tail(td)) = Len(td) - 1
      /\ \A i \in 1..Len(td) - 1 : Tail(td)[i] = td[i + 1]
  BY TailFacts
<1>2. Len(td) <= Len(hs) /\ \A i \in 1..Len(td) : td[i] = hs[n + i]
  BY DEF IsRest
<1>3. /\ n \in Nat /\ n + 1 \in 1..Len(hs) /\ (n # 0 => n \in 1..Len(hs))
      /\ n + 1 # 0 /\ Len(hs) - (Len(td) - 1) = n + 1 /\ Len(td) - 1 <= Len(hs)
      /\ \A i \in 1..Len(td) - 1 : i + 1 \in 1..Len(td) /\ n + (i + 1) = (n + 1) + i
  <2>1. Len(td) \in Nat /\ Len(td) >= 1 /\ Len(td) <= Len(hs)
    BY <1>1, <1>2
  <2> QED BY <1>0, <2>1, OneFurther
<1>4. hs[n + 1] = td[1]
  <2>1. 1 \in 1..Len(td)
    BY <1>1
  <2> QED BY <1>2, <2>1
<1>5. Len(hs) - Len(Tail(td)) = n + 1 /\ Len(Tail(td)) <= Len(hs)
  BY <1>1, <1>3
<1>6. LastOf(hs, n + 1) = td[1]
  BY <1>3, <1>4 DEF LastOf
<1>7. ASSUME NEW i \in 1..Len(td) - 1 PROVE Tail(td)[i] = hs[(n + 1) + i]
  <2>1. i + 1 \in 1..Len(td) /\ n + (i + 1) = (n + 1) + i
    BY <1>3
  <2>2. td[i + 1] = hs[n + (i + 1)]
    BY <1>2, <2>1
  <2> QED BY <1>1, <2>1, <2>2
<1>8. IsRest(Tail(td), hs)
  BY <1>1, <1>5, <1>7 DEF IsRest
<1> QED BY <1>3, <1>4, <1>5, <1>6, <1>8

(* The rebuild handles the next event of a payment. *)
LEMMA HandleOneKeeps ==
  ASSUME MonInv, rebuild.pc = "handle", handler["rebuild"] = M!NoHandler,
         NEW p \in MonPayments, rebuild.todo[p] # <<>>,
         M!Handle("rebuild", p, Head(rebuild.todo[p])),
         rebuild' = [rebuild EXCEPT !.todo[p] = Tail(@)],
         history' = history, monRow' = monRow, timers' = timers, removals' = removals,
         load' = load, disturbed' = disturbed
  PROVE  MonInv'
<1>0. MonTypes /\ MonHappened /\ MonShown /\ MonExact
  BY MonParts
<1>1. rebuild \in Rebuilding /\ M!NoHandler.pc = "idle" /\ rebuild # M!NoRebuild
  BY <1>0, MonStates
<1> SUFFICES ASSUME NEW td \in Seq(EventNames), td = rebuild.todo[p], td # <<>>,
                    NEW event, event = Head(td)
             PROVE  MonInv'
  BY <1>1 DEF Rebuilding
<1>2. /\ Len(td) \in Nat /\ Len(td) >= 1 /\ event = td[1] /\ event \in EventNames
      /\ Tail(td) \in Seq(EventNames) /\ Len(Tail(td)) = Len(td) - 1
      /\ \A i \in 1..Len(Tail(td)) : i + 1 \in 1..Len(td) /\ Tail(td)[i] = td[i + 1]
      /\ HasEvent(td, "Created") => event = "Created" \/ HasEvent(Tail(td), "Created")
  BY TailFacts
<1>3. /\ rebuild' \in Rebuilding /\ rebuild'.pc = "handle"
      /\ rebuild'.todo[p] = Tail(td)
      /\ \A q \in MonPayments \ {p} : rebuild'.todo[q] = rebuild.todo[q]
  BY <1>1, <1>2 DEF Rebuilding
<1>4. /\ memory' \in [MonPayments -> M!Shown]
      /\ handler' \in [Handlers -> {M!NoHandler} \cup Saving]
      /\ \A q \in MonPayments \ {p} : memory'[q] = memory[q]
      /\ handler'["live"] = handler["live"]
      /\ Heeded(p, event) =>
           /\ memory'[p] = M!Status(event) /\ memory'[p] # "none"
           /\ handler'["rebuild"] # M!NoHandler
           /\ handler'["rebuild"].pc = "save" /\ handler'["rebuild"].of = p
           /\ handler'["rebuild"].event = event
      /\ ~ Heeded(p, event) => memory' = memory /\ handler' = handler
  BY <1>0, <1>2, HandleFacts DEF Handlers
<1>5. MonTypes'
  BY <1>0, <1>3, <1>4 DEF MonTypes
<1>6. MonHappened'
  <2>1. ASSUME NEW h \in Handlers, handler'[h] # M!NoHandler
        PROVE  /\ HasEvent(history'[handler'[h].of], handler'[h].event)
               /\ handler'[h].pc = "remove" => handler'[h].event = "Cancelled"
    <3>1. CASE handler'[h] = handler[h]
      BY <1>0, <2>1, <3>1 DEF MonHappened
    <3>2. CASE handler'[h] # handler[h]
      <4>1. h = "rebuild" /\ Heeded(p, event)
        BY <1>4, <3>2 DEF Handlers
      <4>2. HasEvent(history[p], event)
        BY <1>0, <1>1, <1>2 DEF MonHappened
      <4> QED BY <1>4, <4>1, <4>2
    <3> QED BY <3>1, <3>2
  <2>2. ASSUME NEW q \in MonPayments, NEW i \in 1..Len(rebuild'.todo[q])
        PROVE  HasEvent(history'[q], rebuild'.todo[q][i])
    <3>1. CASE q = p
      <4>a. rebuild'.todo[q] = Tail(td)
        BY <1>3, <3>1
      <4>1. rebuild'.todo[q][i] = td[i + 1] /\ i + 1 \in 1..Len(td)
        BY <1>2, <2>2, <4>a
      <4> QED BY <1>0, <1>1, <3>1, <4>1 DEF MonHappened
    <3>2. CASE q # p
      BY <1>0, <1>1, <1>3, <2>2, <3>2 DEF MonHappened
    <3> QED BY <3>1, <3>2
  <2> QED BY <1>0, <2>1, <2>2 DEF MonHappened
<1>7. MonShown'
  <2> SUFFICES ASSUME "unsaved" \notin disturbed', NEW q \in MonPayments,
                      Unfinished(history'[q])
               PROVE  IsShown(q)'
    BY DEF MonShown
  <2>1. IsShown(q)
    BY <1>0 DEF MonShown
  <2>2. CASE q # p
    <3>1. StillToCreate(q)' <=> StillToCreate(q)
      BY <1>3, <2>2 DEF StillToCreate
    <3>2. /\ \A h \in Handlers : handler[h].pc = "save" => handler'[h] = handler[h]
          /\ \A h \in Handlers : handler'[h].pc = "save" /\ handler'[h].of = q =>
               handler'[h] = handler[h]
      BY <1>1, <1>4, <2>2 DEF Handlers
    <3>3. BeingSaved(q)' <=> BeingSaved(q)
      BY <3>2 DEF BeingSaved
    <3> QED BY <1>4, <2>1, <2>2, <3>1, <3>3 DEF IsShown
  <2>3. CASE q = p /\ Heeded(p, event)
    BY <1>4, <2>3 DEF IsShown, BeingSaved, Handlers
  <2>4. CASE q = p /\ ~ Heeded(p, event)
    <3>1. HasEvent(td, "Created") => HasEvent(Tail(td), "Created")
      BY <1>2, <2>4 DEF Heeded
    <3>2. StillToCreate(p) => StillToCreate(p)'
      BY <1>3, <3>1 DEF StillToCreate
    <3>3. BeingSaved(p)' <=> BeingSaved(p)
      BY <1>4, <2>4 DEF BeingSaved
    <3> QED BY <1>4, <2>1, <2>4, <3>2, <3>3 DEF IsShown
  <2> QED BY <2>2, <2>3, <2>4
<1>8. MonExact'
  <2> SUFFICES ASSUME disturbed' = {} PROVE WorkPhase("rebuild")'
    BY DEF MonExact, Handlers
  <2>1. WorkPhase("rebuild")
    <3>1. ~ StartPhase /\ ~ ClearPhase
      BY <1>1 DEF StartPhase, ClearPhase
    <3> QED BY <1>0, <1>1, <3>1 DEF MonExact, WorkPhase, Handlers
  <2> DEFINE hs == history[p]
  <2>2. /\ IsLife(hs) /\ Len(hs) \in Nat /\ IsRest(td, hs)
    BY <1>0, <2>1 DEF MonTypes, WorkPhase
  <2>3. Rests(LastOf(hs, Len(hs) - Len(td)), memory[p], monRow[p], timers[p], removals[p])
    BY <1>1, <2>1 DEF WorkPhase, PaymentOK, HandledBy
  <2> HIDE DEF hs
  <2> SUFFICES ASSUME NEW n, n = Len(hs) - Len(td) PROVE WorkPhase("rebuild")'
    OBVIOUS
  <2>4. /\ n \in Nat /\ n + 1 \in 1..Len(hs) /\ hs[n + 1] = event
        /\ n # 0 => n \in 1..Len(hs)
        /\ Len(hs) - Len(Tail(td)) = n + 1 /\ LastOf(hs, n + 1) = event
        /\ IsRest(Tail(td), hs)
    <3>1. hs \in Seq(EventNames)
      BY <2>2, LifeFacts
    <3>2. /\ n \in Nat /\ n + 1 \in 1..Len(hs) /\ hs[n + 1] = td[1]
          /\ (n # 0 => n \in 1..Len(hs))
          /\ Len(hs) - Len(Tail(td)) = n + 1 /\ LastOf(hs, n + 1) = td[1]
          /\ IsRest(Tail(td), hs)
      <4>1. td \in Seq(EventNames) /\ td # <<>> /\ IsRest(td, hs) /\ n = Len(hs) - Len(td)
        BY <2>2
      <4> HIDE <2>2
      <4> QED BY <3>1, <4>1, RestMoves
    <3> QED BY <1>2, <3>2
  <2>5. /\ event = "Created" \/ memory[p] # "none"
        /\ timers[p] = 0 /\ removals[p] = 0
        /\ event = "Expired" =>
             Rests("Created", memory[p], monRow[p], timers[p], removals[p])
    <3>1. CASE n = 0
      <4>a. n + 1 = 1
        BY <3>1
      <4>b. 1 \in 1..Len(hs) /\ hs[1] = event
        BY <2>4, <4>a
      <4>0. Len(hs) > 0 /\ hs[1] = event
        BY <2>2, <4>b
      <4>1. event = "Created"
        BY <2>2, <4>0, LifeFacts
      <4>2. timers[p] = 0 /\ removals[p] = 0
        BY <2>3, <3>1 DEF LastOf, Rests, EventNames
      <4> QED BY <4>1, <4>2
    <3>2. CASE n # 0
      <4>1. hs[n] \in {"Created", "Confirmed"}
        <5>1. n \in 1..Len(hs) /\ n + 1 <= Len(hs)
          BY <2>4, <3>2
        <5> QED BY <2>2, <5>1, LifeFacts
      <4>2. memory[p] = M!Status(hs[n]) /\ timers[p] = 0 /\ removals[p] = 0
        BY <2>3, <3>2, <4>1 DEF LastOf, Rests, EventNames
      <4>3. memory[p] # "none"
        BY <4>1, <4>2, ShownStatus DEF EventNames
      <4>4. ASSUME event = "Expired"
            PROVE  Rests("Created", memory[p], monRow[p], timers[p], removals[p])
        <5>1. n + 1 = 2 /\ hs[1] = "Created"
          BY <2>2, <2>4, <4>4, LifeFacts
        <5>2. n = 1
          BY <2>4, <5>1
        <5>3. LastOf(hs, Len(hs) - Len(td)) = "Created"
          BY <5>1, <5>2 DEF LastOf
        <5> QED BY <2>3, <5>3
      <4> QED BY <4>2, <4>3, <4>4
    <3> QED BY <3>1, <3>2
  <2>7. HandledBy("rebuild", p)' = n + 1
    <3>1. HandledBy("rebuild", p)' = Len(hs) - Len(Tail(td))
      BY <1>3 DEF HandledBy, hs
    <3> QED BY <2>4, <3>1
  <2>8. PaymentOK(p, handler'["rebuild"], history'[p], n + 1, memory'[p], monRow'[p],
                  timers'[p], removals'[p])
    <3>1. LastOf(hs, n + 1) = event
      BY <2>4
    <3>2. CASE event # "Expired"
      <4>1. Heeded(p, event)
        BY <2>5, <3>2 DEF Heeded
      <4>2. Works(handler'["rebuild"], event, memory'[p], timers'[p], removals'[p])
        BY <1>2, <1>4, <2>5, <4>1 DEF Works
      <4> QED BY <1>4, <3>1, <4>1, <4>2 DEF PaymentOK, hs
    <3>3. CASE event = "Expired"
      <4>1. ~ Heeded(p, event)
        BY <3>3 DEF Heeded
      <4>2. Rests("Expired", memory'[p], monRow'[p], timers'[p], removals'[p])
        BY <1>4, <2>5, <3>3, <4>1, ExpiryChangesNothing
      <4>3. handler'["rebuild"].pc = "idle" /\ history'[p] = hs
        BY <1>1, <1>4, <4>1 DEF hs
      <4>4. Rests(LastOf(hs, n + 1), memory'[p], monRow'[p], timers'[p], removals'[p])
        BY <3>1, <3>3, <4>2
      <4> QED BY <4>3, <4>4, RestsIsOK
    <3> QED BY <3>2, <3>3
  <2>9. ASSUME NEW q \in MonPayments \ {p}
        PROVE  PaymentOK(q, handler'["rebuild"], history'[q], HandledBy("rebuild", q)',
                         memory'[q], monRow'[q], timers'[q], removals'[q])
    <3>0. rebuild'.todo[q] = rebuild.todo[q]
      BY <1>3, <2>9
    <3>1. HandledBy("rebuild", q)' = HandledBy("rebuild", q)
      <4>1. /\ HandledBy("rebuild", q) = Len(history[q]) - Len(rebuild.todo[q])
            /\ HandledBy("rebuild", q)' = Len(history'[q]) - Len(rebuild'.todo[q])
        BY DEF HandledBy
      <4> QED BY <3>0, <4>1
    <3>2. Rests(LastOf(history[q], HandledBy("rebuild", q)), memory[q], monRow[q],
                timers[q], removals[q])
      BY <1>1, <2>1, <2>9 DEF WorkPhase, PaymentOK
    <3>3. ~ (handler'["rebuild"].pc # "idle" /\ handler'["rebuild"].of = q)
      BY <1>1, <1>4, <2>9
    <3> QED BY <1>4, <2>9, <3>1, <3>2, <3>3 DEF PaymentOK
  <2>10. \A q \in MonPayments : IsRest(rebuild'.todo[q], history'[q])
    BY <1>3, <2>1, <2>4 DEF WorkPhase, hs
  <2>11. \A q \in MonPayments :
           PaymentOK(q, handler'["rebuild"], history'[q], HandledBy("rebuild", q)',
                     memory'[q], monRow'[q], timers'[q], removals'[q])
    BY <2>7, <2>8, <2>9
  <2>12. load' # M!Down /\ \A g \in Handlers \ {"rebuild"} : handler'[g] = M!NoHandler
    BY <1>4, <2>1 DEF WorkPhase, Handlers
  <2> QED BY <1>3, <2>10, <2>11, <2>12 DEF WorkPhase
<1> QED BY <1>5, <1>6, <1>7, <1>8 DEF MonInv

LEMMA HandleAgainKeeps ==
  ASSUME MonInv, M!HandleAgain
  PROVE  MonInv'
<1>0. MonTypes /\ MonHappened /\ MonShown /\ MonExact
  BY MonParts
<1>1. /\ rebuild.pc = "handle" /\ handler["rebuild"] = M!NoHandler
      /\ history' = history /\ monRow' = monRow /\ timers' = timers
      /\ removals' = removals /\ load' = load /\ disturbed' = disturbed
  BY DEF M!HandleAgain
<1>2. CASE /\ \A p \in MonPayments : rebuild.todo[p] = <<>>
           /\ rebuild' = M!NoRebuild /\ UNCHANGED <<memory, handler>>
  <2>1. /\ rebuild \in Rebuilding /\ M!NoRebuild.pc = "idle" /\ M!NoHandler.pc = "idle"
        /\ rebuild # M!NoRebuild
    BY <1>0, <1>1, MonStates
  <2>2. rebuild' \notin Rebuilding /\ rebuild'.pc = "idle"
    BY <1>2, <2>1 DEF Rebuilding
  <2>3. MonTypes'
    BY <1>0, <1>1, <1>2 DEF MonTypes
  <2>4. MonHappened'
    BY <1>0, <1>1, <1>2, <2>2 DEF MonHappened
  <2>5. MonShown'
    <3>1. \A p \in MonPayments : ~ StillToCreate(p)
      BY <1>1, <1>2 DEF StillToCreate, HasEvent
    <3>2. /\ \A p \in MonPayments : ~ StillToCreate(p)'
          /\ \A p \in MonPayments : BeingSaved(p)' <=> BeingSaved(p)
      BY <1>2, <2>2 DEF StillToCreate, BeingSaved
    <3> QED BY <1>0, <1>1, <1>2, <3>1, <3>2 DEF MonShown, IsShown
  <2>6. MonExact'
    <3> SUFFICES ASSUME disturbed' = {} PROVE WorkPhase("live")'
      BY DEF MonExact, Handlers
    <3>1. WorkPhase("rebuild")
      <4>1. ~ StartPhase /\ ~ ClearPhase
        BY <1>1, <2>1 DEF StartPhase, ClearPhase
      <4> QED BY <1>0, <1>1, <2>1, <4>1 DEF MonExact, WorkPhase, Handlers
    <3>2. ASSUME NEW p \in MonPayments
          PROVE  PaymentOK(p, handler'["live"], history'[p], HandledBy("live", p)',
                           memory'[p], monRow'[p], timers'[p], removals'[p])
      <4>1. HandledBy("rebuild", p) = Len(history[p])
        <5>1. Len(history[p]) \in Nat /\ Len(rebuild.todo[p]) = 0
          BY <1>0, <1>2 DEF MonTypes
        <5> QED BY <5>1 DEF HandledBy
      <4>2. Rests(LastOf(history[p], Len(history[p])), memory[p], monRow[p],
                  timers[p], removals[p])
        BY <1>1, <2>1, <3>1, <4>1 DEF WorkPhase, PaymentOK
      <4>3. handler'["live"].pc = "idle"
        BY <1>2, <2>1, <3>1 DEF WorkPhase, Handlers
      <4> QED BY <1>1, <1>2, <4>2, <4>3, RestsIsOK DEF HandledBy
    <3> QED BY <1>1, <1>2, <3>1, <3>2 DEF WorkPhase, Handlers
  <2> QED BY <2>3, <2>4, <2>5, <2>6 DEF MonInv
<1>3. ASSUME NEW p \in MonPayments, rebuild.todo[p] # <<>>,
             M!Handle("rebuild", p, Head(rebuild.todo[p])),
             rebuild' = [rebuild EXCEPT !.todo[p] = Tail(@)]
      PROVE  MonInv'
  BY <1>1, <1>3, HandleOneKeeps
<1> QED BY <1>2, <1>3 DEF M!HandleAgain

(* What throws leaves the rest as it was. *)
LEMMA ThrowsKeeps ==
  ASSUME MonInv, M!RebuildThrows \/ \E h \in Handlers : M!NotSaved(h)
  PROVE  MonInv'
<1>0. MonTypes /\ MonHappened
  BY MonParts
<1>1. /\ history' = history /\ memory' = memory /\ monRow' = monRow /\ timers' = timers
      /\ removals' = removals /\ load' = load /\ M!Disturb("unsaved", TRUE)
  BY DEF M!RebuildThrows, M!NotSaved
<1>2. "unsaved" \in disturbed'
  BY <1>1, DisturbFacts
<1>3. M!NoRebuild \notin Rebuilding
  BY DEF M!NoRebuild, Rebuilding
<1>4. CASE M!RebuildThrows
  <2>1. handler' = handler /\ rebuild' = M!NoRebuild /\ rebuild \notin Rebuilding
    BY <1>0, <1>4, MonStates DEF M!RebuildThrows
  <2>2. MonTypes'
    BY <1>0, <1>1, <2>1 DEF MonTypes
  <2>3. MonHappened'
    BY <1>0, <1>1, <1>3, <2>1 DEF MonHappened
  <2> QED BY <1>2, <2>2, <2>3 DEF MonInv, MonShown, MonExact
<1>5. ASSUME NEW h \in Handlers, M!NotSaved(h) PROVE MonInv'
  <2>1. /\ handler' = [handler EXCEPT ![h] = M!NoHandler]
        /\ h = "rebuild" => rebuild' = M!NoRebuild
        /\ h # "rebuild" => rebuild' = rebuild
    BY <1>5 DEF M!NotSaved, M!Done
  <2>2. handler \in [Handlers -> {M!NoHandler} \cup Saving]
    BY <1>0 DEF MonTypes
  <2>3. /\ handler' \in [Handlers -> {M!NoHandler} \cup Saving]
        /\ handler'[h] = M!NoHandler
        /\ \A g \in Handlers \ {h} : handler'[g] = handler[g]
    BY <2>1, <2>2
  <2>4. MonTypes'
    <3>1. handler'["rebuild"] # M!NoHandler => rebuild' \in Rebuilding
      BY <1>0, <2>1, <2>3 DEF MonTypes, Handlers
    <3>2. rebuild' \in {M!NoRebuild, [pc |-> "clear"], [pc |-> "read"]} \cup Rebuilding
      BY <1>0, <2>1 DEF MonTypes
    <3> QED BY <1>0, <1>1, <2>3, <3>1, <3>2 DEF MonTypes
  <2>5. MonHappened'
    <3>1. ASSUME NEW g \in Handlers, handler'[g] # M!NoHandler
          PROVE  /\ HasEvent(history'[handler'[g].of], handler'[g].event)
                 /\ handler'[g].pc = "remove" => handler'[g].event = "Cancelled"
      BY <1>0, <1>1, <2>3, <3>1 DEF MonHappened
    <3>2. rebuild' \in Rebuilding => rebuild' = rebuild
      BY <1>3, <2>1
    <3> QED BY <1>0, <1>1, <3>1, <3>2 DEF MonHappened
  <2> QED BY <1>2, <2>4, <2>5 DEF MonInv, MonShown, MonExact
<1> QED BY <1>4, <1>5

(* A process ends with memory, timers and what it does; the next one starts *)
(* over the rows.                                                           *)
LEMMA EndsKeeps ==
  ASSUME MonInv, NEW then, then = M!Down \/ then \in Loading,
         \A p \in MonPayments : then \in Loading /\ monRow[p] # "none" => p \in then.of,
         M!Ends(then), disturbed \subseteq disturbed',
         "restart" \notin disturbed' => ~ M!Working /\ ~ M!Waiting
  PROVE  MonInv'
<1>0. MonTypes /\ MonHappened /\ MonShown /\ MonExact
  BY MonParts
<1>1. /\ memory' = [p \in MonPayments |-> "none"]
      /\ handler' = [h \in Handlers |-> M!NoHandler]
      /\ timers' = [p \in MonPayments |-> 0] /\ removals' = [p \in MonPayments |-> 0]
      /\ rebuild' = M!NoRebuild /\ load' = then
      /\ history' = history /\ monRow' = monRow
  BY <1>0 DEF M!Ends, MonTypes
<1>3. /\ then # M!NoLoad /\ "none" \in M!Shown
      /\ M!NoHandler.pc = "idle" /\ M!NoRebuild.pc = "idle"
  BY <1>0, MonStates
<1>4. MonTypes'
  BY <1>0, <1>1, <1>3 DEF MonTypes, Handlers
<1>5. rebuild' \notin Rebuilding
  BY <1>1, <1>3 DEF Rebuilding
<1>6. MonHappened'
  BY <1>1, <1>5 DEF MonHappened
<1>7. MonShown'
  <2> SUFFICES ASSUME "unsaved" \notin disturbed', NEW q \in MonPayments,
                      Unfinished(history'[q])
               PROVE  IsShown(q)'
    BY DEF MonShown
  <2>1. IsShown(q)
    BY <1>0, <1>1 DEF MonShown
  <2>2. memory'[q] = "none" /\ ~ BeingSaved(q)'
    BY <1>1, <1>3 DEF BeingSaved
  <2>3. ASSUME "restart" \notin disturbed' PROVE monRow[q] # "none"
    <3>1. /\ rebuild = M!NoRebuild /\ \A h \in Handlers : handler[h] = M!NoHandler
      BY <2>3, RestIsExact
    <3>2. ~ BeingSaved(q) /\ ~ StillToCreate(q)
      BY <1>3, <3>1 DEF BeingSaved, StillToCreate
    <3> QED BY <2>1, <2>3, <3>2 DEF IsShown
  <2> QED BY <1>1, <2>2, <2>3 DEF IsShown
<1>8. MonExact'
  <2> SUFFICES ASSUME disturbed' = {} PROVE StartPhase'
    BY DEF MonExact
  <2>1. disturbed = {} /\ ~ M!Working /\ ~ M!Waiting
    OBVIOUS
  <2>2. \A p \in MonPayments :
          Rests(LastOf(history[p], Len(history[p])), monRow[p], monRow[p], 0, 0)
    BY <2>1, RestIsExact
  <2> QED BY <1>1, <1>3, <2>2 DEF StartPhase, QuietPhase
<1> QED BY <1>4, <1>6, <1>7, <1>8 DEF MonInv

LEMMA FallsKeeps ==
  ASSUME MonInv,
         M!Restart \/ M!LoadThrows \/ \E p \in MonPayments : M!RemovalThrows(p)
  PROVE  MonInv'
<1>0. MonTypes
  BY MonParts
<1>1. CASE M!Restart
  <2> DEFINE then == [pc |-> "start", of |-> {p \in MonPayments : monRow[p] # "none"}]
  <2>1. M!Ends(then) /\ M!Disturb("restart", M!Working \/ M!Waiting)
    BY <1>1 DEF M!Restart
  <2>2. then \in Loading /\ \A p \in MonPayments : monRow[p] # "none" => p \in then.of
    BY DEF Loading
  <2>3. /\ disturbed \subseteq disturbed'
        /\ "restart" \notin disturbed' => ~ M!Working /\ ~ M!Waiting
    BY <2>1, DisturbFacts
  <2> HIDE DEF then
  <2> QED BY <2>1, <2>2, <2>3, EndsKeeps
<1>2. CASE M!LoadThrows
  <2>1. M!Ends(M!Down) /\ M!Down \notin Loading
    BY <1>0, <1>2, MonStates DEF M!LoadThrows
  <2>2. /\ disturbed \subseteq disturbed'
        /\ "restart" \notin disturbed' => ~ M!Working /\ ~ M!Waiting
    BY <1>2 DEF M!LoadThrows
  <2> QED BY <2>1, <2>2, EndsKeeps
<1>3. ASSUME NEW p \in MonPayments, M!RemovalThrows(p) PROVE MonInv'
  <2>1. M!Ends(M!Down) /\ M!Down \notin Loading /\ M!Disturb("restart", TRUE)
    BY <1>0, <1>3, MonStates DEF M!RemovalThrows
  <2>2. disturbed \subseteq disturbed' /\ "restart" \in disturbed'
    BY <2>1, DisturbFacts
  <2> QED BY <2>1, <2>2, EndsKeeps
<1> QED BY <1>1, <1>2, <1>3

LEMMA MonNext == MonInv /\ M!Next => MonInv'
<1> SUFFICES ASSUME MonInv, M!Next PROVE MonInv'
  OBVIOUS
<1>1. DOMAIN handler = Handlers
  BY MonParts DEF MonTypes
<1>2. ASSUME NEW p \in MonPayments, NEW event, M!Live(p, event) PROVE MonInv'
  BY <1>2, LiveKeeps
<1>3. ASSUME NEW p \in MonPayments, M!TimerFires(p) \/ M!RemovalDone(p) PROVE MonInv'
  BY <1>3, DroppedKeeps
<1>4. ASSUME NEW h \in DOMAIN handler, M!Saved(h) \/ M!Removed(h) PROVE MonInv'
  BY <1>1, <1>4, SavedKeeps, RemovedKeeps
<1>5. CASE M!LoadDone \/ M!StartRebuild \/ M!Cleared \/ M!ReadEvents \/ M!HandleAgain
  BY <1>5, LoadDoneKeeps, StartRebuildKeeps, ClearedKeeps, ReadEventsKeeps, HandleAgainKeeps
<1>6. CASE M!RebuildThrows \/ \E h \in DOMAIN handler : M!NotSaved(h)
  BY <1>1, <1>6, ThrowsKeeps
<1>7. CASE M!Restart \/ M!LoadThrows \/ \E p \in MonPayments : M!RemovalThrows(p)
  BY <1>7, FallsKeeps
<1> QED BY <1>2, <1>3, <1>4, <1>5, <1>6, <1>7 DEF M!Next

(* The invariant says what the properties ask. *)
LEMMA MonTells ==
  MonInv => M!TypeOK /\ M!MonitoringFollowsEvents /\ M!UnfinishedAreShown
<1> SUFFICES ASSUME MonInv
             PROVE  M!TypeOK /\ M!MonitoringFollowsEvents /\ M!UnfinishedAreShown
  OBVIOUS
<1>0. MonTypes /\ MonHappened /\ MonShown /\ MonExact
  BY MonParts
<1>1. M!TypeOK
  <2>1. \A h \in DOMAIN handler : handler[h].pc \in {"idle", "save", "remove"}
    BY <1>0, MonStates DEF MonTypes
  <2>2. handler["rebuild"] # M!NoHandler => rebuild.pc = "handle"
    BY <1>0, MonStates DEF MonTypes
  <2> QED BY <1>0, <2>1, <2>2 DEF M!TypeOK, MonTypes
<1>2. M!MonitoringFollowsEvents
  <2> SUFFICES ASSUME M!AtRest, disturbed = {}, NEW p \in MonPayments
               PROVE  /\ load = M!NoLoad => memory[p] = monRow[p]
                      /\ monRow[p] = IF history[p] = <<>> \/ M!Finished(history[p]) THEN "none"
                                     ELSE M!Status(M!Last(history[p]))
    BY DEF M!MonitoringFollowsEvents
  <2>1. /\ load = M!NoLoad => memory[p] = monRow[p]
        /\ Rests(LastOf(history[p], Len(history[p])), monRow[p], monRow[p], 0, 0)
    BY RestIsExact DEF M!AtRest
  <2> DEFINE hs == history[p]
  <2>2. IsLife(hs)
    BY <1>0 DEF MonTypes
  <2>3. Rests(LastOf(hs, Len(hs)), monRow[p], monRow[p], 0, 0)
    BY <2>1
  <2> HIDE DEF hs
  <2>4. monRow[p] = IF hs = <<>> \/ M!Finished(hs) THEN "none" ELSE M!Status(M!Last(hs))
    <3>1. CASE hs = <<>>
      <4>1. LastOf(hs, Len(hs)) = "none"
        BY <3>1 DEF LastOf
      <4> QED BY <2>3, <3>1, <4>1 DEF Rests, EventNames
    <3>2. CASE hs # <<>>
      <4>0. Len(hs) # 0 /\ LastOf(hs, Len(hs)) = hs[Len(hs)]
        BY <2>2, <3>2, LifeFacts DEF LastOf
      <4>1. CASE Unfinished(hs)
        <5>1. hs[Len(hs)] \in {"Created", "Confirmed", "Expired"} /\ ~ M!Finished(hs)
          BY <2>2, <3>2, <4>1, LifeFacts
        <5>2. monRow[p] = M!Status(hs[Len(hs)])
          BY <2>3, <4>0, <5>1 DEF Rests, EventNames
        <5> QED BY <3>2, <5>1, <5>2 DEF M!Last
      <4>2. CASE ~ Unfinished(hs)
        <5>1. hs[Len(hs)] \in {"Settled", "Failed", "Cancelled"} /\ M!Finished(hs)
          BY <2>2, <3>2, <4>2, LifeFacts
        <5>2. monRow[p] = "none"
          BY <2>3, <4>0, <5>1 DEF Rests, EventNames
        <5> QED BY <5>1, <5>2
      <4> QED BY <4>1, <4>2
    <3> QED BY <3>1, <3>2
  <2> QED BY <2>1, <2>4 DEF hs
<1>3. M!UnfinishedAreShown
  <2> SUFFICES ASSUME M!AtRest, "unsaved" \notin disturbed, NEW p \in MonPayments,
                      history[p] # <<>>, ~ M!Finished(history[p])
               PROVE  /\ monRow[p] # "none" \/ "restart" \in disturbed
                      /\ load = M!NoLoad => (memory[p] # "none" <=> monRow[p] # "none")
    BY DEF M!UnfinishedAreShown
  <2>1. Unfinished(history[p])
    BY <1>0, LifeFacts DEF MonTypes
  <2>2. IsShown(p)
    BY <1>0, <2>1 DEF MonShown
  <2>3. rebuild = M!NoRebuild /\ \A h \in Handlers : handler[h] = M!NoHandler
    BY RestIsExact DEF M!AtRest
  <2>4. /\ M!NoHandler.pc = "idle" /\ M!NoRebuild.pc = "idle" /\ load \notin Loading
        /\ M!NoLoad # M!Down
    BY <1>0, MonStates DEF M!AtRest
  <2>5. ~ BeingSaved(p) /\ ~ StillToCreate(p)
    BY <2>3, <2>4 DEF BeingSaved, StillToCreate
  <2> QED BY <2>2, <2>4, <2>5 DEF IsShown
<1> QED BY <1>1, <1>2, <1>3

(***************************************************************************)
(* The subscribers.  An event that a subscriber has not got yet is either  *)
(* still on its way to it, in the records of one call that goes round, or  *)
(* somebody left the list while it went round, or it is in the past the    *)
(* subscriber has yet to read or to handle.                                *)
(***************************************************************************)
Member == {"read", "replay", "in", "stuck"}
IsIn(x, ns) == \E i \in 1..Len(ns) : ns[i] = x
NoRepeat(ns) == \A i, j \in 1..Len(ns) : ns[i] = ns[j] => i = j

(* Consecutive versions. *)
IsRun(ns, most) == ns \in Seq(1..most) /\ \A i \in 1..Len(ns) : ns[i] = ns[1] + i - 1

FollowerRows ==
  [pc : Member \cup {"new", "out"}, on : S!Lists, since : Nat, past : BOOLEAN,
   batch : Seq(1..MaxAppended), got : [1..MaxAppended -> Nat]]
NoticeRows ==
  [pc : {"new", "tell", "done", "thrown"}, batch : SUBSET (1..MaxAppended),
   records : Seq(1..MaxAppended), on : S!Lists, at : Nat]

FollowerOK(fo, most) ==
  /\ fo.since <= most /\ IsRun(fo.batch, most)
  /\ fo.pc \in {"read", "replay"} => fo.past

NoticeOK(nt, most) ==
  /\ nt.batch \subseteq 1..most /\ IsRun(nt.records, most)
  /\ nt.pc = "new" => nt = S!NoNotice
  /\ nt.pc = "tell" <=> nt.records # <<>>
  /\ \A f : IsIn(f, nt.records) =>
       f \in nt.batch /\ \A e \in nt.batch : e > f => IsIn(e, nt.records)

SubTypes ==
  /\ appended \in Nat /\ appended <= MaxAppended
  /\ lists \in [S!Lists -> Seq(Followers)]
  /\ follower \in [Followers -> FollowerRows]
  /\ notice \in [Appends -> NoticeRows]
  /\ \A s \in Followers : FollowerOK(follower[s], appended)

(* The lists hold the members, each once. *)
SubLists ==
  \A k \in S!Lists :
    /\ NoRepeat(lists[k])
    /\ \A s \in Followers :
         IsIn(s, lists[k]) <=> follower[s].pc \in Member /\ follower[s].on = k

SubNotices ==
  /\ \A c \in Appends : NoticeOK(notice[c], appended)
  /\ \A c, d \in Appends : c # d => notice[c].batch \cap notice[d].batch = {}

(* The loop of a call has yet to come to subscriber s of list k with e.     *)
Ahead(nt, k, ls, s, e) ==
  /\ nt.pc = "tell" /\ IsIn(e, nt.records)
  /\ \/ e # Head(nt.records)
     \/ nt.on = "stream" /\ k = "all"
     \/ nt.on = k /\ \E i \in 1..Len(ls) : ls[i] = s /\ i > nt.at

IsAhead(s, e) ==
  \E c \in Appends : Ahead(notice[c], follower[s].on, lists[follower[s].on], s, e)

(* The past still brings e. *)
Owed(fo, e) == fo.pc = "read" \/ (fo.pc = "replay" /\ IsIn(e, fo.batch))

OnceOK(s, e) ==
  follower[s].got[e] + (IF Owed(follower[s], e) THEN 1 ELSE 0)
    + (IF IsAhead(s, e) THEN 1 ELSE 0) <= IF follower[s].past THEN 2 ELSE 1

GetsOK(s, e) ==
  /\ e > follower[s].since =>
       follower[s].got[e] > 0 \/ <<follower[s].on, e>> \in cut \/ IsAhead(s, e)
  /\ e <= follower[s].since /\ follower[s].past /\ follower[s].pc \in {"replay", "in"} =>
       follower[s].got[e] > 0 \/ Owed(follower[s], e)

EventOK(s, e) ==
  IF follower[s].pc \in Member
  THEN /\ e > appended => follower[s].got[e] = 0
       /\ e <= appended => GetsOK(s, e)
       /\ OnceOK(s, e)
  ELSE follower[s].got[e] = 0

SubTold == \A s \in Followers, e \in 1..MaxAppended : EventOK(s, e)

SubInv == SubTypes /\ SubLists /\ SubNotices /\ SubTold

(* The first of consecutive versions, and the rest of them. *)
LEMMA RunFacts ==
  ASSUME NEW most \in Nat, NEW ns, IsRun(ns, most), ns # <<>>
  PROVE  /\ Head(ns) \in 1..most /\ IsIn(Head(ns), ns)
         /\ IsRun(Tail(ns), most)
         /\ \A e : IsIn(e, ns) => e \in 1..most /\ e >= Head(ns)
         /\ \A e : IsIn(e, Tail(ns)) <=> IsIn(e, ns) /\ e # Head(ns)
         /\ Len(ns) = 1 <=> Tail(ns) = <<>>
<1>1. /\ ns \in Seq(1..most) /\ Len(ns) \in Nat /\ Len(ns) >= 1 /\ Head(ns) = ns[1]
      /\ \A i \in 1..Len(ns) : ns[i] \in 1..most /\ ns[i] = ns[1] + i - 1
  BY DEF IsRun
<1>2. /\ Tail(ns) \in Seq(1..most) /\ Len(Tail(ns)) = Len(ns) - 1
      /\ \A i \in 1..Len(ns) - 1 : Tail(ns)[i] = ns[i + 1]
  BY <1>1
<1>3. \A i \in 1..Len(ns) - 1 : i + 1 \in 1..Len(ns) /\ Tail(ns)[i] = ns[1] + i
  <2> TAKE i \in 1..Len(ns) - 1
  <2>1. i + 1 \in 1..Len(ns) /\ Tail(ns)[i] = ns[i + 1]
    BY <1>1, <1>2
  <2>2. ns[i + 1] = ns[1] + (i + 1) - 1 /\ ns[1] \in Nat
    BY <1>1, <2>1
  <2> QED BY <2>1, <2>2
<1>4. Head(ns) \in 1..most /\ IsIn(Head(ns), ns)
  BY <1>1 DEF IsIn
<1>5. IsRun(Tail(ns), most)
  <2> SUFFICES ASSUME NEW i \in 1..Len(Tail(ns)) PROVE Tail(ns)[i] = Tail(ns)[1] + i - 1
    BY <1>2 DEF IsRun
  <2>1. i \in 1..Len(ns) - 1 /\ 1 \in 1..Len(ns) - 1
    BY <1>1, <1>2
  <2>2. Tail(ns)[i] = ns[1] + i /\ Tail(ns)[1] = ns[1] + 1 /\ ns[1] \in Nat
    BY <1>1, <1>3, <2>1
  <2> QED BY <2>1, <2>2
<1>6. ASSUME NEW e, IsIn(e, ns) PROVE e \in 1..most /\ e >= Head(ns)
  <2>1. PICK i \in 1..Len(ns) : ns[i] = e
    BY <1>6 DEF IsIn
  <2>2. e = ns[1] + i - 1 /\ e \in 1..most /\ ns[1] \in 1..most
    BY <1>1, <2>1
  <2> QED BY <1>1, <2>2
<1>7. ASSUME NEW e, IsIn(e, Tail(ns)) PROVE IsIn(e, ns) /\ e # Head(ns)
  <2>1. PICK i \in 1..Len(ns) - 1 : Tail(ns)[i] = e
    BY <1>2, <1>7 DEF IsIn
  <2>2. i + 1 \in 1..Len(ns) /\ ns[i + 1] = e /\ e = ns[1] + i /\ ns[1] \in Nat
    BY <1>1, <1>2, <1>3, <2>1
  <2>3. IsIn(e, ns)
    BY <2>2 DEF IsIn
  <2>4. i \in Nat /\ i >= 1
    BY <1>1, <2>1
  <2>5. e # ns[1]
    BY <2>2, <2>4
  <2> QED BY <1>1, <2>3, <2>5
<1>8. ASSUME NEW e, IsIn(e, ns), e # Head(ns) PROVE IsIn(e, Tail(ns))
  <2>1. PICK i \in 1..Len(ns) : ns[i] = e
    BY <1>8 DEF IsIn
  <2>2. i # 1
    BY <1>1, <1>8, <2>1
  <2>3. i - 1 \in 1..Len(ns) - 1 /\ (i - 1) + 1 = i
    BY <1>1, <2>2
  <2>4. Tail(ns)[i - 1] = e
    BY <1>2, <2>1, <2>3
  <2> QED BY <1>2, <2>3, <2>4 DEF IsIn
<1>9. Len(ns) = 1 <=> Tail(ns) = <<>>
  <2>1. Len(Tail(ns)) = 0 => Tail(ns) = <<>>
    BY <1>2, EmptySeq
  <2>2. Tail(ns) = <<>> => Len(Tail(ns)) = 0
    BY EmptySeq, Zenon
  <2>3. Len(ns) = 1 <=> Len(Tail(ns)) = 0
    BY <1>1, <1>2
  <2> QED BY <2>1, <2>2, <2>3
<1> QED BY <1>4, <1>5, <1>6, <1>7, <1>8, <1>9

LEMMA RunsGrow ==
  ASSUME NEW most \in Nat, NEW more \in Nat, most <= more
  PROVE  /\ IsRun(<<>>, most)
         /\ \A ns : IsRun(ns, most) => IsRun(ns, more)
         /\ \A e : ~ IsIn(e, <<>>)
<1>1. \A ns : ns \in Seq(1..most) => ns \in Seq(1..more)
  OBVIOUS
<1> QED BY <1>1 DEF IsRun, IsIn

(* The records of a batch, and of the past. *)
LEMMA RecordsFacts ==
  ASSUME NEW most \in Nat, NEW first \in Nat \ {0}, NEW last \in Nat,
         last <= most, first <= last + 1
  PROVE  /\ IsRun(S!Records(first, last), most)
         /\ \A e : IsIn(e, S!Records(first, last)) <=> e \in first..last
         /\ first <= last =>
              S!Records(first, last) # <<>> /\ Head(S!Records(first, last)) = first
<1> DEFINE ns == S!Records(first, last)
           n == last - first + 1
<1>1. n \in Nat /\ ns = [i \in 1..n |-> first - 1 + i]
  BY DEF S!Records
<1>2. \A i \in 1..n : first - 1 + i \in 1..most
  OBVIOUS
<1>3. /\ ns \in Seq(1..most) /\ Len(ns) = n
      /\ \A i \in 1..n : ns[i] = first - 1 + i
  BY <1>1, <1>2
<1>4. IsRun(ns, most)
  <2> SUFFICES ASSUME NEW i \in 1..Len(ns) PROVE ns[i] = ns[1] + i - 1
    BY <1>3 DEF IsRun
  <2>1. 1 \in 1..n /\ i \in 1..n
    BY <1>1, <1>3
  <2>2. ns[i] = first - 1 + i /\ ns[1] = first - 1 + 1
    BY <1>3, <2>1
  <2> QED BY <2>1, <2>2
<1>5. ASSUME NEW e \in first..last PROVE IsIn(e, ns)
  <2>1. e - first + 1 \in 1..n /\ first - 1 + (e - first + 1) = e
    BY <1>1
  <2> QED BY <1>3, <2>1 DEF IsIn
<1>6. ASSUME NEW e, IsIn(e, ns) PROVE e \in first..last
  <2>1. PICK i \in 1..n : ns[i] = e
    BY <1>3, <1>6 DEF IsIn
  <2>2. e = first - 1 + i
    BY <1>3, <2>1
  <2> QED BY <1>1, <2>1, <2>2
<1>7. ASSUME first <= last PROVE ns # <<>> /\ Head(ns) = first
  <2>1. Len(ns) >= 1 /\ 1 \in 1..n
    BY <1>3, <1>7
  <2>2. ns # <<>> /\ Head(ns) = ns[1] /\ ns[1] = first
    BY <1>3, <2>1
  <2> QED BY <2>2
<1> QED BY <1>4, <1>5, <1>6, <1>7

(***************************************************************************)
(* What leaving a list, joining one and a turn of a loop do to what is on  *)
(* its way.                                                                *)
(***************************************************************************)

(* The first place of a member of a list. *)
LEMMA FirstPlace ==
  ASSUME NEW ls \in Seq(Followers), NEW s, IsIn(s, ls), NoRepeat(ls)
  PROVE  \E n \in 1..Len(ls) :
           ls[n] = s /\ S!RemoveFirst(ls, s) = SubSeq(ls, 1, n - 1) \o SubSeq(ls, n + 1, Len(ls))
<1>1. PICK n \in 1..Len(ls) : ls[n] = s
  BY DEF IsIn
<1>2. {i \in 1..Len(ls) : ls[i] = s} = {n}
  BY <1>1 DEF NoRepeat
<1>3. S!Min({n}) = n
  BY <1>1 DEF S!Min
<1>4. S!SelectInSeq(ls, LAMBDA v : v = s) = n
  BY <1>2, <1>3 DEF S!SelectInSeq
<1>5. S!RemoveFirst(ls, s) = S!RemoveAt(ls, n)
  BY <1>1, <1>4 DEF S!RemoveFirst
<1> QED BY <1>1, <1>5 DEF S!RemoveAt

(* Who leaves a list is out of it; the others stay where they were or move *)
(* up by one.                                                              *)
LEMMA LeaveFacts ==
  ASSUME NEW ls \in Seq(Followers), NEW s, IsIn(s, ls), NoRepeat(ls),
         NEW rest, rest = S!RemoveFirst(ls, s)
  PROVE  /\ rest \in Seq(Followers) /\ NoRepeat(rest) /\ ~ IsIn(s, rest)
         /\ \A t : t # s => (IsIn(t, rest) <=> IsIn(t, ls))
         /\ \A i \in 1..Len(rest) : \E j \in 1..Len(ls) : j >= i /\ ls[j] = rest[i]
<1>1. PICK n \in 1..Len(ls) :
        ls[n] = s /\ rest = SubSeq(ls, 1, n - 1) \o SubSeq(ls, n + 1, Len(ls))
  BY FirstPlace
<1>2. Len(ls) \in Nat /\ n \in Nat /\ n >= 1 /\ n <= Len(ls)
  BY <1>1
<1> DEFINE a == SubSeq(ls, 1, n - 1)
           b == SubSeq(ls, n + 1, Len(ls))
<1>3. /\ a \in Seq(Followers) /\ Len(a) = n - 1
      /\ \A i \in 1..n - 1 : a[i] = ls[i]
  <2>1. \A i \in 1..n - 1 : ls[i] \in Followers
    BY <1>2
  <2>2. /\ a \in Seq(Followers) /\ Len(a) = (IF 1 <= n - 1 THEN n - 1 - 1 + 1 ELSE 0)
        /\ \A i \in 1..n - 1 - 1 + 1 : a[i] = ls[1 + i - 1]
    BY <1>2, <2>1, SubSeqProperties
  <2> QED BY <1>2, <2>2
<1>4. /\ b \in Seq(Followers) /\ Len(b) = Len(ls) - n
      /\ \A i \in 1..Len(ls) - n : b[i] = ls[n + i]
  <2>1. \A i \in n + 1..Len(ls) : ls[i] \in Followers
    BY <1>2
  <2>2. /\ b \in Seq(Followers)
        /\ Len(b) = (IF n + 1 <= Len(ls) THEN Len(ls) - (n + 1) + 1 ELSE 0)
        /\ \A i \in 1..Len(ls) - (n + 1) + 1 : b[i] = ls[n + 1 + i - 1]
    BY <1>2, <2>1, SubSeqProperties
  <2> QED BY <1>2, <2>2
<1>ab. rest = a \o b
  BY <1>1
<1> HIDE DEF a, b
<1>5. /\ rest \in Seq(Followers) /\ Len(rest) = Len(ls) - 1
      /\ \A i \in 1..Len(ls) - 1 : rest[i] = IF i < n THEN ls[i] ELSE ls[i + 1]
  <2>1. /\ rest \in Seq(Followers) /\ Len(rest) = Len(a) + Len(b)
        /\ \A i \in 1..Len(a) + Len(b) : rest[i] = IF i <= Len(a) THEN a[i] ELSE b[i - Len(a)]
    <3>1. /\ a \o b \in Seq(Followers) /\ Len(a \o b) = Len(a) + Len(b)
          /\ \A i \in 1..Len(a) + Len(b) :
               (a \o b)[i] = IF i <= Len(a) THEN a[i] ELSE b[i - Len(a)]
      BY <1>3, <1>4, ConcatProperties
    <3> QED BY <1>ab, <3>1
  <2>len. Len(a) + Len(b) = Len(ls) - 1
    BY <1>2, <1>3, <1>4
  <2>2. ASSUME NEW i \in 1..Len(ls) - 1 PROVE rest[i] = IF i < n THEN ls[i] ELSE ls[i + 1]
    <3>1. CASE i < n
      <4>1. i <= n - 1 /\ i \in 1..n - 1
        BY <1>2, <3>1
      <4> QED BY <1>2, <1>3, <2>1, <2>len, <3>1, <4>1
    <3>2. CASE i >= n
      <4>1. ~ (i <= n - 1) /\ i - (n - 1) \in 1..Len(ls) - n /\ n + (i - (n - 1)) = i + 1
        BY <1>2, <3>2
      <4>2. rest[i] = b[i - (n - 1)]
        BY <1>2, <1>3, <2>1, <2>len, <4>1
      <4> QED BY <1>2, <1>4, <3>2, <4>1, <4>2
    <3> QED BY <1>2, <3>1, <3>2
  <2> QED BY <2>1, <2>2, <2>len
<1> DEFINE old(i) == IF i < n THEN i ELSE i + 1
<1>6. \A i \in 1..Len(ls) - 1 :
        old(i) \in 1..Len(ls) /\ old(i) >= i /\ old(i) # n /\ rest[i] = ls[old(i)]
  BY <1>2, <1>5
<1>7. \A i, j \in 1..Len(ls) - 1 : old(i) = old(j) => i = j
  BY <1>2
<1>8. \A j \in 1..Len(ls) : j # n => \E i \in 1..Len(ls) - 1 : old(i) = j
  <2> SUFFICES ASSUME NEW j \in 1..Len(ls), j # n
               PROVE  \E i \in 1..Len(ls) - 1 : old(i) = j
    OBVIOUS
  <2>1. CASE j < n
    BY <1>2, <2>1
  <2>2. CASE j > n
    <3>1. j - 1 \in 1..Len(ls) - 1 /\ old(j - 1) = j
      BY <1>2, <2>2
    <3> QED BY <3>1
  <2> QED BY <1>2, <2>1, <2>2
<1> HIDE DEF old
<1>9. NoRepeat(rest)
  BY <1>5, <1>6, <1>7 DEF NoRepeat
<1>10. ~ IsIn(s, rest)
  <2> SUFFICES ASSUME NEW i \in 1..Len(rest), rest[i] = s PROVE FALSE
    BY DEF IsIn
  <2>1. old(i) \in 1..Len(ls) /\ old(i) # n /\ rest[i] = ls[old(i)]
    BY <1>5, <1>6
  <2> QED BY <1>1, <2>1 DEF NoRepeat
<1>11. ASSUME NEW t, t # s PROVE IsIn(t, rest) <=> IsIn(t, ls)
  <2>1. IsIn(t, rest) => IsIn(t, ls)
    BY <1>5, <1>6 DEF IsIn
  <2>2. ASSUME IsIn(t, ls) PROVE IsIn(t, rest)
    <3>1. PICK j \in 1..Len(ls) : ls[j] = t
      BY <2>2 DEF IsIn
    <3>2. PICK i \in 1..Len(ls) - 1 : old(i) = j
      BY <1>1, <1>8, <1>11, <3>1
    <3> QED BY <1>5, <1>6, <3>1, <3>2 DEF IsIn
  <2> QED BY <2>1, <2>2
<1>12. \A i \in 1..Len(rest) : \E j \in 1..Len(ls) : j >= i /\ ls[j] = rest[i]
  BY <1>5, <1>6
<1> QED BY <1>5, <1>9, <1>10, <1>11, <1>12

(* Who joins a list comes behind the others. *)
LEMMA JoinFacts ==
  ASSUME NEW ls \in Seq(Followers), NEW s \in Followers, ~ IsIn(s, ls), NoRepeat(ls),
         NEW more, more = Append(ls, s)
  PROVE  /\ more \in Seq(Followers) /\ NoRepeat(more) /\ IsIn(s, more)
         /\ \A t : t # s => (IsIn(t, more) <=> IsIn(t, ls))
         /\ \A t, n : t # s =>
              ((\E i \in 1..Len(more) : more[i] = t /\ i > n)
                <=> (\E i \in 1..Len(ls) : ls[i] = t /\ i > n))
<1>1. /\ more \in Seq(Followers) /\ Len(more) = Len(ls) + 1 /\ Len(ls) \in Nat
      /\ \A i \in 1..Len(ls) : more[i] = ls[i]
      /\ more[Len(ls) + 1] = s
  BY AppendProperties
<1>2. \A i \in 1..Len(more) : i = Len(ls) + 1 \/ i \in 1..Len(ls)
  BY <1>1
<1>3. \A i \in 1..Len(ls) : i \in 1..Len(more)
  BY <1>1
<1>4. Len(ls) + 1 \in 1..Len(more)
  BY <1>1
<1>5. NoRepeat(more)
  BY <1>1, <1>2 DEF NoRepeat, IsIn
<1>6. IsIn(s, more) /\ \A t : t # s => (IsIn(t, more) <=> IsIn(t, ls))
  BY <1>1, <1>2, <1>3, <1>4 DEF IsIn
<1>7. \A t, n : t # s =>
        ((\E i \in 1..Len(more) : more[i] = t /\ i > n)
          <=> (\E i \in 1..Len(ls) : ls[i] = t /\ i > n))
  BY <1>1, <1>2, <1>3
<1> QED BY <1>1, <1>5, <1>6, <1>7

(* A turn of a loop comes to one subscriber of one list with one event. *)
LEMMA NotifyAhead ==
  ASSUME NEW nt \in NoticeRows, nt.pc = "tell", NEW k \in S!Lists,
         NEW ls \in Seq(Followers), NoRepeat(ls), nt.on = k => nt.at < Len(ls),
         NEW nt2, nt2 = [nt EXCEPT !.at = @ + 1], NEW s, NEW e
  PROVE  Ahead(nt2, k, ls, s, e)
           <=> Ahead(nt, k, ls, s, e)
               /\ ~ (nt.on = k /\ s = ls[nt.at + 1] /\ e = Head(nt.records))
<1>1. /\ nt2.pc = nt.pc /\ nt2.records = nt.records /\ nt2.on = nt.on /\ nt2.at = nt.at + 1
      /\ nt.at \in Nat /\ Len(ls) \in Nat
  BY DEF NoticeRows
<1>2. nt.on # k => (Ahead(nt2, k, ls, s, e) <=> Ahead(nt, k, ls, s, e))
  BY <1>1 DEF Ahead
<1>3. ASSUME nt.on = k
      PROVE  (\E i \in 1..Len(ls) : ls[i] = s /\ i > nt2.at)
               <=> (\E i \in 1..Len(ls) : ls[i] = s /\ i > nt.at) /\ s # ls[nt.at + 1]
  <2>1. nt.at + 1 \in 1..Len(ls)
    BY <1>1, <1>3
  <2>2. \A i \in 1..Len(ls) : i > nt.at + 1 <=> i > nt.at /\ i # nt.at + 1
    BY <1>1
  <2> QED BY <1>1, <2>1, <2>2 DEF NoRepeat
<1>4. nt.on = k => ~ (nt.on = "stream" /\ k = "all")
  OBVIOUS
<1> QED BY <1>1, <1>2, <1>3, <1>4 DEF Ahead

(* The end of a list: the other list, or the next event. *)
LEMMA RoundFacts ==
  ASSUME NEW nt \in NoticeRows, nt.records # <<>>
  PROVE  /\ S!NextRound(nt) \in NoticeRows
         /\ S!NextRound(nt).batch = nt.batch
         /\ nt.on = "stream" =>
              /\ S!NextRound(nt).pc = nt.pc /\ S!NextRound(nt).records = nt.records
              /\ S!NextRound(nt).on = "all" /\ S!NextRound(nt).at = 0
         /\ nt.on # "stream" =>
              /\ S!NextRound(nt).pc = (IF Len(nt.records) = 1 THEN "done" ELSE "tell")
              /\ S!NextRound(nt).records = Tail(nt.records)
              /\ S!NextRound(nt).on = "stream" /\ S!NextRound(nt).at = 0
<1>1. nt.records \in Seq(1..MaxAppended)
  BY DEF NoticeRows
<1>2. Tail(nt.records) \in Seq(1..MaxAppended)
  BY <1>1, HeadTailProperties
<1>3. CASE nt.on = "stream"
  BY <1>3 DEF NoticeRows, S!NextRound, S!Lists
<1>4. CASE nt.on # "stream"
  <2> DEFINE nt2 == [nt EXCEPT !.on = "stream", !.at = 0, !.records = Tail(nt.records),
                               !.pc = IF Len(nt.records) = 1 THEN "done" ELSE "tell"]
  <2>1. S!NextRound(nt) = nt2
    BY <1>4 DEF S!NextRound
  <2>2. /\ nt2 \in NoticeRows /\ nt2.batch = nt.batch
        /\ nt2.pc = (IF Len(nt.records) = 1 THEN "done" ELSE "tell")
        /\ nt2.records = Tail(nt.records) /\ nt2.on = "stream" /\ nt2.at = 0
    BY <1>2 DEF NoticeRows, S!Lists
  <2> HIDE DEF nt2
  <2> QED BY <1>4, <2>1, <2>2
<1> QED BY <1>3, <1>4

(* At the end of a list nothing is lost: it goes on with the other list or *)
(* with the next event.                                                    *)
LEMMA ListDoneAhead ==
  ASSUME NEW most \in Nat, NEW nt \in NoticeRows, nt.pc = "tell", IsRun(nt.records, most),
         nt.records # <<>>,
         NEW k \in S!Lists, NEW ls \in Seq(Followers), nt.on = k => nt.at >= Len(ls),
         NEW nt2, nt2 = S!NextRound(nt),
         NEW s, IsIn(s, ls), NEW e
  PROVE  Ahead(nt2, k, ls, s, e) <=> Ahead(nt, k, ls, s, e)
<1>1. nt.on \in {"stream", "all"} /\ k \in {"stream", "all"} /\ nt.at \in Nat /\ Len(ls) \in Nat
  BY DEF NoticeRows, S!Lists
<1>2. \E i \in 1..Len(ls) : ls[i] = s /\ i > 0
  BY DEF IsIn
<1>3. nt.on = k => ~ \E i \in 1..Len(ls) : ls[i] = s /\ i > nt.at
  BY <1>1
<1>4. CASE nt.on = "stream"
  <2>1. nt2.pc = nt.pc /\ nt2.records = nt.records /\ nt2.on = "all" /\ nt2.at = 0
    BY <1>4, RoundFacts
  <2> QED BY <1>1, <1>2, <1>3, <1>4, <2>1 DEF Ahead
<1>5. CASE nt.on = "all"
  <2>1. /\ nt2.pc = (IF Len(nt.records) = 1 THEN "done" ELSE "tell")
        /\ nt2.records = Tail(nt.records) /\ nt2.on = "stream" /\ nt2.at = 0
    BY <1>5, RoundFacts
  <2>2. Ahead(nt2, k, ls, s, e) <=> nt2.pc = "tell" /\ IsIn(e, Tail(nt.records))
    BY <1>1, <1>2, <2>1 DEF Ahead
  <2>3. Ahead(nt, k, ls, s, e) <=> IsIn(e, nt.records) /\ e # Head(nt.records)
    BY <1>1, <1>3, <1>5 DEF Ahead
  <2>4. IsIn(e, Tail(nt.records)) => Tail(nt.records) # <<>>
    BY DEF IsIn
  <2> QED BY <2>1, <2>2, <2>3, <2>4, RunFacts
<1> QED BY <1>1, <1>4, <1>5

(* Who leaves a list may hide the others from a loop, for the event that   *)
(* goes round that list.                                                   *)
LEMMA LeaveAhead ==
  ASSUME NEW nt \in NoticeRows, NEW k \in S!Lists, NEW ls \in Seq(Followers),
         NoRepeat(ls), NEW gone, IsIn(gone, ls), NEW rest, rest = S!RemoveFirst(ls, gone),
         NEW s, s # gone, NEW e
  PROVE  /\ Ahead(nt, k, rest, s, e) => Ahead(nt, k, ls, s, e)
         /\ Ahead(nt, k, ls, s, e) =>
              \/ Ahead(nt, k, rest, s, e)
              \/ nt.pc = "tell" /\ nt.on = k /\ e = Head(nt.records)
<1>1. \A i \in 1..Len(rest) : \E j \in 1..Len(ls) : j >= i /\ ls[j] = rest[i]
  BY LeaveFacts
<1>2. nt.at \in Nat /\ Len(ls) \in Nat
  BY DEF NoticeRows
<1>3. ASSUME NEW i \in 1..Len(rest), rest[i] = s, i > nt.at
      PROVE  \E j \in 1..Len(ls) : ls[j] = s /\ j > nt.at
  <2>1. PICK j \in 1..Len(ls) : j >= i /\ ls[j] = rest[i]
    BY <1>1
  <2>2. i \in Nat
    BY LeaveFacts
  <2> QED BY <1>2, <1>3, <2>1, <2>2
<1> QED BY <1>3 DEF Ahead

LEMMA JoinAhead ==
  ASSUME NEW nt, NEW k, NEW ls \in Seq(Followers), NEW new \in Followers, ~ IsIn(new, ls),
         NoRepeat(ls), NEW more, more = Append(ls, new), NEW s, s # new, NEW e
  PROVE  Ahead(nt, k, more, s, e) <=> Ahead(nt, k, ls, s, e)
<1>1. (\E i \in 1..Len(more) : more[i] = s /\ i > nt.at)
        <=> (\E i \in 1..Len(ls) : ls[i] = s /\ i > nt.at)
  BY JoinFacts
<1> QED BY <1>1 DEF Ahead

(***************************************************************************)
(* The steps of the subscribers keep their invariant.                      *)
(***************************************************************************)
LEMMA SubStates ==
  ASSUME SubInv
  PROVE  /\ appended \in Nat /\ appended <= MaxAppended /\ MaxAppended \in Nat
         /\ \A s \in Followers :
              /\ follower[s] \in FollowerRows /\ follower[s].on \in S!Lists
              /\ follower[s].since \in Nat /\ follower[s].since <= appended
              /\ follower[s].past \in BOOLEAN
              /\ IsRun(follower[s].batch, appended)
              /\ follower[s].pc \in {"read", "replay"} => follower[s].past
              /\ follower[s].got \in [1..MaxAppended -> Nat]
              /\ lists[follower[s].on] \in Seq(Followers) /\ NoRepeat(lists[follower[s].on])
              /\ follower[s].pc \in Member => IsIn(s, lists[follower[s].on])
         /\ \A c \in Appends : notice[c] \in NoticeRows /\ NoticeOK(notice[c], appended)
         /\ \A k \in S!Lists : lists[k] \in Seq(Followers) /\ NoRepeat(lists[k])
<1>1. SubTypes /\ SubLists /\ SubNotices
  BY DEF SubInv
<1>2. appended \in Nat /\ appended <= MaxAppended /\ MaxAppended \in Nat
  BY <1>1, ReadersAssumption DEF SubTypes
<1>3. \A k \in S!Lists : lists[k] \in Seq(Followers) /\ NoRepeat(lists[k])
  BY <1>1 DEF SubTypes, SubLists
<1>4. ASSUME NEW s \in Followers
      PROVE  /\ follower[s] \in FollowerRows /\ follower[s].on \in S!Lists
             /\ follower[s].since \in Nat /\ follower[s].since <= appended
             /\ follower[s].past \in BOOLEAN
             /\ IsRun(follower[s].batch, appended)
             /\ follower[s].pc \in {"read", "replay"} => follower[s].past
             /\ follower[s].got \in [1..MaxAppended -> Nat]
  BY <1>1 DEF SubTypes, FollowerRows, FollowerOK
<1>5. ASSUME NEW s \in Followers
      PROVE  follower[s].pc \in Member => IsIn(s, lists[follower[s].on])
  BY <1>1, <1>4 DEF SubLists
<1>6. \A c \in Appends : notice[c] \in NoticeRows /\ NoticeOK(notice[c], appended)
  BY <1>1 DEF SubTypes, SubNotices
<1> QED BY <1>2, <1>3, <1>4, <1>5, <1>6

(* An event comes by two calls never. *)
LEMMA OneCallBrings ==
  ASSUME SubInv, NEW c \in Appends, NEW d \in Appends, NEW e,
         IsIn(e, notice[c].records), IsIn(e, notice[d].records)
  PROVE  c = d
<1>1. e \in notice[c].batch /\ e \in notice[d].batch
  BY SubStates DEF NoticeOK
<1> QED BY <1>1 DEF SubInv, SubNotices

(* What a subscriber that does not move is still to get. *)
LEMMA EventStays ==
  ASSUME NEW s, NEW e, EventOK(s, e), follower'[s] = follower[s], appended' = appended,
         \A x \in cut : x \in cut',
         follower[s].pc \in Member => (IsAhead(s, e)' => IsAhead(s, e)),
         follower[s].pc \in Member =>
           (IsAhead(s, e) => IsAhead(s, e)' \/ <<follower[s].on, e>> \in cut'),
         follower[s].got[e] \in Nat
  PROVE  EventOK(s, e)'
<1>1. CASE follower[s].pc \notin Member
  BY <1>1 DEF EventOK
<1>2. CASE follower[s].pc \in Member
  <2>1. OnceOK(s, e)'
    BY <1>2 DEF EventOK, OnceOK
  <2>2. e <= appended => GetsOK(s, e)'
    BY <1>2 DEF EventOK, GetsOK
  <2> QED BY <1>2, <2>1, <2>2 DEF EventOK
<1> QED BY <1>1, <1>2

(* A subscriber whose count and calls stay as they are. *)
LEMMA SameEvent ==
  ASSUME NEW s, NEW e, EventOK(s, e), appended' = appended, cut' = cut,
         follower'[s].got[e] = follower[s].got[e], follower[s].got[e] \in Nat,
         follower'[s].on = follower[s].on, follower'[s].since = follower[s].since,
         follower'[s].past = follower[s].past,
         Owed(follower'[s], e) <=> Owed(follower[s], e),
         follower'[s].pc \in Member, follower[s].pc \in Member,
         follower'[s].pc \in {"replay", "in"} =>
           follower[s].pc \in {"replay", "in"} \/ Owed(follower[s], e),
         IsAhead(s, e)' <=> IsAhead(s, e)
  PROVE  EventOK(s, e)'
<1>1. OnceOK(s, e)'
  BY DEF EventOK, OnceOK
<1>2. e <= appended => GetsOK(s, e)'
  BY DEF EventOK, GetsOK
<1> QED BY <1>1, <1>2 DEF EventOK

(* It gets an event, live or from the past. *)
LEMMA EventGot ==
  ASSUME NEW s, NEW e \in Int, EventOK(s, e), appended' = appended, appended \in Int,
         e <= appended,
         follower'[s].got[e] = follower[s].got[e] + 1, follower[s].got[e] \in Nat,
         follower'[s].past = follower[s].past,
         follower'[s].pc \in Member, follower[s].pc \in Member,
         Owed(follower'[s], e) => Owed(follower[s], e),
         IsAhead(s, e)' => IsAhead(s, e),
         \/ IsAhead(s, e) /\ ~ IsAhead(s, e)'
         \/ Owed(follower[s], e) /\ ~ Owed(follower'[s], e)
  PROVE  EventOK(s, e)'
<1>1. OnceOK(s, e)'
  BY DEF EventOK, OnceOK
<1>2. GetsOK(s, e)'
  BY DEF EventOK, GetsOK
<1> QED BY <1>1, <1>2 DEF EventOK

(* A count that grows by one. *)
LEMMA GotGains ==
  ASSUME NEW T, NEW go \in [T -> Nat], NEW h \in T
  PROVE  /\ [go EXCEPT ![h] = @ + 1] \in [T -> Nat]
         /\ \A e \in T : [go EXCEPT ![h] = @ + 1][e] = IF e = h THEN go[h] + 1 ELSE go[e]
<1>1. go[h] \in Nat
  OBVIOUS
<1>2. go[h] + 1 \in Nat
  BY <1>1
<1> QED BY <1>2

(* The row of a subscriber that got one more. *)
Gained(fo, h) == [fo EXCEPT !.got[h] = @ + 1]

LEMMA RowGains ==
  ASSUME NEW fo \in FollowerRows, NEW h \in 1..MaxAppended
  PROVE  /\ Gained(fo, h) \in FollowerRows
         /\ Gained(fo, h).pc = fo.pc /\ Gained(fo, h).on = fo.on
         /\ Gained(fo, h).since = fo.since /\ Gained(fo, h).past = fo.past
         /\ Gained(fo, h).batch = fo.batch
         /\ \A e \in 1..MaxAppended :
              Gained(fo, h).got[e] = IF e = h THEN fo.got[h] + 1 ELSE fo.got[e]
<1> DEFINE go == [fo.got EXCEPT ![h] = @ + 1]
<1>1. fo.got \in [1..MaxAppended -> Nat]
  BY DEF FollowerRows
<1>3. /\ go \in [1..MaxAppended -> Nat]
      /\ \A e \in 1..MaxAppended : go[e] = IF e = h THEN fo.got[h] + 1 ELSE fo.got[e]
  BY <1>1, GotGains
<1>4. Gained(fo, h) = [fo EXCEPT !.got = go]
  BY DEF FollowerRows, Gained
<1> HIDE DEF go
<1>5. ASSUME NEW fo2, fo2 = [fo EXCEPT !.got = go]
      PROVE  /\ fo2 \in FollowerRows /\ fo2.pc = fo.pc /\ fo2.on = fo.on /\ fo2.got = go
             /\ fo2.since = fo.since /\ fo2.past = fo.past /\ fo2.batch = fo.batch
  BY <1>3, <1>5 DEF FollowerRows
<1> QED BY <1>3, <1>4, <1>5

LEMMA NotifyKeeps ==
  ASSUME SubInv, NEW c \in Appends, S!Notify(c)
  PROVE  SubInv'
<1> DEFINE nt == notice[c]
           k == nt.on
           t == lists[k][nt.at + 1]
           h == Head(nt.records)
           nt2 == [nt EXCEPT !.at = @ + 1]
           f == follower[t]
           fo2 == Gained(f, h)
<1>0. /\ nt \in NoticeRows /\ nt.pc = "tell" /\ NoticeOK(nt, appended) /\ nt.records # <<>>
      /\ k \in S!Lists /\ nt.at \in Nat /\ nt.at < Len(lists[k])
      /\ IsRun(nt.records, appended)
  BY SubStates DEF S!Notify, NoticeRows, NoticeOK
<1>1. nt.at + 1 \in 1..Len(lists[k]) /\ lists[k] \in Seq(Followers)
  BY <1>0, SubStates
<1>2. t \in Followers /\ IsIn(t, lists[k])
  BY <1>1 DEF IsIn
<1>3. follower[t].pc \in Member /\ follower[t].on = k
  BY <1>0, <1>2 DEF SubInv, SubLists
<1>4. h \in 1..appended /\ IsIn(h, nt.records) /\ h \in 1..MaxAppended
  BY <1>0, SubStates, RunFacts
<1>5. /\ follower' = [follower EXCEPT ![t] = fo2]
      /\ notice' = [notice EXCEPT ![c] = nt2]
      /\ appended' = appended /\ lists' = lists /\ cut' = cut
  BY DEF S!Notify, S!Told, Gained
<1>ft. f \in FollowerRows
  BY <1>2, SubStates
<1>6f. /\ fo2 \in FollowerRows /\ fo2.pc = f.pc /\ fo2.on = f.on
       /\ fo2.since = f.since /\ fo2.past = f.past /\ fo2.batch = f.batch
       /\ \A e \in 1..MaxAppended : fo2.got[e] = IF e = h THEN f.got[h] + 1 ELSE f.got[e]
  BY <1>4, <1>ft, RowGains
<1>6. /\ fo2 \in FollowerRows /\ fo2.pc = follower[t].pc /\ fo2.on = follower[t].on
      /\ fo2.since = follower[t].since /\ fo2.past = follower[t].past
      /\ fo2.batch = follower[t].batch
      /\ \A e \in 1..MaxAppended :
           fo2.got[e] = IF e = h THEN follower[t].got[h] + 1 ELSE follower[t].got[e]
  BY <1>6f
<1> HIDE DEF fo2
<1>7. /\ nt2 \in NoticeRows /\ nt2.batch = nt.batch /\ nt2.records = nt.records
      /\ nt2.pc = nt.pc
  BY <1>0 DEF NoticeRows
<1> HIDE DEF nt2
<1>8. \A s \in Followers : follower'[s] = IF s = t THEN fo2 ELSE follower[s]
  BY <1>5 DEF SubInv, SubTypes
<1>9. \A d \in Appends : notice'[d] = IF d = c THEN nt2 ELSE notice[d]
  BY <1>5 DEF SubInv, SubTypes
<1>10. SubTypes'
  <2>1. follower' \in [Followers -> FollowerRows] /\ notice' \in [Appends -> NoticeRows]
    BY <1>5, <1>6, <1>7 DEF SubInv, SubTypes
  <2>2. \A s \in Followers : FollowerOK(follower'[s], appended)
    BY <1>2, <1>6, <1>8 DEF SubInv, SubTypes, FollowerOK
  <2> QED BY <1>5, <2>1, <2>2 DEF SubInv, SubTypes
<1>11. SubLists'
  <2>1. \A s \in Followers :
          follower'[s].pc = follower[s].pc /\ follower'[s].on = follower[s].on
    BY <1>6, <1>8
  <2> QED BY <1>5, <2>1 DEF SubInv, SubLists
<1>12. SubNotices'
  <2>1. NoticeOK(nt2, appended)
    BY <1>0, <1>7 DEF NoticeOK
  <2>2. \A d \in Appends : NoticeOK(notice'[d], appended)
    BY <1>9, <2>1, SubStates
  <2>3. \A d \in Appends : notice'[d].batch = notice[d].batch
    BY <1>7, <1>9
  <2> QED BY <1>5, <2>2, <2>3 DEF SubInv, SubNotices
<1>13. ASSUME NEW s \in Followers, NEW e
       PROVE  IsAhead(s, e)' <=> IsAhead(s, e) /\ ~ (s = t /\ e = h)
  <2> DEFINE l == follower[s].on
  <2>1. /\ l \in S!Lists /\ lists[l] \in Seq(Followers) /\ NoRepeat(lists[l])
        /\ follower'[s].on = l
    BY <1>6, <1>8, SubStates
  <2>2. Ahead(nt2, l, lists[l], s, e)
          <=> Ahead(nt, l, lists[l], s, e) /\ ~ (s = t /\ e = h)
    <3>1. Ahead(nt2, l, lists[l], s, e)
            <=> Ahead(nt, l, lists[l], s, e) /\ ~ (k = l /\ s = lists[l][nt.at + 1] /\ e = h)
      BY <1>0, <2>1, NotifyAhead DEF nt2
    <3> QED BY <1>3, <3>1
  <2>3. ASSUME NEW d \in Appends, d # c
        PROVE  Ahead(notice[d], l, lists[l], s, e) => ~ (s = t /\ e = h)
    BY <1>4, <2>3, OneCallBrings DEF Ahead
  <2>4. IsAhead(s, e)' <=> \E d \in Appends : Ahead(notice'[d], l, lists[l], s, e)
    BY <1>5, <2>1 DEF IsAhead
  <2>5. IsAhead(s, e) <=> \E d \in Appends : Ahead(notice[d], l, lists[l], s, e)
    BY DEF IsAhead
  <2> HIDE DEF l
  <2>6. ASSUME NEW d \in Appends
        PROVE  Ahead(notice'[d], l, lists[l], s, e)
                 <=> Ahead(notice[d], l, lists[l], s, e) /\ ~ (s = t /\ e = h)
    BY <1>9, <2>2, <2>3
  <2> QED BY <2>4, <2>5, <2>6
<1>14. IsAhead(t, h)
  <2>1. \E i \in 1..Len(lists[k]) : lists[k][i] = t /\ i > nt.at
    BY <1>0, <1>1
  <2>2. Ahead(nt, k, lists[k], t, h)
    BY <1>0, <1>4, <2>1 DEF Ahead
  <2> QED BY <1>3, <2>2 DEF IsAhead
<1>15. SubTold'
  <2> SUFFICES ASSUME NEW s \in Followers, NEW e \in 1..MaxAppended PROVE EventOK(s, e)'
    BY DEF SubTold
  <2>1. EventOK(s, e) /\ follower[s].got[e] \in Nat
    BY SubStates DEF SubInv, SubTold
  <2>2. CASE s # t
    <3>1. follower'[s] = follower[s] /\ (IsAhead(s, e)' <=> IsAhead(s, e))
      BY <1>8, <1>13, <2>2
    <3> QED BY <1>5, <2>1, <3>1, EventStays
  <2>3. CASE s = t
    <3>1. /\ follower'[s].on = follower[s].on /\ follower'[s].since = follower[s].since
          /\ follower'[s].past = follower[s].past /\ follower'[s].pc = follower[s].pc
          /\ follower'[s].batch = follower[s].batch /\ follower[s].pc \in Member
          /\ follower'[s].got[e] = IF e = h THEN follower[s].got[e] + 1 ELSE follower[s].got[e]
      BY <1>2, <1>3, <1>6, <1>8, <2>3
    <3>2. Owed(follower'[s], e) <=> Owed(follower[s], e)
      BY <3>1 DEF Owed
    <3>3. CASE e # h
      <4>1. IsAhead(s, e)' <=> IsAhead(s, e)
        BY <1>13, <3>3
      <4> QED BY <1>5, <2>1, <3>1, <3>2, <3>3, <4>1, SameEvent
    <3>4. CASE e = h
      <4>1. ~ IsAhead(s, e)' /\ IsAhead(s, e)
        BY <1>13, <1>14, <2>3, <3>4
      <4>2. e <= appended /\ e \in Int /\ appended \in Int
        BY <1>4, <3>4, SubStates
      <4> QED BY <1>5, <2>1, <3>1, <3>2, <3>4, <4>1, <4>2, EventGot
    <3> QED BY <3>3, <3>4
  <2> QED BY <2>2, <2>3
<1> QED BY <1>10, <1>11, <1>12, <1>15 DEF SubInv

LEMMA ListDoneKeeps ==
  ASSUME SubInv, NEW c \in Appends, S!ListDone(c)
  PROVE  SubInv'
<1> DEFINE nt == notice[c]
           nt2 == S!NextRound(nt)
<1>0. /\ nt \in NoticeRows /\ nt.pc = "tell" /\ NoticeOK(nt, appended) /\ nt.records # <<>>
      /\ nt.on \in S!Lists /\ nt.at >= Len(lists[nt.on])
      /\ IsRun(nt.records, appended) /\ appended \in Nat
  BY SubStates DEF S!ListDone, NoticeRows, NoticeOK
<1>1. /\ notice' = [notice EXCEPT ![c] = nt2]
      /\ appended' = appended /\ lists' = lists /\ cut' = cut /\ follower' = follower
  BY DEF S!ListDone
<1>nt. nt2 = S!NextRound(nt)
  OBVIOUS
<1>rf. /\ nt2 \in NoticeRows /\ nt2.batch = nt.batch
       /\ nt.on = "stream" => nt2.pc = nt.pc /\ nt2.records = nt.records
       /\ nt.on # "stream" =>
            /\ nt2.pc = (IF Len(nt.records) = 1 THEN "done" ELSE "tell")
            /\ nt2.records = Tail(nt.records)
  BY <1>0, RoundFacts
<1> HIDE DEF nt2
<1>2. NoticeOK(nt2, appended) /\ nt2 \in NoticeRows /\ nt2.batch = nt.batch
  <2>1. CASE nt.on = "stream"
    <3>1. /\ nt2 \in NoticeRows /\ nt2.batch = nt.batch /\ nt2.records = nt.records
          /\ nt2.pc = "tell"
      BY <1>0, <1>rf, <2>1
    <3> QED BY <1>0, <3>1 DEF NoticeOK
  <2>2. CASE nt.on # "stream"
    <3>1. /\ IsRun(Tail(nt.records), appended)
          /\ \A e : IsIn(e, Tail(nt.records)) <=> IsIn(e, nt.records) /\ e # Head(nt.records)
          /\ \A e : IsIn(e, nt.records) => e \in 1..appended /\ e >= Head(nt.records)
          /\ Len(nt.records) = 1 <=> Tail(nt.records) = <<>>
          /\ Head(nt.records) \in 1..appended
      BY <1>0, RunFacts
    <3>2. /\ nt2 \in NoticeRows /\ nt2.batch = nt.batch /\ nt2.records = Tail(nt.records)
          /\ nt2.pc = (IF Len(nt.records) = 1 THEN "done" ELSE "tell")
      BY <1>rf, <2>2
    <3>3. ASSUME NEW f, IsIn(f, nt2.records)
          PROVE  f \in nt2.batch /\ \A e \in nt2.batch : e > f => IsIn(e, nt2.records)
      <4>1. IsIn(f, nt.records) /\ f \in 1..appended /\ f >= Head(nt.records)
        BY <3>1, <3>2, <3>3
      <4>2. f \in nt.batch /\ \A e \in nt.batch : e > f => IsIn(e, nt.records)
        BY <1>0, <4>1 DEF NoticeOK
      <4>3. \A e \in nt.batch : e > f => e # Head(nt.records)
        BY <1>0, <3>1, <4>1 DEF NoticeOK
      <4> QED BY <3>1, <3>2, <4>2, <4>3
    <3> QED BY <1>0, <3>1, <3>2, <3>3 DEF NoticeOK
  <2> QED BY <2>1, <2>2
<1>3. ASSUME NEW s \in Followers, follower[s].pc \in Member, NEW e
      PROVE  IsAhead(s, e)' <=> IsAhead(s, e)
  <2> DEFINE l == follower[s].on
  <2>1. l \in S!Lists /\ lists[l] \in Seq(Followers) /\ IsIn(s, lists[l])
    BY <1>3, SubStates
  <2>2. Ahead(nt2, l, lists[l], s, e) <=> Ahead(nt, l, lists[l], s, e)
    <3> DEFINE ls == lists[l]
    <3>1. nt.on = l => nt.at >= Len(ls)
      BY <1>0
    <3> HIDE DEF ls
    <3>2. ls \in Seq(Followers) /\ IsIn(s, ls)
      BY <2>1 DEF ls
    <3>3. Ahead(nt2, l, ls, s, e) <=> Ahead(nt, l, ls, s, e)
      BY <1>0, <1>nt, <2>1, <3>1, <3>2, ListDoneAhead
    <3> QED BY <3>3 DEF ls
  <2>3. \A d \in Appends : notice'[d] = IF d = c THEN nt2 ELSE notice[d]
    BY <1>1 DEF SubInv, SubTypes
  <2> QED BY <1>1, <2>2, <2>3 DEF IsAhead
<1>4. \A d \in Appends : notice'[d] = IF d = c THEN nt2 ELSE notice[d]
  BY <1>1 DEF SubInv, SubTypes
<1>5. SubTypes' /\ SubLists'
  BY <1>1, <1>2 DEF SubInv, SubTypes, SubLists
<1>6. SubNotices'
  <2>1. \A d \in Appends : NoticeOK(notice'[d], appended)
    BY <1>2, <1>4, SubStates
  <2>2. \A d \in Appends : notice'[d].batch = notice[d].batch
    BY <1>2, <1>4
  <2> QED BY <1>1, <2>1, <2>2 DEF SubInv, SubNotices
<1>7. SubTold'
  <2> SUFFICES ASSUME NEW s \in Followers, NEW e \in 1..MaxAppended PROVE EventOK(s, e)'
    BY DEF SubTold
  <2>1. EventOK(s, e) /\ follower[s].got[e] \in Nat
    BY SubStates DEF SubInv, SubTold
  <2>2. follower'[s] = follower[s]
    BY <1>1
  <2> QED BY <1>1, <1>3, <2>1, <2>2, EventStays
<1> QED BY <1>5, <1>6, <1>7 DEF SubInv

(* The others when one subscriber moves and neither lists nor calls do.    *)
LEMMA OneFollowerMoves ==
  ASSUME SubInv, NEW s \in Followers, NEW fo \in FollowerRows,
         follower' = [follower EXCEPT ![s] = fo],
         appended' = appended, lists' = lists, notice' = notice, cut' = cut,
         follower[s].pc \in Member, fo.pc \in Member, fo.on = follower[s].on,
         FollowerOK(fo, appended),
         \A e \in 1..MaxAppended : (IsAhead(s, e)' <=> IsAhead(s, e)) => EventOK(s, e)'
  PROVE  SubInv'
<1>1. \A t \in Followers : follower'[t] = IF t = s THEN fo ELSE follower[t]
  BY DEF SubInv, SubTypes
<1>2. ASSUME NEW t \in Followers, NEW e PROVE IsAhead(t, e)' <=> IsAhead(t, e)
  <2>1. follower'[t].on = follower[t].on
    BY <1>1
  <2> QED BY <2>1 DEF IsAhead
<1>3. SubTypes'
  <2>1. follower' \in [Followers -> FollowerRows]
    BY DEF SubInv, SubTypes
  <2>2. \A t \in Followers : FollowerOK(follower'[t], appended)
    BY <1>1 DEF SubInv, SubTypes
  <2> QED BY <2>1, <2>2 DEF SubInv, SubTypes
<1>4. SubLists' /\ SubNotices'
  <2>1. \A t \in Followers : /\ follower'[t].pc \in Member <=> follower[t].pc \in Member
                             /\ follower'[t].on = follower[t].on
    BY <1>1
  <2>2. SubLists'
    BY <2>1 DEF SubInv, SubLists
  <2> QED BY <2>2 DEF SubInv, SubNotices
<1>5. SubTold'
  <2> SUFFICES ASSUME NEW t \in Followers, NEW e \in 1..MaxAppended PROVE EventOK(t, e)'
    BY DEF SubTold
  <2>1. EventOK(t, e) /\ follower[t].got[e] \in Nat
    BY SubStates DEF SubInv, SubTold
  <2>2. CASE t = s
    BY <1>2, <2>2
  <2>3. CASE t # s
    <3>1. follower'[t] = follower[t]
      BY <1>1, <2>3
    <3> QED BY <1>2, <2>1, <3>1, EventStays
  <2> QED BY <2>2, <2>3
<1> QED BY <1>3, <1>4, <1>5 DEF SubInv

LEMMA ReadPastKeeps ==
  ASSUME SubInv, NEW s \in Followers, S!ReadPast(s)
  PROVE  SubInv'
<1> DEFINE ns == S!Records(1, appended)
           fo == [follower[s] EXCEPT !.pc = "replay", !.batch = ns]
<1>1. /\ follower' = [follower EXCEPT ![s] = fo] /\ follower[s].pc = "read"
      /\ appended' = appended /\ lists' = lists /\ notice' = notice /\ cut' = cut
  BY DEF S!ReadPast
<1>2. IsRun(ns, appended) /\ ns \in Seq(1..MaxAppended) /\ \A e \in 1..appended : IsIn(e, ns)
  <2>1. IsRun(ns, appended) /\ \A e : IsIn(e, ns) <=> e \in 1..appended
    BY SubStates, RecordsFacts
  <2>2. IsRun(ns, MaxAppended)
    BY <2>1, SubStates, RunsGrow
  <2> QED BY <2>1, <2>2 DEF IsRun
<1> HIDE DEF ns
<1>3. /\ fo \in FollowerRows /\ fo.pc = "replay" /\ fo.batch = ns /\ fo.on = follower[s].on
      /\ fo.since = follower[s].since /\ fo.past = follower[s].past
      /\ fo.got = follower[s].got
  BY <1>2, SubStates DEF FollowerRows, Member
<1> HIDE DEF fo
<1>4. FollowerOK(fo, appended)
  BY <1>1, <1>2, <1>3, SubStates DEF FollowerOK
<1>5. ASSUME NEW e \in 1..MaxAppended, IsAhead(s, e)' <=> IsAhead(s, e)
      PROVE  EventOK(s, e)'
  <2>1. follower'[s] = fo
    BY <1>1 DEF SubInv, SubTypes
  <2>2. EventOK(s, e) /\ appended \in Nat /\ follower[s].since <= appended
        /\ follower[s].since \in Nat /\ follower[s].got[e] \in Nat
    BY SubStates DEF SubInv, SubTold
  <2>3. Owed(follower[s], e) /\ follower[s].pc \in Member /\ fo.pc \in Member
    BY <1>1, <1>3 DEF Owed, Member
  <2>4. OnceOK(s, e)'
    BY <1>1, <1>3, <1>5, <2>1, <2>2, <2>3 DEF EventOK, OnceOK
  <2>5. ASSUME e <= appended PROVE GetsOK(s, e)'
    <3>1. Owed(fo, e)
      BY <1>2, <1>3, <2>2, <2>5 DEF Owed
    <3> QED BY <1>1, <1>3, <1>5, <2>1, <2>2, <2>3, <2>5, <3>1 DEF EventOK, GetsOK
  <2> QED BY <1>1, <1>3, <2>1, <2>2, <2>3, <2>4, <2>5 DEF EventOK
<1> QED BY <1>1, <1>3, <1>4, <1>5, OneFollowerMoves DEF Member

LEMMA HandlePastKeeps ==
  ASSUME SubInv, NEW s \in Followers, S!HandlePast(s)
  PROVE  SubInv'
<1>0. /\ follower[s].pc = "replay" /\ follower[s] \in FollowerRows
      /\ FollowerOK(follower[s], appended)
      /\ appended' = appended /\ lists' = lists /\ notice' = notice /\ cut' = cut
      /\ appended \in Nat /\ appended <= MaxAppended /\ MaxAppended \in Nat
  BY SubStates DEF S!HandlePast, FollowerOK
<1>1. CASE follower[s].batch = <<>>
  <2> DEFINE fo == [follower[s] EXCEPT !.pc = "in"]
  <2>1. follower' = [follower EXCEPT ![s] = fo]
    BY <1>1 DEF S!HandlePast
  <2>2. /\ fo \in FollowerRows /\ fo.pc = "in" /\ fo.batch = <<>> /\ fo.on = follower[s].on
        /\ fo.since = follower[s].since /\ fo.past = follower[s].past
        /\ fo.got = follower[s].got
    BY <1>0, <1>1 DEF FollowerRows, Member
  <2> HIDE DEF fo
  <2>3. FollowerOK(fo, appended)
    BY <1>0, <1>1, <2>2 DEF FollowerOK
  <2>4. ASSUME NEW e \in 1..MaxAppended, IsAhead(s, e)' <=> IsAhead(s, e)
        PROVE  EventOK(s, e)'
    <3>1. follower'[s] = fo
      BY <2>1 DEF SubInv, SubTypes
    <3>2. EventOK(s, e) /\ follower[s].got[e] \in Nat
      BY SubStates DEF SubInv, SubTold
    <3>3. ~ Owed(follower[s], e) /\ ~ Owed(fo, e)
      BY <1>0, <1>1, <2>2 DEF Owed, IsIn
    <3> QED BY <1>0, <2>2, <2>4, <3>1, <3>2, <3>3, SameEvent DEF Member
  <2> QED BY <1>0, <2>1, <2>2, <2>3, <2>4, OneFollowerMoves DEF Member
<1>2. CASE follower[s].batch # <<>>
  <2> DEFINE b == follower[s].batch
             h == Head(b)
             go == [follower[s].got EXCEPT ![h] = @ + 1]
             fo == [follower[s] EXCEPT !.got = go, !.batch = Tail(b)]
  <2>1. follower' = [follower EXCEPT ![s] = [follower[s] EXCEPT !.got[h] = @ + 1, !.batch = Tail(@)]]
    BY <1>2 DEF S!HandlePast
  <2>2. /\ h \in 1..appended /\ h \in 1..MaxAppended /\ IsIn(h, b)
        /\ IsRun(Tail(b), appended) /\ Tail(b) \in Seq(1..MaxAppended)
        /\ \A e : IsIn(e, Tail(b)) <=> IsIn(e, b) /\ e # h
    <3>1. IsRun(b, appended) /\ b \in Seq(1..MaxAppended)
      BY <1>0 DEF FollowerOK, FollowerRows
    <3>2. Tail(b) \in Seq(1..MaxAppended)
      BY <1>2, <3>1, HeadTailProperties
    <3> HIDE DEF b
    <3>3. b # <<>>
      BY <1>2 DEF b
    <3>4. /\ h \in 1..appended /\ IsIn(h, b) /\ IsRun(Tail(b), appended)
          /\ \A e : IsIn(e, Tail(b)) <=> IsIn(e, b) /\ e # h
      BY <1>0, <3>1, <3>3, RunFacts
    <3> QED BY <1>0, <3>2, <3>4
  <2>3. follower' = [follower EXCEPT ![s] = fo]
    BY <1>0, <2>1 DEF FollowerRows
  <2>4. /\ go \in [1..MaxAppended -> Nat]
        /\ \A e \in 1..MaxAppended :
             go[e] = IF e = h THEN follower[s].got[h] + 1 ELSE follower[s].got[e]
    <3>1. follower[s].got \in [1..MaxAppended -> Nat]
      BY <1>0 DEF FollowerRows
    <3> HIDE DEF h
    <3> QED BY <2>2, <3>1, GotGains
  <2> HIDE DEF go, b, h
  <2>5. /\ fo \in FollowerRows /\ fo.pc = "replay" /\ fo.batch = Tail(b)
        /\ fo.on = follower[s].on /\ fo.since = follower[s].since
        /\ fo.past = follower[s].past /\ fo.got = go
    BY <1>0, <2>2, <2>4 DEF FollowerRows, Member
  <2> HIDE DEF fo
  <2>6. FollowerOK(fo, appended)
    BY <1>0, <2>2, <2>5 DEF FollowerOK
  <2>7. ASSUME NEW e \in 1..MaxAppended, IsAhead(s, e)' <=> IsAhead(s, e)
        PROVE  EventOK(s, e)'
    <3>1. follower'[s] = fo
      BY <2>3 DEF SubInv, SubTypes
    <3>2. EventOK(s, e) /\ follower[s].got[e] \in Nat
      BY SubStates DEF SubInv, SubTold
    <3>3. Owed(follower[s], e) <=> IsIn(e, b)
      BY <1>0 DEF Owed, b
    <3>4. Owed(fo, e) <=> IsIn(e, b) /\ e # h
      BY <2>2, <2>5 DEF Owed
    <3>5. CASE e = h
      <4>1. e <= appended /\ e \in Int /\ appended \in Int
        BY <1>0, <2>2, <3>5
      <4>2. follower'[s].got[e] = follower[s].got[e] + 1
        BY <2>4, <2>5, <3>1, <3>5
      <4>3. Owed(follower[s], e) /\ ~ Owed(follower'[s], e)
        BY <2>2, <3>1, <3>3, <3>4, <3>5
      <4> QED BY <1>0, <2>5, <2>7, <3>1, <3>2, <4>1, <4>2, <4>3, EventGot DEF Member
    <3>6. CASE e # h
      <4>1. follower'[s].got[e] = follower[s].got[e]
        BY <2>4, <2>5, <3>1, <3>6
      <4> QED BY <1>0, <2>5, <2>7, <3>1, <3>2, <3>3, <3>4, <3>6, <4>1, SameEvent DEF Member
    <3> QED BY <3>5, <3>6
  <2> QED BY <1>0, <2>3, <2>5, <2>6, <2>7, OneFollowerMoves DEF Member
<1> QED BY <1>1, <1>2

LEMMA HandlerThrowsKeeps ==
  ASSUME SubInv, NEW s \in Followers, S!HandlerThrows(s)
  PROVE  SubInv'
<1> DEFINE fo == [follower[s] EXCEPT !.pc = "stuck", !.batch = <<>>]
<1>1. /\ follower' = [follower EXCEPT ![s] = fo] /\ follower[s].pc = "replay"
      /\ appended' = appended /\ lists' = lists /\ notice' = notice /\ cut' = cut
  BY DEF S!HandlerThrows
<1>2. /\ fo \in FollowerRows /\ fo.pc = "stuck" /\ fo.batch = <<>> /\ fo.on = follower[s].on
      /\ fo.since = follower[s].since /\ fo.past = follower[s].past
      /\ fo.got = follower[s].got
  <2>1. follower[s] \in FollowerRows /\ <<>> \in Seq(1..MaxAppended)
    BY SubStates
  <2> QED BY <2>1 DEF FollowerRows, Member
<1> HIDE DEF fo
<1>3. FollowerOK(fo, appended)
  BY <1>1, <1>2, SubStates, RunsGrow DEF FollowerOK
<1>4. ASSUME NEW e \in 1..MaxAppended, IsAhead(s, e)' <=> IsAhead(s, e)
      PROVE  EventOK(s, e)'
  <2>1. follower'[s] = fo
    BY <1>1 DEF SubInv, SubTypes
  <2>2. EventOK(s, e) /\ follower[s].got[e] \in Nat
    BY SubStates DEF SubInv, SubTold
  <2>3. ~ Owed(fo, e) /\ follower[s].pc \in Member /\ fo.pc \in Member
    BY <1>1, <1>2 DEF Owed, Member
  <2>4. OnceOK(s, e)'
    BY <1>1, <1>2, <1>4, <2>1, <2>2, <2>3 DEF EventOK, OnceOK
  <2>5. e <= appended => GetsOK(s, e)'
    BY <1>1, <1>2, <1>4, <2>1, <2>2, <2>3 DEF EventOK, GetsOK
  <2> QED BY <1>1, <1>2, <2>1, <2>2, <2>3, <2>4, <2>5 DEF EventOK
<1> QED BY <1>1, <1>2, <1>3, <1>4, OneFollowerMoves DEF Member

LEMMA NewFollowerFacts ==
  /\ S!NewFollower \in FollowerRows /\ S!NewFollower.batch = <<>>
  /\ S!NewFollower.pc = "new" /\ S!NewFollower.on = "stream"
  /\ S!NewFollower.since = 0 /\ S!NewFollower.past = FALSE
  /\ S!NewFollower.got = [e \in 1..MaxAppended |-> 0]
<1>1. <<>> \in Seq(1..MaxAppended) /\ [e \in 1..MaxAppended |-> 0] \in [1..MaxAppended -> Nat]
  OBVIOUS
<1>2. S!NewFollower \in FollowerRows
  BY <1>1 DEF FollowerRows, S!NewFollower, S!Lists
<1> QED BY <1>2 DEF S!NewFollower

LEMMA SubscribeKeeps ==
  ASSUME SubInv, NEW s \in Followers, NEW k \in S!Lists, NEW past \in BOOLEAN,
         S!Subscribe(s, k, past)
  PROVE  SubInv'
<1> DEFINE more == Append(lists[k], s)
           fo == [S!NewFollower EXCEPT !.pc = IF past THEN "read" ELSE "in", !.on = k,
                                       !.past = past, !.since = appended]
<1>1. /\ follower[s].pc = "new" /\ lists' = [lists EXCEPT ![k] = more]
      /\ follower' = [follower EXCEPT ![s] = fo]
      /\ appended' = appended /\ notice' = notice /\ cut' = cut
  BY DEF S!Subscribe
<1>2. /\ lists[k] \in Seq(Followers) /\ NoRepeat(lists[k]) /\ ~ IsIn(s, lists[k])
      /\ appended \in Nat
  BY <1>1, SubStates DEF SubInv, SubLists, Member
<1>3. /\ fo.pc = (IF past THEN "read" ELSE "in") /\ fo.on = k /\ fo.past = past
      /\ fo.since = appended /\ fo.batch = <<>>
      /\ fo.got = [e \in 1..MaxAppended |-> 0] /\ fo \in FollowerRows
  <2>1. (IF past THEN "read" ELSE "in") \in Member
    BY DEF Member
  <2> QED BY <1>2, <2>1, NewFollowerFacts DEF FollowerRows
<1> HIDE DEF fo
<1>4. /\ more \in Seq(Followers) /\ NoRepeat(more) /\ IsIn(s, more)
      /\ \A t : t # s => (IsIn(t, more) <=> IsIn(t, lists[k]))
  BY <1>2, JoinFacts
<1> HIDE DEF more
<1>5. \A l \in S!Lists : lists'[l] = IF l = k THEN more ELSE lists[l]
  BY <1>1 DEF SubInv, SubTypes
<1>6. \A t \in Followers : follower'[t] = IF t = s THEN fo ELSE follower[t]
  BY <1>1 DEF SubInv, SubTypes
<1>7. SubTypes'
  <2>1. /\ lists' \in [S!Lists -> Seq(Followers)] /\ follower' \in [Followers -> FollowerRows]
    BY <1>1, <1>3, <1>4 DEF SubInv, SubTypes
  <2>2. FollowerOK(fo, appended)
    BY <1>2, <1>3, RunsGrow DEF FollowerOK
  <2>3. \A t \in Followers : FollowerOK(follower'[t], appended)
    BY <1>6, <2>2 DEF SubInv, SubTypes
  <2> QED BY <1>1, <2>1, <2>3 DEF SubInv, SubTypes
<1>8. SubLists'
  <2> SUFFICES ASSUME NEW l \in S!Lists
               PROVE  /\ NoRepeat(lists'[l])
                      /\ \A t \in Followers : IsIn(t, lists'[l])
                           <=> follower'[t].pc \in Member /\ follower'[t].on = l
    BY DEF SubLists
  <2>1. NoRepeat(lists'[l])
    BY <1>4, <1>5, SubStates
  <2>2. ASSUME NEW t \in Followers
        PROVE  IsIn(t, lists'[l]) <=> follower'[t].pc \in Member /\ follower'[t].on = l
    <3>1. IsIn(t, lists[l]) <=> follower[t].pc \in Member /\ follower[t].on = l
      BY DEF SubInv, SubLists
    <3>2. CASE t = s
      <4>1. ~ IsIn(t, lists[l]) /\ fo.pc \in Member
        BY <1>1, <1>3, <3>1, <3>2 DEF Member
      <4> QED BY <1>3, <1>4, <1>5, <1>6, <3>2, <4>1
    <3>3. CASE t # s
      BY <1>4, <1>5, <1>6, <3>1, <3>3
    <3> QED BY <3>2, <3>3
  <2> QED BY <2>1, <2>2
<1>9. SubNotices'
  BY <1>1 DEF SubInv, SubNotices
<1>10. ASSUME NEW t \in Followers, t # s, NEW e PROVE IsAhead(t, e)' <=> IsAhead(t, e)
  <2> DEFINE l == follower[t].on
  <2>1. follower'[t].on = l /\ l \in S!Lists
    BY <1>6, <1>10, SubStates
  <2>2. ASSUME NEW c \in Appends
        PROVE  Ahead(notice[c], l, lists'[l], t, e) <=> Ahead(notice[c], l, lists[l], t, e)
    <3>1. CASE l # k
      BY <1>5, <2>1, <3>1
    <3>2. CASE l = k
      <4>1. Ahead(notice[c], k, more, t, e) <=> Ahead(notice[c], k, lists[k], t, e)
        BY <1>2, <1>10, JoinAhead DEF more
      <4> QED BY <1>5, <2>1, <3>2, <4>1
    <3> QED BY <3>1, <3>2
  <2>3. IsAhead(t, e)' <=> \E c \in Appends : Ahead(notice[c], l, lists'[l], t, e)
    BY <1>1, <2>1 DEF IsAhead
  <2>4. IsAhead(t, e) <=> \E c \in Appends : Ahead(notice[c], l, lists[l], t, e)
    BY DEF IsAhead
  <2> HIDE DEF l
  <2> QED BY <2>2, <2>3, <2>4
<1>11. SubTold'
  <2> SUFFICES ASSUME NEW t \in Followers, NEW e \in 1..MaxAppended PROVE EventOK(t, e)'
    BY DEF SubTold
  <2>1. EventOK(t, e) /\ follower[t].got[e] \in Nat
    BY SubStates DEF SubInv, SubTold
  <2>2. CASE t # s
    <3>1. follower'[t] = follower[t]
      BY <1>6, <2>2
    <3> QED BY <1>1, <1>10, <2>1, <2>2, <3>1, EventStays
  <2>3. CASE t = s
    <3>1. follower'[t] = fo /\ fo.got[e] = 0 /\ fo.pc \in Member
      BY <1>3, <1>6, <2>3 DEF Member
    <3>2. Owed(fo, e) <=> past
      BY <1>3 DEF Owed
    <3>3. OnceOK(t, e)'
      <4>1. /\ follower'[t].got[e] = 0 /\ (Owed(follower'[t], e) => past)
            /\ follower'[t].past = past
        BY <1>3, <3>1, <3>2
      <4>2. CASE past
        BY <4>1, <4>2 DEF OnceOK
      <4>3. CASE ~ past
        BY <4>1, <4>3 DEF OnceOK
      <4> QED BY <4>2, <4>3
    <3>4. e <= appended => GetsOK(t, e)'
      BY <1>2, <1>3, <3>1, <3>2 DEF GetsOK
    <3> QED BY <1>1, <3>1, <3>3, <3>4 DEF EventOK
  <2> QED BY <2>2, <2>3
<1> QED BY <1>7, <1>8, <1>9, <1>11 DEF SubInv

LEMMA UnsubscribeKeeps ==
  ASSUME SubInv, NEW s \in Followers, S!Unsubscribe(s)
  PROVE  SubInv'
<1> DEFINE k == follower[s].on
           rest == S!RemoveFirst(lists[k], s)
           fo == [S!NewFollower EXCEPT !.pc = "out"]
<1>1. /\ follower[s].pc = "in" /\ lists' = [lists EXCEPT ![k] = rest]
      /\ follower' = [follower EXCEPT ![s] = fo]
      /\ appended' = appended /\ notice' = notice
      /\ \A x \in cut : x \in cut'
      /\ \A c \in Appends : notice[c].pc = "tell" /\ notice[c].on = k =>
           <<k, Head(notice[c].records)>> \in cut'
  BY DEF S!Unsubscribe, S!Leave
<1>2. /\ k \in S!Lists /\ lists[k] \in Seq(Followers) /\ NoRepeat(lists[k])
      /\ IsIn(s, lists[k]) /\ appended \in Nat
  BY <1>1, SubStates DEF Member
<1>3. /\ fo.pc = "out" /\ fo.batch = <<>> /\ fo.since = 0 /\ ~ fo.past
      /\ fo.got = [e \in 1..MaxAppended |-> 0] /\ fo \in FollowerRows
  BY NewFollowerFacts DEF FollowerRows
<1> HIDE DEF fo
<1>4. /\ rest \in Seq(Followers) /\ NoRepeat(rest) /\ ~ IsIn(s, rest)
      /\ \A t : t # s => (IsIn(t, rest) <=> IsIn(t, lists[k]))
  <2> DEFINE ls == lists[k]
  <2> HIDE DEF ls
  <2>1. rest = S!RemoveFirst(ls, s) /\ ls \in Seq(Followers) /\ NoRepeat(ls) /\ IsIn(s, ls)
    BY <1>2 DEF ls
  <2> HIDE DEF rest
  <2>2. /\ rest \in Seq(Followers) /\ NoRepeat(rest) /\ ~ IsIn(s, rest)
        /\ \A t : t # s => (IsIn(t, rest) <=> IsIn(t, ls))
    BY <2>1, LeaveFacts
  <2> QED BY <2>2 DEF ls
<1> HIDE DEF rest
<1>5. \A l \in S!Lists : lists'[l] = IF l = k THEN rest ELSE lists[l]
  BY <1>1 DEF SubInv, SubTypes
<1>6. \A t \in Followers : follower'[t] = IF t = s THEN fo ELSE follower[t]
  BY <1>1 DEF SubInv, SubTypes
<1>7. SubTypes'
  <2>1. /\ lists' \in [S!Lists -> Seq(Followers)] /\ follower' \in [Followers -> FollowerRows]
    BY <1>1, <1>3, <1>4 DEF SubInv, SubTypes
  <2>2. FollowerOK(fo, appended)
    BY <1>2, <1>3, RunsGrow DEF FollowerOK
  <2>3. \A t \in Followers : FollowerOK(follower'[t], appended)
    BY <1>6, <2>2 DEF SubInv, SubTypes
  <2> QED BY <1>1, <2>1, <2>3 DEF SubInv, SubTypes
<1>8. SubLists'
  <2> SUFFICES ASSUME NEW l \in S!Lists
               PROVE  /\ NoRepeat(lists'[l])
                      /\ \A t \in Followers : IsIn(t, lists'[l])
                           <=> follower'[t].pc \in Member /\ follower'[t].on = l
    BY DEF SubLists
  <2>1. NoRepeat(lists'[l])
    BY <1>4, <1>5, SubStates
  <2>2. ASSUME NEW t \in Followers
        PROVE  IsIn(t, lists'[l]) <=> follower'[t].pc \in Member /\ follower'[t].on = l
    <3>1. IsIn(t, lists[l]) <=> follower[t].pc \in Member /\ follower[t].on = l
      BY DEF SubInv, SubLists
    <3>2. CASE t = s
      <4>1. fo.pc \notin Member /\ (l # k => ~ IsIn(t, lists[l]))
        BY <1>3, <3>1, <3>2 DEF Member
      <4> QED BY <1>4, <1>5, <1>6, <3>2, <4>1
    <3>3. CASE t # s
      BY <1>4, <1>5, <1>6, <3>1, <3>3
    <3> QED BY <3>2, <3>3
  <2> QED BY <2>1, <2>2
<1>9. SubNotices'
  BY <1>1 DEF SubInv, SubNotices
<1>10. ASSUME NEW t \in Followers, t # s, NEW e
       PROVE  /\ IsAhead(t, e)' => IsAhead(t, e)
              /\ IsAhead(t, e) => IsAhead(t, e)' \/ <<follower[t].on, e>> \in cut'
  <2> DEFINE l == follower[t].on
  <2>1. follower'[t].on = l /\ l \in S!Lists
    BY <1>6, <1>10, SubStates
  <2>2. ASSUME NEW c \in Appends
        PROVE  /\ Ahead(notice[c], l, lists'[l], t, e) => Ahead(notice[c], l, lists[l], t, e)
               /\ Ahead(notice[c], l, lists[l], t, e) =>
                    Ahead(notice[c], l, lists'[l], t, e) \/ <<l, e>> \in cut'
    <3>1. CASE l # k
      BY <1>5, <2>1, <3>1
    <3>2. CASE l = k
      <4> DEFINE ls == lists[k]
      <4>0. /\ ls \in Seq(Followers) /\ NoRepeat(ls) /\ IsIn(s, ls)
            /\ rest = S!RemoveFirst(ls, s) /\ notice[c] \in NoticeRows
        BY <1>2, SubStates DEF rest
      <4> HIDE DEF ls
      <4>1. /\ Ahead(notice[c], k, rest, t, e) => Ahead(notice[c], k, ls, t, e)
            /\ Ahead(notice[c], k, ls, t, e) =>
                 \/ Ahead(notice[c], k, rest, t, e)
                 \/ notice[c].pc = "tell" /\ notice[c].on = k /\ e = Head(notice[c].records)
        BY <1>2, <1>10, <4>0, LeaveAhead
      <4> QED BY <1>1, <1>5, <2>1, <3>2, <4>1 DEF ls
    <3> QED BY <3>1, <3>2
  <2>3. IsAhead(t, e)' <=> \E c \in Appends : Ahead(notice[c], l, lists'[l], t, e)
    BY <1>1, <2>1 DEF IsAhead
  <2>4. IsAhead(t, e) <=> \E c \in Appends : Ahead(notice[c], l, lists[l], t, e)
    BY DEF IsAhead
  <2>5. <<l, e>> \in cut' <=> <<follower[t].on, e>> \in cut'
    OBVIOUS
  <2> HIDE DEF l
  <2> QED BY <2>2, <2>3, <2>4, <2>5
<1>11. SubTold'
  <2> SUFFICES ASSUME NEW t \in Followers, NEW e \in 1..MaxAppended PROVE EventOK(t, e)'
    BY DEF SubTold
  <2>1. EventOK(t, e) /\ follower[t].got[e] \in Nat
    BY SubStates DEF SubInv, SubTold
  <2>2. CASE t # s
    <3>1. follower'[t] = follower[t]
      BY <1>6, <2>2
    <3> QED BY <1>1, <1>10, <2>1, <2>2, <3>1, EventStays
  <2>3. CASE t = s
    <3>1. follower'[t] = fo /\ fo.got[e] = 0 /\ fo.pc \notin Member
      BY <1>3, <1>6, <2>3 DEF Member
    <3> QED BY <3>1 DEF EventOK
  <2> QED BY <2>2, <2>3
<1> QED BY <1>7, <1>8, <1>9, <1>11 DEF SubInv

LEMMA AppendEventsKeeps ==
  ASSUME SubInv, NEW c \in Appends, NEW n \in 1..2, S!AppendEvents(c, n)
  PROVE  SubInv'
<1> DEFINE last == appended + n
           new == (appended + 1)..last
           ns == S!Records(appended + 1, last)
           nt2 == [notice[c] EXCEPT !.pc = "tell", !.batch = new, !.records = ns]
<1>1. /\ notice[c].pc = "new" /\ last <= MaxAppended
      /\ notice' = [notice EXCEPT ![c] = nt2]
      /\ appended' = last /\ lists' = lists /\ follower' = follower /\ cut' = cut
  <2>1. notice[c] \in NoticeRows
    BY SubStates
  <2> QED BY <2>1 DEF S!AppendEvents, NoticeRows
<1>2. /\ appended \in Nat /\ n \in Nat /\ n >= 1 /\ last \in Nat /\ appended < last
      /\ MaxAppended \in Nat
  BY SubStates
<1>3. /\ IsRun(ns, last) /\ \A e : IsIn(e, ns) <=> e \in new
      /\ ns # <<>> /\ Head(ns) = appended + 1
  BY <1>2, RecordsFacts
<1>4. ns \in Seq(1..MaxAppended) /\ new \subseteq 1..MaxAppended /\ new \subseteq 1..last
  <2>1. IsRun(ns, MaxAppended)
    BY <1>1, <1>2, <1>3, RunsGrow
  <2> QED BY <1>1, <1>2, <2>1 DEF IsRun
<1>5. /\ notice[c] \in NoticeRows /\ notice[c] = S!NoNotice
      /\ notice[c].on = "stream" /\ notice[c].at = 0 /\ notice[c].batch = {}
      /\ notice[c].records = <<>>
  BY <1>1, SubStates DEF NoticeOK, S!NoNotice
<1> HIDE DEF ns, new, last
<1>6. /\ nt2 \in NoticeRows /\ nt2.pc = "tell" /\ nt2.batch = new /\ nt2.records = ns
      /\ nt2.on = "stream" /\ nt2.at = 0
  BY <1>4, <1>5 DEF NoticeRows
<1> HIDE DEF nt2
<1>7. \A d \in Appends : notice'[d] = IF d = c THEN nt2 ELSE notice[d]
  BY <1>1 DEF SubInv, SubTypes
<1>8. SubTypes'
  <2>1. notice' \in [Appends -> NoticeRows]
    BY <1>1, <1>6 DEF SubInv, SubTypes
  <2>2. ASSUME NEW s \in Followers PROVE FollowerOK(follower[s], last)
    <3>1. FollowerOK(follower[s], appended) /\ follower[s].since \in Nat
      BY SubStates DEF SubInv, SubTypes
    <3>2. IsRun(follower[s].batch, last)
      BY <1>2, <3>1, RunsGrow DEF FollowerOK
    <3> QED BY <1>2, <3>1, <3>2 DEF FollowerOK
  <2> QED BY <1>1, <1>2, <2>1, <2>2 DEF SubInv, SubTypes
<1>9. SubLists'
  BY <1>1 DEF SubInv, SubLists
<1>10. SubNotices'
  <2>1. NoticeOK(nt2, last)
    <3>1. \A e \in new : \A f \in new : e > f => IsIn(e, ns)
      BY <1>3
    <3> QED BY <1>3, <1>4, <1>6, <3>1 DEF NoticeOK
  <2>2. ASSUME NEW d \in Appends, d # c
        PROVE  NoticeOK(notice[d], last) /\ notice[d].batch \cap new = {}
    <3>1. NoticeOK(notice[d], appended) /\ notice[d].batch \subseteq 1..appended
      BY SubStates DEF NoticeOK
    <3>2. IsRun(notice[d].records, last)
      BY <1>2, <3>1, RunsGrow DEF NoticeOK
    <3>3. notice[d].batch \subseteq 1..last /\ notice[d].batch \cap new = {}
      BY <1>2, <3>1 DEF new
    <3> QED BY <3>1, <3>2, <3>3 DEF NoticeOK
  <2>3. \A d \in Appends : NoticeOK(notice'[d], last)
    BY <1>7, <2>1, <2>2
  <2>4. \A d, f \in Appends : d # f => notice'[d].batch \cap notice'[f].batch = {}
    <3> SUFFICES ASSUME NEW d \in Appends, NEW f \in Appends, d # f
                 PROVE  notice'[d].batch \cap notice'[f].batch = {}
      OBVIOUS
    <3>1. notice[d].batch \cap notice[f].batch = {}
      BY DEF SubInv, SubNotices
    <3> QED BY <1>6, <1>7, <2>2, <3>1
  <2> QED BY <1>1, <2>3, <2>4 DEF SubNotices
<1>11. ASSUME NEW s \in Followers, follower[s].pc \in Member, NEW e
       PROVE  IsAhead(s, e)' <=> IsAhead(s, e) \/ e \in new
  <2> DEFINE l == follower[s].on
             ls == lists[l]
  <2>1. l \in S!Lists /\ IsIn(s, ls) /\ ls \in Seq(Followers)
    BY <1>11, SubStates
  <2>2. Ahead(nt2, l, ls, s, e) <=> e \in new
    <3>1. \E i \in 1..Len(ls) : ls[i] = s /\ i > 0
      BY <2>1 DEF IsIn
    <3>2. l \in {"stream", "all"}
      BY <2>1 DEF S!Lists
    <3> QED BY <1>3, <1>6, <3>1, <3>2 DEF Ahead
  <2>3. ~ Ahead(notice[c], l, ls, s, e)
    BY <1>1 DEF Ahead
  <2>4. IsAhead(s, e)' <=> \E d \in Appends : Ahead(notice'[d], l, ls, s, e)
    BY <1>1 DEF IsAhead
  <2>5. IsAhead(s, e) <=> \E d \in Appends : Ahead(notice[d], l, ls, s, e)
    BY DEF IsAhead
  <2> HIDE DEF l, ls
  <2> QED BY <1>7, <2>2, <2>3, <2>4, <2>5
<1>12. SubTold'
  <2> SUFFICES ASSUME NEW s \in Followers, NEW e \in 1..MaxAppended PROVE EventOK(s, e)'
    BY DEF SubTold
  <2>0. e \in Nat /\ e >= 1
    BY <1>2
  <2>1. /\ EventOK(s, e) /\ follower[s].got[e] \in Nat /\ follower[s] \in FollowerRows
        /\ follower[s].pc \in {"read", "replay"} => follower[s].past
        /\ follower[s].since <= appended /\ follower[s].since \in Nat
    BY SubStates DEF SubInv, SubTold
  <2>2. CASE follower[s].pc \notin Member
    BY <1>1, <2>1, <2>2 DEF EventOK
  <2>3. CASE follower[s].pc \in Member /\ e <= appended
    <3>1. IsAhead(s, e)' <=> IsAhead(s, e)
      BY <1>2, <1>11, <2>0, <2>3 DEF new
    <3>2. OnceOK(s, e)'
      BY <1>1, <2>1, <2>3, <3>1 DEF EventOK, OnceOK
    <3>3. GetsOK(s, e)'
      BY <1>1, <2>1, <2>3, <3>1 DEF EventOK, GetsOK
    <3>4. ~ (e > last)
      BY <1>2, <2>0, <2>3
    <3> QED BY <1>1, <2>3, <3>2, <3>3, <3>4 DEF EventOK
  <2>4. CASE follower[s].pc \in Member /\ e > appended
    <3>1. follower[s].got[e] = 0
      BY <2>1, <2>4 DEF EventOK
    <3>2. Owed(follower[s], e) => follower[s].past
      BY <2>1 DEF Owed
    <3>3. OnceOK(s, e)'
      <4>1. CASE follower[s].past
        BY <1>1, <3>1, <4>1 DEF OnceOK
      <4>2. CASE ~ follower[s].past
        BY <1>1, <3>1, <3>2, <4>2 DEF OnceOK
      <4> QED BY <4>1, <4>2
    <3>4. e <= last => GetsOK(s, e)'
      <4>1. e <= last => IsAhead(s, e)'
        BY <1>2, <1>11, <2>0, <2>4 DEF new
      <4>2. ~ (e <= follower[s].since)
        BY <1>2, <2>0, <2>1, <2>4
      <4> QED BY <1>1, <4>1, <4>2 DEF GetsOK
    <3> QED BY <1>1, <2>4, <3>1, <3>3, <3>4 DEF EventOK
  <2> QED BY <1>2, <2>0, <2>2, <2>3, <2>4
<1> QED BY <1>8, <1>9, <1>10, <1>12 DEF SubInv

(* What an append left in the store before it threw is owed only to those   *)
(* that have yet to read the past.                                          *)
LEMMA AnswerLostKeeps ==
  ASSUME SubInv, NEW c \in Appends, NEW n \in 1..2, S!AnswerLost(c, n)
  PROVE  SubInv'
<1> DEFINE last == appended + n
           new == (appended + 1)..last
           nt2 == [notice[c] EXCEPT !.pc = "thrown", !.batch = new]
<1>1. /\ notice[c].pc = "new" /\ last <= MaxAppended
      /\ notice' = [notice EXCEPT ![c] = nt2]
      /\ appended' = last /\ lists' = lists /\ follower' = follower
      /\ cut' = cut \cup (S!Lists \X new)
  <2>1. notice[c] \in NoticeRows
    BY SubStates
  <2> QED BY <2>1 DEF S!AnswerLost, NoticeRows
<1>2. /\ appended \in Nat /\ n \in Nat /\ n >= 1 /\ last \in Nat /\ appended < last
      /\ MaxAppended \in Nat
  BY SubStates
<1>3. new \subseteq 1..MaxAppended /\ new \subseteq 1..last
  BY <1>1, <1>2
<1>4. notice[c] \in NoticeRows /\ notice[c] = S!NoNotice /\ notice[c].records = <<>>
  BY <1>1, SubStates DEF NoticeOK, S!NoNotice
<1> HIDE DEF new, last
<1>5. nt2 \in NoticeRows /\ nt2.pc = "thrown" /\ nt2.batch = new /\ nt2.records = <<>>
  BY <1>3, <1>4 DEF NoticeRows
<1> HIDE DEF nt2
<1>6. \A d \in Appends : notice'[d] = IF d = c THEN nt2 ELSE notice[d]
  BY <1>1 DEF SubInv, SubTypes
<1>7. SubTypes'
  <2>1. notice' \in [Appends -> NoticeRows]
    BY <1>1, <1>5 DEF SubInv, SubTypes
  <2>2. ASSUME NEW s \in Followers PROVE FollowerOK(follower[s], last)
    <3>1. FollowerOK(follower[s], appended) /\ follower[s].since \in Nat
      BY SubStates DEF SubInv, SubTypes
    <3>2. IsRun(follower[s].batch, last)
      BY <1>2, <3>1, RunsGrow DEF FollowerOK
    <3> QED BY <1>2, <3>1, <3>2 DEF FollowerOK
  <2> QED BY <1>1, <1>2, <2>1, <2>2 DEF SubInv, SubTypes
<1>8. SubLists'
  BY <1>1 DEF SubInv, SubLists
<1>9. SubNotices'
  <2>1. NoticeOK(nt2, last)
    <3>1. IsRun(<<>>, last) /\ \A e : ~ IsIn(e, <<>>)
      BY <1>2, RunsGrow
    <3> QED BY <1>3, <1>5, <3>1 DEF NoticeOK
  <2>2. ASSUME NEW d \in Appends, d # c
        PROVE  NoticeOK(notice[d], last) /\ notice[d].batch \cap new = {}
    <3>1. NoticeOK(notice[d], appended) /\ notice[d].batch \subseteq 1..appended
      BY SubStates DEF NoticeOK
    <3>2. IsRun(notice[d].records, last)
      BY <1>2, <3>1, RunsGrow DEF NoticeOK
    <3>3. notice[d].batch \subseteq 1..last /\ notice[d].batch \cap new = {}
      BY <1>2, <3>1 DEF new
    <3> QED BY <3>1, <3>2, <3>3 DEF NoticeOK
  <2>3. \A d \in Appends : NoticeOK(notice'[d], last)
    BY <1>6, <2>1, <2>2
  <2>4. \A d, f \in Appends : d # f => notice'[d].batch \cap notice'[f].batch = {}
    <3> SUFFICES ASSUME NEW d \in Appends, NEW f \in Appends, d # f
                 PROVE  notice'[d].batch \cap notice'[f].batch = {}
      OBVIOUS
    <3>1. notice[d].batch \cap notice[f].batch = {}
      BY DEF SubInv, SubNotices
    <3> QED BY <1>5, <1>6, <2>2, <3>1
  <2> QED BY <1>1, <2>3, <2>4 DEF SubNotices
<1>10. ASSUME NEW s \in Followers, NEW e PROVE IsAhead(s, e)' <=> IsAhead(s, e)
  <2>1. \A d \in Appends : notice'[d].pc = "tell" \/ notice[d].pc = "tell" =>
          notice'[d] = notice[d]
    BY <1>1, <1>5, <1>6
  <2> QED BY <1>1, <2>1 DEF IsAhead, Ahead
<1>11. SubTold'
  <2> SUFFICES ASSUME NEW s \in Followers, NEW e \in 1..MaxAppended PROVE EventOK(s, e)'
    BY DEF SubTold
  <2>0. e \in Nat /\ e >= 1
    BY <1>2
  <2>1. /\ EventOK(s, e) /\ follower[s].got[e] \in Nat /\ follower[s].on \in S!Lists
        /\ follower[s].since <= appended /\ follower[s].since \in Nat
    BY SubStates DEF SubInv, SubTold
  <2>2. CASE follower[s].pc \notin Member
    BY <1>1, <2>1, <2>2 DEF EventOK
  <2>3. CASE follower[s].pc \in Member
    <3>1. OnceOK(s, e)'
      BY <1>1, <1>10, <2>1, <2>3 DEF EventOK, OnceOK
    <3>2. CASE e <= appended
      <4>1. GetsOK(s, e)'
        BY <1>1, <1>10, <2>1, <2>3, <3>2 DEF EventOK, GetsOK
      <4>2. ~ (e > last)
        BY <1>2, <2>0, <3>2
      <4> QED BY <1>1, <2>3, <3>1, <4>1, <4>2 DEF EventOK
    <3>3. CASE e > appended
      <4>1. follower[s].got[e] = 0 /\ ~ (e <= follower[s].since)
        BY <1>2, <2>0, <2>1, <2>3, <3>3 DEF EventOK
      <4>2. e <= last => <<follower[s].on, e>> \in cut'
        BY <1>1, <1>2, <2>0, <2>1, <3>3 DEF new
      <4>3. e <= last => GetsOK(s, e)'
        BY <1>1, <4>1, <4>2 DEF GetsOK
      <4> QED BY <1>1, <2>3, <3>1, <4>1, <4>3 DEF EventOK
    <3> QED BY <1>2, <2>0, <3>2, <3>3
  <2> QED BY <2>2, <2>3
<1> QED BY <1>7, <1>8, <1>9, <1>11 DEF SubInv

LEMMA SubNext == SubInv /\ S!Next => SubInv'
<1> SUFFICES ASSUME SubInv, S!Next PROVE SubInv'
  OBVIOUS
<1>1. ASSUME NEW c \in Appends, S!Notify(c) PROVE SubInv'
  BY <1>1, NotifyKeeps
<1>2. ASSUME NEW c \in Appends, S!ListDone(c) PROVE SubInv'
  BY <1>2, ListDoneKeeps
<1>3. ASSUME NEW c \in Appends, NEW n \in 1..2, S!AppendEvents(c, n) \/ S!AnswerLost(c, n)
      PROVE  SubInv'
  BY <1>3, AppendEventsKeeps, AnswerLostKeeps
<1>4. ASSUME NEW s \in Followers, NEW k \in S!Lists, NEW past \in BOOLEAN, S!Subscribe(s, k, past)
      PROVE  SubInv'
  BY <1>4, SubscribeKeeps
<1>5. ASSUME NEW s \in Followers,
             S!ReadPast(s) \/ S!HandlePast(s) \/ S!HandlerThrows(s) \/ S!Unsubscribe(s)
      PROVE  SubInv'
  BY <1>5, ReadPastKeeps, HandlePastKeeps, HandlerThrowsKeeps, UnsubscribeKeeps
<1> QED BY <1>1, <1>2, <1>3, <1>4, <1>5 DEF S!Next

LEMMA SubInitially == S!Init => SubInv
<1> SUFFICES ASSUME S!Init PROVE SubInv
  OBVIOUS
<1>1. /\ appended = 0 /\ lists = [k \in S!Lists |-> <<>>]
      /\ follower = [s \in Followers |-> S!NewFollower]
      /\ notice = [c \in Appends |-> S!NoNotice]
  BY DEF S!Init
<1>2. S!NoNotice \in NoticeRows /\ S!NoNotice.records = <<>> /\ S!NoNotice.batch = {}
      /\ S!NoNotice.pc = "new"
  <2>1. <<>> \in Seq(1..MaxAppended)
    OBVIOUS
  <2> QED BY <2>1 DEF NoticeRows, S!NoNotice, S!Lists
<1>3. IsRun(<<>>, 0) /\ \A x : ~ IsIn(x, <<>>)
  BY DEF IsRun, IsIn
<1>4. SubTypes
  <2>1. FollowerOK(S!NewFollower, 0)
    BY <1>3, NewFollowerFacts DEF FollowerOK
  <2> QED BY <1>1, <1>2, <2>1, NewFollowerFacts, ReadersAssumption DEF SubTypes
<1>5. SubLists
  <2>1. NoRepeat(<<>>)
    BY DEF NoRepeat
  <2> QED BY <1>1, <1>3, <2>1, NewFollowerFacts DEF SubLists, Member
<1>6. SubNotices
  <2>1. NoticeOK(S!NoNotice, 0)
    BY <1>2, <1>3 DEF NoticeOK
  <2> QED BY <1>1, <1>2, <2>1 DEF SubNotices
<1>7. SubTold
  BY <1>1, NewFollowerFacts DEF SubTold, EventOK, Member
<1> QED BY <1>4, <1>5, <1>6, <1>7 DEF SubInv

LEMMA SubTells ==
  SubInv => S!StayersMissNothing /\ S!TwiceOnlyFromThePast /\ S!OneAppendInOrder
<1> SUFFICES ASSUME SubInv
             PROVE  S!StayersMissNothing /\ S!TwiceOnlyFromThePast /\ S!OneAppendInOrder
  OBVIOUS
<1>0. appended \in Nat /\ MaxAppended \in Nat /\ appended <= MaxAppended
  BY SubStates
<1>1. \A s \in Followers, e \in 1..MaxAppended :
        EventOK(s, e) /\ follower[s].got[e] \in Nat /\ follower[s].since \in Nat
  BY SubStates DEF SubInv, SubTold
<1>2. S!StayersMissNothing
  <2> SUFFICES ASSUME NEW s \in Followers, follower[s].pc = "in",
                      NEW e \in S!First(s)..appended, e \notin S!BeingTold
               PROVE  \/ follower[s].got[e] > 0
                      \/ e > follower[s].since /\ <<follower[s].on, e>> \in cut
    BY DEF S!StayersMissNothing
  <2>1. /\ follower[s].since \in Nat /\ e \in 1..MaxAppended /\ e <= appended
        /\ e > follower[s].since \/ follower[s].past
    <3>1. follower[s].since \in Nat
      BY SubStates
    <3> QED BY <1>0, <3>1 DEF S!First
  <2>2. GetsOK(s, e) /\ follower[s].got[e] \in Nat
    BY <1>1, <2>1 DEF EventOK, Member
  <2>3. ~ Owed(follower[s], e)
    BY DEF Owed
  <2>4. ~ IsAhead(s, e)
    <3> SUFFICES ASSUME NEW c \in Appends, IsIn(e, notice[c].records) PROVE FALSE
      BY DEF IsAhead, Ahead
    <3>1. e \in S!ToSet(notice[c].records)
      <4>1. notice[c].records \in Seq(1..MaxAppended)
        BY SubStates DEF NoticeRows
      <4>2. DOMAIN notice[c].records = 1..Len(notice[c].records)
        BY <4>1
      <4> QED BY <4>2 DEF IsIn, S!ToSet
    <3> QED BY <3>1 DEF S!BeingTold
  <2> QED BY <1>0, <2>1, <2>2, <2>3, <2>4 DEF GetsOK
<1>3. S!TwiceOnlyFromThePast
  <2> SUFFICES ASSUME NEW s \in Followers, NEW e \in 1..MaxAppended
               PROVE  follower[s].got[e] <= IF follower[s].past THEN 2 ELSE 1
    BY DEF S!TwiceOnlyFromThePast
  <2>1. EventOK(s, e) /\ follower[s].got[e] \in Nat
    BY <1>1
  <2>2. CASE follower[s].pc \in Member
    BY <2>1, <2>2 DEF EventOK, OnceOK
  <2>3. CASE follower[s].pc \notin Member
    BY <2>1, <2>3 DEF EventOK
  <2> QED BY <2>2, <2>3
<1>4. S!OneAppendInOrder
  <2> SUFFICES ASSUME NEW c \in Appends, NEW s \in Followers, follower[s].pc = "in",
                      ~ follower[s].past,
                      NEW f \in notice[c].batch, NEW e \in notice[c].batch,
                      f > follower[s].since, e > follower[s].since, f < e,
                      follower[s].got[e] > 0, ~ (follower[s].got[f] > 0),
                      <<follower[s].on, f>> \notin cut
               PROVE  FALSE
    BY DEF S!OneAppendInOrder
  <2>1. /\ notice[c].batch \subseteq 1..appended /\ NoticeOK(notice[c], appended)
        /\ IsRun(notice[c].records, appended)
    BY SubStates DEF NoticeOK
  <2>2. e \in 1..MaxAppended /\ f \in 1..MaxAppended /\ f <= appended
    BY <1>0, <2>1
  <2>3. IsAhead(s, f)
    <3>1. EventOK(s, f)
      BY <1>1, <2>2
    <3> QED BY <2>2, <3>1 DEF EventOK, GetsOK, Member
  <2>4. PICK d \in Appends :
          notice[d].pc = "tell" /\ IsIn(f, notice[d].records)
    BY <2>3 DEF IsAhead, Ahead
  <2>5. d = c
    <3>1. f \in notice[d].batch
      BY <2>4, SubStates DEF NoticeOK
    <3> QED BY <3>1 DEF SubInv, SubNotices
  <2>6. IsIn(e, notice[c].records) /\ notice[c].pc = "tell"
    BY <2>1, <2>4, <2>5 DEF NoticeOK
  <2>7. e # Head(notice[c].records)
    <3> DEFINE ns == notice[c].records
    <3>1. ns # <<>> /\ IsRun(ns, appended) /\ IsIn(f, ns)
      BY <2>1, <2>4, <2>5 DEF NoticeOK
    <3> HIDE DEF ns
    <3>2. Head(ns) \in 1..appended /\ f >= Head(ns)
      BY <1>0, <3>1, RunFacts
    <3>3. e # Head(ns)
      BY <1>0, <2>2, <3>2
    <3> QED BY <3>3 DEF ns
  <2>8. IsAhead(s, e)
    BY <2>6, <2>7 DEF IsAhead, Ahead
  <2>9. EventOK(s, e) /\ follower[s].got[e] \in Nat
    BY <1>1, <2>2
  <2> QED BY <2>8, <2>9 DEF EventOK, OnceOK, Member
<1> QED BY <1>2, <1>3, <1>4

LEMMA SubRests == SubInv /\ UNCHANGED ofSubscribers => SubInv'
<1> SUFFICES ASSUME SubInv, UNCHANGED ofSubscribers PROVE SubInv'
  OBVIOUS
<1>1. /\ appended' = appended /\ lists' = lists /\ follower' = follower
      /\ notice' = notice /\ cut' = cut
  BY DEF ofSubscribers
<1>2. SubTypes' /\ SubLists' /\ SubNotices'
  BY <1>1 DEF SubInv, SubTypes, SubLists, SubNotices
<1>3. SubTold'
  <2> SUFFICES ASSUME NEW s \in Followers, NEW e \in 1..MaxAppended PROVE EventOK(s, e)'
    BY DEF SubTold
  <2>1. IsAhead(s, e)' <=> IsAhead(s, e)
    BY <1>1 DEF IsAhead
  <2>2. EventOK(s, e) /\ follower[s].got[e] \in Nat
    BY SubStates DEF SubInv, SubTold
  <2> QED BY <1>1, <2>1, <2>2, EventStays
<1> QED BY <1>2, <1>3 DEF SubInv

(* What the invariant of the subscribers says of the types. *)
LEMMA SubTypesTell == SubInv => S!TypeOK
<1> SUFFICES ASSUME SubInv PROVE S!TypeOK
  OBVIOUS
<1>1. appended \in 0..MaxAppended
  BY SubStates
<1>2. ASSUME NEW k \in S!Lists PROVE S!IsInjective(lists[k]) /\ S!ToSet(lists[k]) \subseteq Followers
  <2>1. lists[k] \in Seq(Followers) /\ NoRepeat(lists[k])
    BY SubStates
  <2>2. DOMAIN lists[k] = 1..Len(lists[k]) /\ \A i \in 1..Len(lists[k]) : lists[k][i] \in Followers
    BY <2>1
  <2> QED BY <2>1, <2>2 DEF S!IsInjective, S!ToSet, NoRepeat
<1>3. ASSUME NEW s \in Followers
      PROVE  /\ follower[s].pc \in {"new", "read", "replay", "in", "stuck", "out"}
             /\ \A e \in 1..MaxAppended : follower[s].got[e] > 0 => e <= appended
  <2>1. follower[s].pc \in {"new", "read", "replay", "in", "stuck", "out"}
    BY SubStates DEF FollowerRows, Member
  <2>2. ASSUME NEW e \in 1..MaxAppended, follower[s].got[e] > 0 PROVE e <= appended
    <3>1. e \in Nat /\ appended \in Nat /\ (e > appended => follower[s].got[e] = 0)
      BY SubStates DEF SubInv, SubTold, EventOK
    <3> QED BY <2>2, <3>1
  <2> QED BY <2>1, <2>2
<1>4. \A c \in Appends : notice[c].pc = "tell" => notice[c].records # <<>>
  BY SubStates DEF NoticeOK
<1> QED BY <1>1, <1>2, <1>3, <1>4 DEF S!TypeOK

(***************************************************************************)
(* Replays.  Events are ordered by their numbers, and within a number by    *)
(* when they came in.  A batch is the events with fewer than so many before *)
(* them; how many are before each is a number, so one of them is the first. *)
(***************************************************************************)
(* How many an instance counts is how many there are. *)
LEMMA SameCardinality == ASSUME NEW s PROVE R!Cardinality(s) = Cardinality(s)
BY Zenon DEF R!Cardinality, Cardinality

(* The order is total and strict. *)
LEMMA BeforeOrders ==
  ASSUME NEW st \in Seq(Nat), stored = st, NEW d \in 1..Len(st), NEW e \in 1..Len(st), NEW f \in 1..Len(st)
  PROVE  /\ d # e => R!Before(d, e) \/ R!Before(e, d)
         /\ ~R!Before(d, d)
         /\ R!Before(d, e) /\ R!Before(e, f) => R!Before(d, f)
<1>1. st[d] \in Nat /\ st[e] \in Nat /\ st[f] \in Nat /\ d \in Nat /\ e \in Nat /\ f \in Nat
  OBVIOUS
<1> QED BY <1>1 DEF R!Before

(* How many of these events are before one of them. *)
Rank(events, e) == Cardinality({d \in events : R!Before(d, e)})

(* It is a number below theirs, and grows along the order. *)
LEMMA RankGrows ==
  ASSUME stored \in Seq(Nat), NEW events \in SUBSET (1..Len(stored))
  PROVE  /\ IsFiniteSet(events)
         /\ \A e \in events : Rank(events, e) \in Nat
         /\ \A d, e \in events : R!Before(d, e) => Rank(events, d) < Rank(events, e)
<1>1. IsFiniteSet(events)
  <2>1. Len(stored) \in Nat
    OBVIOUS
  <2>2. IsFiniteSet(1..Len(stored))
    BY <2>1, FS_Interval
  <2> QED BY <2>2, FS_Subset
<1>2. ASSUME NEW e \in events
      PROVE  IsFiniteSet({d \in events : R!Before(d, e)}) /\ Rank(events, e) \in Nat
  <2>1. {d \in events : R!Before(d, e)} \in SUBSET events
    OBVIOUS
  <2> QED BY <1>1, <2>1, FS_Subset, FS_CardinalityType DEF Rank
<1>3. ASSUME NEW d \in events, NEW e \in events, R!Before(d, e)
      PROVE  Rank(events, d) < Rank(events, e)
  <2> DEFINE D == {f \in events : R!Before(f, d)}
             E == {f \in events : R!Before(f, e)}
  <2>1. D \in SUBSET E
    BY <1>3, BeforeOrders
  <2>2. d \in E /\ d \notin D
    BY <1>3, BeforeOrders
  <2>3. IsFiniteSet(E)
    BY <1>2
  <2>4. Cardinality(D) = Rank(events, d) /\ Cardinality(E) = Rank(events, e)
    BY DEF Rank
  <2> HIDE DEF D, E
  <2>5. Cardinality(D) <= Cardinality(E) /\ Cardinality(D) # Cardinality(E)
    <3>1. (Cardinality(E) = Cardinality(D)) => E = D
      BY <2>1, <2>3, FS_Subset
    <3>2. Cardinality(D) <= Cardinality(E)
      BY <2>1, <2>3, FS_Subset
    <3> QED BY <2>2, <3>1, <3>2
  <2>6. Rank(events, d) \in Nat /\ Rank(events, e) \in Nat
    BY <1>2
  <2> QED BY <2>4, <2>5, <2>6
<1> QED BY <1>1, <1>2, <1>3

(* The leading events: no more than the limit, some if there are any, and
   each before those that are left. *)
LEMMA LeadingAre ==
  ASSUME stored \in Seq(Nat), NEW events \in SUBSET (1..Len(stored)), NEW max \in Nat, max > 0
  PROVE  LET batch == R!Leading(events, max) IN
           /\ batch \subseteq events /\ IsFiniteSet(batch) /\ Cardinality(batch) <= max
           /\ events # {} => batch # {}
           /\ \A d \in batch, e \in events \ batch : R!Before(d, e)
<1> DEFINE batch == R!Leading(events, max)
<1>1. batch = {e \in events : Rank(events, e) < max}
  <2>1. ASSUME NEW e PROVE e \in batch <=> e \in events /\ Rank(events, e) < max
    BY SameCardinality DEF R!Leading, Rank
  <2> HIDE DEF batch
  <2> QED BY <2>1
<1> HIDE DEF batch
<1>2. IsFiniteSet(events) /\ (\A e \in events : Rank(events, e) \in Nat)
      /\ \A d, e \in events : R!Before(d, e) => Rank(events, d) < Rank(events, e)
  BY RankGrows
<1>3. batch \in SUBSET events /\ IsFiniteSet(batch)
  BY <1>1, <1>2, FS_Subset
<1>4. Cardinality(batch) <= max
  <2> DEFINE f == [e \in batch |-> Rank(events, e)]
             T == 0..max - 1
  <2>0. \A e \in batch : Rank(events, e) \in T
    BY <1>1, <1>2
  <2>1. f \in [batch -> T]
    <3> HIDE DEF T
    <3> QED BY <2>0
  <2>2. \A d, e \in batch : d # e => f[d] # f[e]
    <3> SUFFICES ASSUME NEW d \in batch, NEW e \in batch, d # e PROVE Rank(events, d) # Rank(events, e)
      OBVIOUS
    <3>1. R!Before(d, e) \/ R!Before(e, d)
      BY <1>3, BeforeOrders
    <3>2. d \in events /\ e \in events
      BY <1>3
    <3> QED BY <1>2, <3>1, <3>2
  <2>3. f \in Injection(batch, T)
    BY <2>1, <2>2 DEF Injection, IsInjective
  <2>4. IsFiniteSet(T) /\ Cardinality(T) = max
    BY FS_Interval
  <2> HIDE DEF f, T
  <2> QED BY <2>3, <2>4, FS_Injection
<1>5. ASSUME events # {} PROVE batch # {}
  <2> DEFINE ranks == {n \in Nat : \E e \in events : Rank(events, e) = n}
  <2>1. ranks \subseteq Nat /\ ranks # {}
    BY <1>2, <1>5
  <2>2. PICK n \in ranks : \A m \in ranks : n <= m
    <3> HIDE DEF ranks
    <3> QED BY <2>1, SmallestOf
  <2>3. PICK e \in events : Rank(events, e) = n
    BY <2>2
  <2>4. {d \in events : R!Before(d, e)} = {}
    <3> SUFFICES ASSUME NEW d \in events, R!Before(d, e) PROVE FALSE
      OBVIOUS
    <3>1. Rank(events, d) < Rank(events, e) /\ Rank(events, d) \in Nat /\ Rank(events, e) \in Nat
      BY <1>2
    <3> QED BY <2>2, <2>3, <3>1
  <2>5. Rank(events, e) = 0
    BY <2>4, FS_EmptySet DEF Rank
  <2> QED BY <1>1, <2>5
<1>6. ASSUME NEW d \in batch, NEW e \in events \ batch PROVE R!Before(d, e)
  <2>1. Rank(events, d) < max /\ ~(Rank(events, e) < max) /\ d # e /\ d \in events
    BY <1>1
  <2>2. ~R!Before(e, d)
    <3> SUFFICES ASSUME R!Before(e, d) PROVE FALSE
      OBVIOUS
    <3>1. Rank(events, e) < Rank(events, d) /\ Rank(events, e) \in Nat /\ Rank(events, d) \in Nat
      BY <1>2, <2>1
    <3> QED BY <2>1, <3>1
  <2> QED BY <2>1, <2>2, BeforeOrders
<1> QED BY <1>3, <1>4, <1>5, <1>6 DEF batch

(***************************************************************************)
(* What a replay has seen comes before its batch, its batch before the      *)
(* number it goes on from; and what it wants was seen, is in the batch, is   *)
(* still to come, or was skipped.                                           *)
(***************************************************************************)
ReplayRow ==
  [pc : {"idle", "read", "handle", "done"}, start : Nat, from : Nat, to : Nat, known : SUBSET Nat,
   batch : SUBSET Nat, more : BOOLEAN, handled : Seq(Nat), failed : SUBSET Nat, jumps : SUBSET Nat]
ReplayTypes ==
  /\ replaysAll \in BOOLEAN /\ stored \in Seq(R!Numbers) /\ snapshot \in R!Goals
  /\ replay \in [ReplayHandlers -> ReplayRow]

(* A stream's versions are different. *)
Different(st) == \A i, j \in 1..Len(st) : st[i] = st[j] => i = j

IsBefore(st, d, e) == st[d] < st[e] \/ (st[d] = st[e] /\ d < e)
SeenBy(x, e) == (\E i \in 1..Len(x.handled) : x.handled[i] = e) \/ e \in x.failed
Within(x, st) ==
  /\ x.known \cup x.batch \cup x.failed \subseteq 1..Len(st)
  /\ \A i \in 1..Len(x.handled) : x.handled[i] \in 1..Len(st)
  /\ IsFiniteSet(x.batch) /\ Cardinality(x.batch) <= BatchSize
  /\ x.pc # "handle" => x.batch = {}
  /\ x.pc = "idle" => x.known = {}
InTurn(x, st) ==
  /\ \A b \in x.batch : st[b] < x.from
  /\ \A i \in 1..Len(x.handled) :
       /\ st[x.handled[i]] < x.from
       /\ x.to # 0 => st[x.handled[i]] <= x.to
       /\ \A b \in x.batch : IsBefore(st, x.handled[i], b)
       /\ \A j \in 1..Len(x.handled) : i < j => IsBefore(st, x.handled[i], x.handled[j])
WantedBy(x, st, e) == e \in x.known /\ st[e] >= x.start /\ (x.to = 0 \/ st[e] <= x.to)
Skipped(x, st, all, e) ==
  \E last \in x.jumps :
    \/ last < st[e] /\ st[e] < 10 * last + 1
    \/ all = TRUE /\ st[e] = last /\ \E d \in 1..Len(st) : st[d] = last /\ (SeenBy(x, d) \/ d \in x.batch)
ToCome(x, st, e) == (x.pc = "read" \/ (x.pc = "handle" /\ x.more = TRUE)) /\ st[e] >= x.from
Complete(x, st, all) ==
  \A e \in 1..Len(st) :
    WantedBy(x, st, e) => SeenBy(x, e) \/ e \in x.batch \/ Skipped(x, st, all, e) \/ ToCome(x, st, e)
ReplayOK(x, st, all) == Within(x, st) /\ InTurn(x, st) /\ Complete(x, st, all)
ReplayInv ==
  /\ ReplayTypes
  /\ replaysAll = FALSE => Different(stored)
  /\ \A r \in ReplayHandlers : ReplayOK(replay[r], stored, replaysAll)

(* What the fields of a replay hold. *)
LEMMA RowFields ==
  ASSUME NEW x \in ReplayRow
  PROVE  x.start \in Nat /\ x.from \in Nat /\ x.to \in Nat /\ x.jumps \subseteq Nat
         /\ x.handled \in Seq(Nat)
BY DEF ReplayRow

(* An event that is stored later changes none of it. *)
LEMMA ReplayKeeps ==
  ASSUME NEW x \in ReplayRow, NEW st \in Seq(Nat), NEW all, ReplayOK(x, st, all), NEW v \in Nat
  PROVE  ReplayOK(x, Append(st, v), all)
<1> DEFINE su == Append(st, v)
<1>1. Len(su) = Len(st) + 1 /\ Len(st) \in Nat /\ \A i \in 1..Len(st) : i \in 1..Len(su) /\ su[i] = st[i]
  OBVIOUS
<1> HIDE DEF su
<1>2. Within(x, st) /\ InTurn(x, st) /\ Complete(x, st, all)
  BY DEF ReplayOK
<1>3. Within(x, su)
  BY <1>1, <1>2 DEF Within
<1>4. InTurn(x, su)
  <2>1. \A b \in x.batch : su[b] = st[b]
    BY <1>1, <1>2 DEF Within
  <2>2. \A i \in 1..Len(x.handled) : su[x.handled[i]] = st[x.handled[i]]
    BY <1>1, <1>2 DEF Within
  <2>3. \A i \in 1..Len(x.handled), b \in x.batch : IsBefore(st, x.handled[i], b) => IsBefore(su, x.handled[i], b)
    BY <2>1, <2>2 DEF IsBefore
  <2>4. \A i, j \in 1..Len(x.handled) :
          IsBefore(st, x.handled[i], x.handled[j]) => IsBefore(su, x.handled[i], x.handled[j])
    BY <2>2 DEF IsBefore
  <2> QED BY <1>2, <2>1, <2>2, <2>3, <2>4 DEF InTurn
<1>5. Complete(x, su, all)
  <2> SUFFICES ASSUME NEW e \in 1..Len(su), WantedBy(x, su, e)
               PROVE  SeenBy(x, e) \/ e \in x.batch \/ Skipped(x, su, all, e) \/ ToCome(x, su, e)
    BY DEF Complete
  <2>1. e \in 1..Len(st)
    BY <1>2 DEF WantedBy, Within
  <2>2. su[e] = st[e] /\ WantedBy(x, st, e)
    BY <1>1, <2>1 DEF WantedBy
  <2>3. Skipped(x, st, all, e) => Skipped(x, su, all, e)
    BY <1>1, <2>2 DEF Skipped
  <2> QED BY <1>2, <2>1, <2>2, <2>3 DEF Complete, ToCome
<1> QED BY <1>3, <1>4, <1>5 DEF ReplayOK, su

(* A replay begins: everything it wants is to come, or behind the snapshot. *)
LEMMA BeginsOK ==
  ASSUME NEW st \in Seq(Nat), NEW all, NEW y \in ReplayRow,
         y.pc = "read", y.known = 1..Len(st), y.batch = {}, y.handled = << >>, y.failed = {},
         y.from <= y.start \/ \E last \in y.jumps : y.start = last + 1 /\ y.from = 10 * last + 1
  PROVE  ReplayOK(y, st, all)
<1>1. Len(y.handled) = 0 /\ Cardinality(y.batch) = 0 /\ IsFiniteSet(y.batch) /\ 0 <= BatchSize
  BY FS_EmptySet, ReadersAssumption
<1>2. Within(y, st) /\ InTurn(y, st)
  BY <1>1 DEF Within, InTurn
<1>3. Complete(y, st, all)
  <2> SUFFICES ASSUME NEW e \in 1..Len(st), st[e] >= y.start, st[e] < y.from PROVE Skipped(y, st, all, e)
    <3>1. y.from \in Nat
      BY RowFields
    <3>2. \A e \in 1..Len(st) : st[e] \in Nat
      OBVIOUS
    <3> QED BY <3>1, <3>2 DEF Complete, WantedBy, ToCome
  <2>0. st[e] \in Nat
    OBVIOUS
  <2>1. y.from \in Nat /\ y.start \in Nat /\ st[e] \in Nat /\ y.jumps \subseteq Nat
    BY <2>0, RowFields
  <2>2. PICK last \in y.jumps : y.start = last + 1 /\ y.from = 10 * last + 1
    BY <2>1
  <2>3. last < st[e] /\ st[e] < 10 * last + 1
    BY <2>1, <2>2
  <2> QED BY <2>3 DEF Skipped
<1> QED BY <1>2, <1>3 DEF ReplayOK

(* A batch is read: what is wanted and not in it has the number of its last
   event, or a later one. *)
LEMMA ReadsOK ==
  ASSUME NEW st \in Seq(Nat), NEW all \in BOOLEAN, all = FALSE => Different(st),
         NEW x \in ReplayRow, x.pc = "read", ReplayOK(x, st, all), NEW y \in ReplayRow,
         NEW last \in 1..Len(st), last \in y.batch,
         y.pc = "handle", y.start = x.start, y.from = 10 * st[last] + 1, y.to = x.to, y.known = x.known,
         y.more = TRUE, y.handled = x.handled, y.failed = x.failed, y.jumps = x.jumps \cup {st[last]},
         y.batch \subseteq 1..Len(st), IsFiniteSet(y.batch), Cardinality(y.batch) <= BatchSize,
         \A b \in y.batch : st[b] >= x.from /\ (b = last \/ IsBefore(st, b, last)),
         \A e \in 1..Len(st) : st[e] >= x.from /\ e \notin y.batch => IsBefore(st, last, e)
  PROVE  ReplayOK(y, st, all)
<1>1. Within(x, st) /\ InTurn(x, st) /\ Complete(x, st, all)
  BY DEF ReplayOK
<1>2. (\A e \in 1..Len(st) : st[e] \in Nat) /\ x.from \in Nat /\ x.batch = {} /\ x.jumps \subseteq Nat
  <2>1. \A e \in 1..Len(st) : st[e] \in Nat
    OBVIOUS
  <2>2. x.from \in Nat /\ x.jumps \subseteq Nat
    BY RowFields
  <2>3. x.batch = {}
    BY <1>1 DEF Within
  <2> QED BY <2>1, <2>2, <2>3
<1>3. Within(y, st)
  BY <1>1 DEF Within
<1>4. \A b \in y.batch : st[b] \in Nat /\ x.from <= st[b] /\ st[b] <= st[last] /\ st[b] < y.from
  <2> TAKE b \in y.batch
  <2>1. b \in 1..Len(st) /\ st[b] >= x.from /\ (b = last \/ IsBefore(st, b, last))
    OBVIOUS
  <2>2. st[b] \in Nat /\ st[last] \in Nat
    BY <1>2, <2>1
  <2>3. st[b] <= st[last]
    BY <2>1, <2>2 DEF IsBefore
  <2> QED BY <1>2, <2>1, <2>2, <2>3
<1>5. InTurn(y, st)
  <2>1. x.from <= st[last] /\ x.from < y.from
    BY <1>2
  <2>2. ASSUME NEW i \in 1..Len(x.handled)
        PROVE  /\ st[x.handled[i]] < y.from
               /\ \A b \in y.batch : IsBefore(st, x.handled[i], b)
    <3>1. x.handled[i] \in 1..Len(st) /\ st[x.handled[i]] < x.from
      BY <1>1 DEF Within, InTurn
    <3> DEFINE n == st[x.handled[i]]
    <3>2. n \in Nat /\ n < x.from
      BY <1>2, <3>1
    <3> HIDE DEF n
    <3>3. n < y.from
      BY <1>2, <2>1, <3>2
    <3>4. \A b \in y.batch : n < st[b]
      BY <1>2, <1>4, <3>2
    <3> QED BY <3>3, <3>4 DEF IsBefore, n
  <2> QED BY <1>1, <1>4, <2>2 DEF InTurn
<1>6. Complete(y, st, all)
  <2> SUFFICES ASSUME NEW e \in 1..Len(st), WantedBy(y, st, e), ~SeenBy(y, e), e \notin y.batch, st[e] < y.from
               PROVE  Skipped(y, st, all, e)
    BY <1>2 DEF Complete, ToCome
  <2>1. WantedBy(x, st, e) /\ ~SeenBy(x, e)
    BY DEF WantedBy, SeenBy
  <2>2. CASE Skipped(x, st, all, e)
    <3>1. PICK l \in x.jumps :
            \/ l < st[e] /\ st[e] < 10 * l + 1
            \/ all = TRUE /\ st[e] = l /\ \E d \in 1..Len(st) : st[d] = l /\ (SeenBy(x, d) \/ d \in x.batch)
      BY <2>2 DEF Skipped
    <3>2. \A d : SeenBy(x, d) \/ d \in x.batch => SeenBy(y, d)
      BY <1>2 DEF SeenBy
    <3> QED BY <3>1, <3>2 DEF Skipped
  <2>3. CASE ~Skipped(x, st, all, e)
    <3>1. st[e] >= x.from
      BY <1>1, <1>2, <2>1, <2>3 DEF Complete, ToCome
    <3>2. IsBefore(st, last, e)
      BY <3>1
    <3>3. CASE st[last] < st[e]
      BY <3>3 DEF Skipped
    <3>4. CASE st[last] = st[e] /\ last < e
      <4>1. all = TRUE
        <5>1. all = FALSE => last = e
          BY <3>4 DEF Different
        <5>2. last # e
          BY <3>4
        <5> QED BY <5>1, <5>2
      <4> QED BY <3>4, <4>1 DEF Skipped
    <3> QED BY <3>2, <3>3, <3>4 DEF IsBefore
  <2> QED BY <2>2, <2>3
<1> QED BY <1>3, <1>5, <1>6 DEF ReplayOK

(* There is nothing left to read. *)
LEMMA EndsOK ==
  ASSUME NEW st \in Seq(Nat), NEW all, NEW x \in ReplayRow, x.pc = "read", ReplayOK(x, st, all), NEW y \in ReplayRow,
         y = [x EXCEPT !.pc = "done"], \A e \in 1..Len(st) : ~(st[e] >= x.from)
  PROVE  ReplayOK(y, st, all)
<1>1. y.pc = "done" /\ y.start = x.start /\ y.from = x.from /\ y.to = x.to /\ y.known = x.known /\ y.batch = x.batch
      /\ y.more = x.more /\ y.handled = x.handled /\ y.failed = x.failed /\ y.jumps = x.jumps
  BY DEF ReplayRow
<1>2. Within(y, st) /\ InTurn(y, st)
  BY <1>1 DEF ReplayOK, Within, InTurn
<1>3. Complete(y, st, all)
  BY <1>1 DEF ReplayOK, Complete, ToCome, WantedBy, Skipped, SeenBy
<1> QED BY <1>2, <1>3 DEF ReplayOK

(* The batch is done with: the next is read, or the replay ends. *)
LEMMA NextBatchOK ==
  ASSUME NEW st \in Seq(Nat), NEW all, NEW x \in ReplayRow, x.pc = "handle", x.batch = {}, ReplayOK(x, st, all),
         NEW pc, pc = IF x.more THEN "read" ELSE "done", NEW y \in ReplayRow, y = [x EXCEPT !.pc = pc]
  PROVE  ReplayOK(y, st, all)
<1>0. (x.more = TRUE /\ pc = "read") \/ (x.more = FALSE /\ pc = "done")
  <2>1. x.more = TRUE \/ x.more = FALSE
    BY DEF ReplayRow
  <2>2. CASE x.more = TRUE
    BY <2>2
  <2>3. CASE x.more = FALSE
    BY <2>3
  <2> QED BY <2>1, <2>2, <2>3
<1>1. y.pc = pc /\ y.start = x.start /\ y.from = x.from /\ y.to = x.to /\ y.known = x.known /\ y.batch = x.batch
      /\ y.more = x.more /\ y.handled = x.handled /\ y.failed = x.failed /\ y.jumps = x.jumps
  BY DEF ReplayRow
<1>2. Within(y, st) /\ InTurn(y, st)
  BY <1>0, <1>1 DEF ReplayOK, Within, InTurn
<1>3. Complete(y, st, all)
  BY <1>0, <1>1 DEF ReplayOK, Complete, ToCome, WantedBy, Skipped, SeenBy
<1> QED BY <1>2, <1>3 DEF ReplayOK

(* An event beyond the goal ends the replay: what is left is beyond it too. *)
LEMMA BeyondOK ==
  ASSUME NEW st \in Seq(Nat), NEW all, NEW x \in ReplayRow, x.pc = "handle", ReplayOK(x, st, all),
         NEW e \in x.batch, \A b \in x.batch : b = e \/ IsBefore(st, e, b), x.to # 0, st[e] > x.to,
         NEW y \in ReplayRow, y = [x EXCEPT !.batch = {}, !.more = FALSE]
  PROVE  ReplayOK(y, st, all)
<1>1. y.pc = "handle" /\ y.start = x.start /\ y.from = x.from /\ y.to = x.to /\ y.known = x.known /\ y.batch = {}
      /\ y.more = FALSE /\ y.handled = x.handled /\ y.failed = x.failed /\ y.jumps = x.jumps
  BY DEF ReplayRow
<1>2. Within(x, st) /\ InTurn(x, st) /\ Complete(x, st, all)
  BY DEF ReplayOK
<1>3. e \in 1..Len(st) /\ (\A d \in 1..Len(st) : st[d] \in Nat) /\ x.to \in Nat /\ x.from \in Nat
  <2>1. \A d \in 1..Len(st) : st[d] \in Nat
    OBVIOUS
  <2>2. x.to \in Nat /\ x.from \in Nat
    BY RowFields
  <2>3. e \in 1..Len(st)
    BY <1>2 DEF Within
  <2> QED BY <2>1, <2>2, <2>3
<1>4. Cardinality(y.batch) = 0 /\ IsFiniteSet(y.batch) /\ 0 <= BatchSize
  BY <1>1, FS_EmptySet, ReadersAssumption
<1>5. Within(y, st) /\ InTurn(y, st)
  BY <1>1, <1>2, <1>4 DEF Within, InTurn
<1>6. ASSUME NEW b \in x.batch PROVE b \in 1..Len(st) /\ st[b] > x.to
  <2>1. b \in 1..Len(st)
    BY <1>2 DEF Within
  <2>2. st[b] \in Nat /\ st[e] \in Nat
    BY <1>3, <2>1
  <2>3. st[b] >= st[e]
    BY <2>2 DEF IsBefore
  <2> QED BY <1>3, <2>1, <2>2, <2>3
<1>7. x.from > x.to
  BY <1>2, <1>3 DEF InTurn
<1>8. Complete(y, st, all)
  <2> SUFFICES ASSUME NEW d \in 1..Len(st), WantedBy(y, st, d)
               PROVE  SeenBy(y, d) \/ Skipped(y, st, all, d)
    BY DEF Complete
  <2>1. WantedBy(x, st, d) /\ st[d] <= x.to
    BY <1>1 DEF WantedBy
  <2>2. d \notin x.batch /\ ~ToCome(x, st, d)
    BY <1>3, <1>6, <1>7, <2>1 DEF ToCome
  <2>3. SeenBy(x, d) \/ Skipped(x, st, all, d)
    BY <1>2, <2>1, <2>2 DEF Complete
  <2>4. \A f : SeenBy(x, f) => SeenBy(y, f)
    BY <1>1 DEF SeenBy
  <2>5. ASSUME Skipped(x, st, all, d) PROVE Skipped(y, st, all, d)
    <3>1. PICK l \in x.jumps :
            \/ l < st[d] /\ st[d] < 10 * l + 1
            \/ all = TRUE /\ st[d] = l /\ \E f \in 1..Len(st) : st[f] = l /\ (SeenBy(x, f) \/ f \in x.batch)
      BY <2>5 DEF Skipped
    <3>2. \A f \in 1..Len(st) : st[f] = st[d] => f \notin x.batch
      BY <1>3, <1>6, <2>1
    <3> QED BY <1>1, <2>4, <3>1, <3>2 DEF Skipped
  <2> QED BY <2>3, <2>4, <2>5
<1> QED BY <1>5, <1>8 DEF ReplayOK

(* The first event of the batch is handled, or its handler throws. *)
LEMMA HandlesOK ==
  ASSUME NEW st \in Seq(Nat), NEW all, NEW x \in ReplayRow, x.pc = "handle", ReplayOK(x, st, all),
         NEW e \in x.batch, \A b \in x.batch : b = e \/ IsBefore(st, e, b), ~(x.to # 0 /\ st[e] > x.to),
         NEW y \in ReplayRow,
         \/ y = [x EXCEPT !.batch = x.batch \ {e}, !.handled = Append(x.handled, e)]
         \/ y = [x EXCEPT !.batch = x.batch \ {e}, !.failed = x.failed \cup {e}]
  PROVE  ReplayOK(y, st, all)
<1>1. y.pc = "handle" /\ y.start = x.start /\ y.from = x.from /\ y.to = x.to /\ y.known = x.known
      /\ y.batch = x.batch \ {e} /\ y.more = x.more /\ y.jumps = x.jumps
      /\ \/ y.handled = Append(x.handled, e) /\ y.failed = x.failed
         \/ y.handled = x.handled /\ y.failed = x.failed \cup {e}
  BY DEF ReplayRow
<1>2. Within(x, st) /\ InTurn(x, st) /\ Complete(x, st, all)
  BY DEF ReplayOK
<1>3. e \in 1..Len(st) /\ (\A d \in 1..Len(st) : st[d] \in Nat) /\ x.to \in Nat /\ x.from \in Nat
      /\ x.handled \in Seq(Nat) /\ e \in Nat
  <2>1. \A d \in 1..Len(st) : st[d] \in Nat
    OBVIOUS
  <2>2. x.to \in Nat /\ x.from \in Nat /\ x.handled \in Seq(Nat)
    BY RowFields
  <2>3. e \in 1..Len(st) /\ e \in Nat
    BY <1>2 DEF Within
  <2> QED BY <2>1, <2>2, <2>3
<1>4. IsFiniteSet(y.batch) /\ Cardinality(y.batch) <= BatchSize
  <2>1. y.batch \in SUBSET x.batch /\ IsFiniteSet(x.batch) /\ Cardinality(x.batch) <= BatchSize
    BY <1>1, <1>2 DEF Within
  <2>2. IsFiniteSet(y.batch) /\ Cardinality(y.batch) <= Cardinality(x.batch)
    BY <2>1, FS_Subset
  <2>3. Cardinality(y.batch) \in Nat /\ Cardinality(x.batch) \in Nat /\ BatchSize \in Nat
    BY <2>1, <2>2, FS_CardinalityType, ReadersAssumption
  <2> QED BY <2>1, <2>2, <2>3
<1>5. CASE y.handled = Append(x.handled, e) /\ y.failed = x.failed
  <2>1. Len(y.handled) = Len(x.handled) + 1 /\ y.handled[Len(x.handled) + 1] = e /\ Len(x.handled) \in Nat
        /\ \A i \in 1..Len(x.handled) : i \in 1..Len(y.handled) /\ y.handled[i] = x.handled[i]
    BY <1>3, <1>5
  <2>2. \A i \in 1..Len(y.handled) : i \in 1..Len(x.handled) \/ i = Len(x.handled) + 1
    BY <2>1
  <2>3. Within(y, st)
    BY <1>1, <1>2, <1>3, <1>4, <1>5, <2>1, <2>2 DEF Within
  <2>4. InTurn(y, st)
    <3>1. ASSUME NEW i \in 1..Len(x.handled)
          PROVE  /\ st[y.handled[i]] < x.from
                 /\ x.to # 0 => st[y.handled[i]] <= x.to
                 /\ \A b \in x.batch : IsBefore(st, y.handled[i], b)
                 /\ \A j \in 1..Len(y.handled) : i < j => IsBefore(st, y.handled[i], y.handled[j])
      BY <1>2, <2>1, <2>2 DEF InTurn
    <3>2. st[e] < x.from /\ (x.to # 0 => st[e] <= x.to) /\ \A b \in y.batch : IsBefore(st, e, b)
      BY <1>1, <1>2, <1>3 DEF InTurn
    <3>3. ASSUME NEW i \in 1..Len(y.handled)
          PROVE  /\ st[y.handled[i]] < y.from
                 /\ y.to # 0 => st[y.handled[i]] <= y.to
                 /\ \A b \in y.batch : IsBefore(st, y.handled[i], b)
                 /\ \A j \in 1..Len(y.handled) : i < j => IsBefore(st, y.handled[i], y.handled[j])
      <4>1. CASE i \in 1..Len(x.handled)
        BY <1>1, <3>1, <4>1
      <4>2. CASE i = Len(x.handled) + 1
        <5>1. \A j \in 1..Len(y.handled) : ~(i < j)
          BY <2>1, <4>2
        <5> QED BY <1>1, <2>1, <3>2, <4>2, <5>1
      <4> QED BY <2>2, <4>1, <4>2
    <3>4. \A b \in y.batch : st[b] < y.from
      BY <1>1, <1>2 DEF InTurn
    <3> QED BY <3>3, <3>4 DEF InTurn
  <2>5. \A d : SeenBy(x, d) \/ d = e => SeenBy(y, d)
    <3>1. ASSUME NEW d, NEW i \in 1..Len(x.handled), x.handled[i] = d PROVE SeenBy(y, d)
      <4>1. i \in 1..Len(y.handled) /\ y.handled[i] = d
        BY <2>1, <3>1
      <4> QED BY <4>1 DEF SeenBy
    <3>2. Len(x.handled) + 1 \in 1..Len(y.handled)
      BY <2>1
    <3>3. SeenBy(y, e)
      BY <2>1, <3>2 DEF SeenBy
    <3>4. ASSUME NEW d \in x.failed PROVE SeenBy(y, d)
      BY <1>5 DEF SeenBy
    <3> QED BY <3>1, <3>3, <3>4 DEF SeenBy
  <2>6. Complete(y, st, all)
    BY <1>1, <1>2, <2>5 DEF Complete, ToCome, WantedBy, Skipped
  <2> QED BY <2>3, <2>4, <2>6 DEF ReplayOK
<1>6. CASE y.handled = x.handled /\ y.failed = x.failed \cup {e}
  <2>1. Within(y, st) /\ InTurn(y, st)
    BY <1>1, <1>2, <1>3, <1>4, <1>6 DEF Within, InTurn
  <2>2. \A d : SeenBy(x, d) \/ d = e => SeenBy(y, d)
    BY <1>6 DEF SeenBy
  <2>3. Complete(y, st, all)
    BY <1>1, <1>2, <2>2 DEF Complete, ToCome, WantedBy, Skipped
  <2> QED BY <2>1, <2>3 DEF ReplayOK
<1> QED BY <1>1, <1>5, <1>6

(* The model's order is this one. *)
LEMMA SameBefore == ASSUME NEW d, NEW e PROVE R!Before(d, e) <=> IsBefore(stored, d, e)
BY DEF R!Before, IsBefore

(* Versions and positions are numbers. *)
LEMMA NumbersAreNat == ASSUME NEW s \in Seq(R!Numbers) PROVE s \in Seq(Nat)
<1>1. Len(s) \in Nat /\ s \in [1..Len(s) -> R!Numbers]
  OBVIOUS
<1>2. s \in [1..Len(s) -> Nat]
  BY <1>1 DEF R!Numbers
<1> QED BY <1>1, <1>2, SeqDef

(* No replay runs at first. *)
LEMMA ReplayInit == R!Init => ReplayInv
<1> SUFFICES ASSUME R!Init PROVE ReplayInv
  OBVIOUS
<1>1. replaysAll \in BOOLEAN /\ stored = << >> /\ snapshot = 0
      /\ \A r \in ReplayHandlers : replay[r] = R!NoReplay
  BY DEF R!Init
<1>2. R!NoReplay \in ReplayRow /\ R!NoReplay.pc = "idle" /\ R!NoReplay.known = {} /\ R!NoReplay.batch = {}
      /\ R!NoReplay.handled = << >> /\ R!NoReplay.failed = {}
  BY DEF R!NoReplay, ReplayRow
<1>3. replay \in [ReplayHandlers -> ReplayRow]
  BY <1>2 DEF R!Init
<1>4. ReplayTypes
  BY <1>1, <1>3 DEF ReplayTypes, R!Goals
<1>5. Len(stored) = 0 /\ Different(stored)
  BY <1>1 DEF Different
<1>6. ASSUME NEW x, x = R!NoReplay PROVE ReplayOK(x, stored, replaysAll)
  <2>0. x.handled = << >> /\ x.batch = {}
    BY <1>2, <1>6
  <2>1. Len(x.handled) = 0 /\ Cardinality(x.batch) = 0 /\ IsFiniteSet(x.batch) /\ 0 <= BatchSize
    BY <2>0, FS_EmptySet, ReadersAssumption
  <2>2. Within(x, stored) /\ InTurn(x, stored)
    BY <1>2, <1>6, <2>1 DEF Within, InTurn
  <2>3. Complete(x, stored, replaysAll)
    BY <1>5 DEF Complete
  <2> QED BY <2>2, <2>3 DEF ReplayOK
<1> QED BY <1>1, <1>4, <1>5, <1>6 DEF ReplayInv

(* One replay makes a step that keeps its own invariant. *)
LEMMA ReplayMoves ==
  ASSUME ReplayInv, NEW r \in ReplayHandlers, NEW y \in ReplayRow, ReplayOK(y, stored, replaysAll),
         replay' = [replay EXCEPT ![r] = y], UNCHANGED <<replaysAll, stored, snapshot>>
  PROVE  ReplayInv'
<1>1. replay' \in [ReplayHandlers -> ReplayRow] /\ replay'[r] = y
      /\ \A s \in ReplayHandlers : s # r => replay'[s] = replay[s]
  BY DEF ReplayInv, ReplayTypes
<1>2. ReplayTypes'
  BY <1>1 DEF ReplayInv, ReplayTypes, R!Goals, R!Numbers
<1>3. ASSUME NEW s \in ReplayHandlers PROVE ReplayOK(replay'[s], stored, replaysAll)
  BY <1>1 DEF ReplayInv
<1> QED BY <1>2, <1>3 DEF ReplayInv

(* An event is stored. *)
LEMMA ReplayStores ==
  ASSUME ReplayInv, NEW v \in R!Numbers, stored' = Append(stored, v), UNCHANGED <<replaysAll, snapshot, replay>>,
         replaysAll = FALSE => \A i \in 1..Len(stored) : stored[i] # v
  PROVE  ReplayInv'
<1>0. stored \in Seq(R!Numbers) /\ R!Numbers \subseteq Nat /\ (replaysAll = FALSE => Different(stored))
      /\ \A n \in R!Numbers : n >= 1
  BY DEF ReplayInv, ReplayTypes, R!Numbers
<1>1. stored \in Seq(Nat) /\ v \in Nat /\ v >= 1
  BY <1>0, NumbersAreNat
<1>2. Len(stored') = Len(stored) + 1 /\ stored'[Len(stored) + 1] = v /\ Len(stored) \in Nat
      /\ \A i \in 1..Len(stored) : stored'[i] = stored[i]
  BY <1>1
<1>3. stored' \in Seq(R!Numbers)
  BY <1>0
<1>4. ReplayTypes'
  BY <1>3 DEF ReplayInv, ReplayTypes, R!Goals, R!Numbers
<1>5. ASSUME replaysAll = FALSE PROVE Different(stored')
  <2>1. \A i \in 1..Len(stored') : i \in 1..Len(stored) \/ i = Len(stored) + 1
    BY <1>2
  <2>2. Different(stored) /\ \A i \in 1..Len(stored) : stored[i] # v
    BY <1>0, <1>5
  <2> QED BY <1>2, <2>1, <2>2 DEF Different
<1>6. ASSUME NEW r \in ReplayHandlers PROVE ReplayOK(replay'[r], stored', replaysAll')
  <2>1. replay[r] \in ReplayRow /\ ReplayOK(replay[r], stored, replaysAll)
    BY DEF ReplayInv, ReplayTypes
  <2> QED BY <1>1, <2>1, ReplayKeeps
<1> QED BY <1>4, <1>5, <1>6 DEF ReplayInv

(* What a replay may read: the events from a number on. *)
LEMMA ReadAre ==
  ASSUME stored \in Seq(Nat), NEW from \in Nat
  PROVE  LET batch == R!ReadEvents(from, BatchSize) IN
           /\ batch \subseteq 1..Len(stored) /\ IsFiniteSet(batch) /\ Cardinality(batch) <= BatchSize
           /\ \A b \in batch : stored[b] >= from
           /\ batch = {} => \A e \in 1..Len(stored) : ~(stored[e] >= from)
           /\ \A b \in batch, e \in 1..Len(stored) : stored[e] >= from /\ e \notin batch => R!Before(b, e)
<1> DEFINE events == {e \in R!Events : stored[e] >= from}
           batch == R!ReadEvents(from, BatchSize)
<1>1. R!Events = 1..Len(stored)
  BY DEF R!Events
<1>2. events \in SUBSET (1..Len(stored)) /\ (\A e \in 1..Len(stored) : e \in events <=> stored[e] >= from)
  BY <1>1
<1>3. batch = R!Leading(events, BatchSize)
  BY DEF R!ReadEvents
<1>4. BatchSize \in Nat /\ BatchSize > 0
  BY ReadersAssumption
<1> HIDE DEF events, batch
<1>5. /\ batch \subseteq events /\ IsFiniteSet(batch) /\ Cardinality(batch) <= BatchSize
      /\ events # {} => batch # {}
      /\ \A d \in batch, e \in events \ batch : R!Before(d, e)
  BY <1>2, <1>3, <1>4, LeadingAre
<1>6. (\A b \in batch : stored[b] >= from) /\ batch \subseteq 1..Len(stored)
  BY <1>2, <1>5
<1>7. batch = {} => \A e \in 1..Len(stored) : ~(stored[e] >= from)
  BY <1>2, <1>5
<1>8. \A b \in batch, e \in 1..Len(stored) : stored[e] >= from /\ e \notin batch => R!Before(b, e)
  BY <1>2, <1>5
<1> QED BY <1>5, <1>6, <1>7, <1>8 DEF batch

(* A batch is read, or there is none. *)
LEMMA ReadBatchKeeps == ASSUME ReplayInv, NEW r \in ReplayHandlers, R!ReadBatch(r) PROVE ReplayInv'
<1> DEFINE x == replay[r]
           batch == R!ReadEvents(replay[r].from, BatchSize)
<1>1. x \in ReplayRow /\ ReplayOK(x, stored, replaysAll) /\ x.pc = "read" /\ stored \in Seq(Nat)
  BY NumbersAreNat DEF ReplayInv, ReplayTypes, R!ReadBatch
<1>2. x.from \in Nat /\ x.jumps \subseteq Nat /\ \A e \in 1..Len(stored) : stored[e] \in Nat
  BY <1>1 DEF ReplayRow
<1>3. /\ batch \subseteq 1..Len(stored) /\ IsFiniteSet(batch) /\ Cardinality(batch) <= BatchSize
      /\ \A b \in batch : stored[b] >= x.from
      /\ batch = {} => \A e \in 1..Len(stored) : ~(stored[e] >= x.from)
      /\ \A b \in batch, e \in 1..Len(stored) : stored[e] >= x.from /\ e \notin batch => R!Before(b, e)
  BY <1>1, <1>2, ReadAre
<1>4. /\ UNCHANGED <<replaysAll, stored, snapshot>>
      /\ \/ batch = {} /\ replay' = [replay EXCEPT ![r].pc = "done"]
         \/ \E last \in batch :
              /\ R!IsLast(last, batch)
              /\ replay' = [replay EXCEPT ![r].pc = "handle", ![r].batch = batch, ![r].more = TRUE,
                                          ![r].from = R!NextFrom(stored[last]),
                                          ![r].jumps = @ \cup {stored[last]}]
  BY DEF R!ReadBatch
<1>5. replay \in [ReplayHandlers -> ReplayRow] /\ replaysAll \in BOOLEAN /\ (replaysAll = FALSE => Different(stored))
  BY DEF ReplayInv, ReplayTypes
<1> HIDE DEF batch
<1>6. ASSUME batch = {}, replay' = [replay EXCEPT ![r].pc = "done"] PROVE ReplayInv'
  <2> DEFINE y == [x EXCEPT !.pc = "done"]
  <2>1. y \in ReplayRow
    BY <1>1 DEF ReplayRow
  <2>2. replay' = [replay EXCEPT ![r] = y]
    BY <1>5, <1>6
  <2> HIDE DEF x
  <2>3. ReplayOK(y, stored, replaysAll)
    BY <1>1, <1>3, <1>6, <2>1, EndsOK
  <2> QED BY <1>4, <2>1, <2>2, <2>3, ReplayMoves
<1>7. ASSUME NEW last \in batch, R!IsLast(last, batch),
             replay' = [replay EXCEPT ![r].pc = "handle", ![r].batch = batch, ![r].more = TRUE,
                                      ![r].from = R!NextFrom(stored[last]),
                                      ![r].jumps = @ \cup {stored[last]}]
      PROVE  ReplayInv'
  <2> DEFINE y == [x EXCEPT !.pc = "handle", !.batch = batch, !.more = TRUE,
                            !.from = R!NextFrom(stored[last]), !.jumps = x.jumps \cup {stored[last]}]
  <2>1. last \in 1..Len(stored) /\ stored[last] \in Nat /\ R!NextFrom(stored[last]) = 10 * stored[last] + 1
    BY <1>2, <1>3, <1>7 DEF R!NextFrom
  <2>2. 10 * stored[last] + 1 \in Nat /\ batch \in SUBSET Nat /\ x.jumps \cup {stored[last]} \in SUBSET Nat
    BY <1>2, <1>3, <2>1
  <2>3. y \in ReplayRow
    BY <1>1, <2>1, <2>2 DEF ReplayRow
  <2>4. /\ y.pc = "handle" /\ y.start = x.start /\ y.from = 10 * stored[last] + 1 /\ y.to = x.to /\ y.known = x.known
        /\ y.batch = batch /\ y.more = TRUE /\ y.handled = x.handled /\ y.failed = x.failed
        /\ y.jumps = x.jumps \cup {stored[last]}
    BY <1>1, <2>1 DEF ReplayRow
  <2>5. replay' = [replay EXCEPT ![r] = y]
    BY <1>5, <1>7
  <2> HIDE DEF x, y
  <2>6. \A b \in batch : b = last \/ IsBefore(stored, b, last)
    BY <1>7, SameBefore DEF R!IsLast
  <2>7. \A e \in 1..Len(stored) : stored[e] >= x.from /\ e \notin batch => IsBefore(stored, last, e)
    BY <1>3, <1>7, SameBefore
  <2>8. ReplayOK(y, stored, replaysAll)
    BY <1>1, <1>3, <1>5, <1>7, <2>1, <2>3, <2>4, <2>6, <2>7, ReadsOK
  <2> QED BY <1>4, <2>3, <2>5, <2>8, ReplayMoves
<1> QED BY <1>4, <1>6, <1>7

(* An event is handled, or is beyond the goal. *)
LEMMA HandleEventKeeps == ASSUME ReplayInv, NEW r \in ReplayHandlers, R!HandleEvent(r) PROVE ReplayInv'
<1> DEFINE x == replay[r]
<1>1. x \in ReplayRow /\ ReplayOK(x, stored, replaysAll) /\ x.pc = "handle" /\ stored \in Seq(Nat)
  BY NumbersAreNat DEF ReplayInv, ReplayTypes, R!HandleEvent
<1>2. replay \in [ReplayHandlers -> ReplayRow] /\ UNCHANGED <<replaysAll, stored, snapshot>>
  BY DEF ReplayInv, ReplayTypes, R!HandleEvent
<1>3. PICK e \in x.batch :
       /\ R!IsFirst(e, x.batch)
       /\ \/ /\ R!Beyond(r, e)
             /\ replay' = [replay EXCEPT ![r].batch = {}, ![r].more = FALSE]
          \/ /\ ~R!Beyond(r, e)
             /\ \/ replay' = [replay EXCEPT ![r].batch = @ \ {e}, ![r].handled = Append(@, e)]
                \/ replay' = [replay EXCEPT ![r].batch = @ \ {e}, ![r].failed = @ \cup {e}]
  BY DEF R!HandleEvent
<1>4. (\A b \in x.batch : b = e \/ IsBefore(stored, e, b)) /\ e \in Nat
  BY <1>1, <1>3, SameBefore DEF R!IsFirst, ReplayRow
<1>5. R!Beyond(r, e) <=> (x.to # 0 /\ stored[e] > x.to)
  BY DEF R!Beyond
<1>6. ASSUME R!Beyond(r, e), replay' = [replay EXCEPT ![r].batch = {}, ![r].more = FALSE] PROVE ReplayInv'
  <2> DEFINE y == [x EXCEPT !.batch = {}, !.more = FALSE]
  <2>1. y \in ReplayRow
    BY <1>1 DEF ReplayRow
  <2>2. replay' = [replay EXCEPT ![r] = y]
    BY <1>2, <1>6
  <2> HIDE DEF x
  <2>3. ReplayOK(y, stored, replaysAll)
    BY <1>1, <1>4, <1>5, <1>6, <2>1, BeyondOK
  <2> QED BY <1>2, <2>1, <2>2, <2>3, ReplayMoves
<1>7. ASSUME ~R!Beyond(r, e), replay' = [replay EXCEPT ![r].batch = @ \ {e}, ![r].handled = Append(@, e)]
      PROVE  ReplayInv'
  <2> DEFINE y == [x EXCEPT !.batch = x.batch \ {e}, !.handled = Append(x.handled, e)]
  <2>0. Append(x.handled, e) \in Seq(Nat)
    <3>1. x.handled \in Seq(Nat)
      BY <1>1 DEF ReplayRow
    <3> QED BY <1>4, <3>1
  <2>1. y \in ReplayRow
    BY <1>1, <1>4, <2>0 DEF ReplayRow
  <2>2. replay' = [replay EXCEPT ![r] = y]
    BY <1>2, <1>7
  <2> HIDE DEF x
  <2>3. ReplayOK(y, stored, replaysAll)
    BY <1>1, <1>4, <1>5, <1>7, <2>1, HandlesOK
  <2> QED BY <1>2, <2>1, <2>2, <2>3, ReplayMoves
<1>8. ASSUME ~R!Beyond(r, e), replay' = [replay EXCEPT ![r].batch = @ \ {e}, ![r].failed = @ \cup {e}]
      PROVE  ReplayInv'
  <2> DEFINE y == [x EXCEPT !.batch = x.batch \ {e}, !.failed = x.failed \cup {e}]
  <2>1. y \in ReplayRow
    BY <1>1, <1>4 DEF ReplayRow
  <2>2. replay' = [replay EXCEPT ![r] = y]
    BY <1>2, <1>8
  <2> HIDE DEF x
  <2>3. ReplayOK(y, stored, replaysAll)
    BY <1>1, <1>4, <1>5, <1>8, <2>1, HandlesOK
  <2> QED BY <1>2, <2>1, <2>2, <2>3, ReplayMoves
<1> QED BY <1>3, <1>6, <1>7, <1>8

(* A batch is done with. *)
LEMMA NextBatchKeeps == ASSUME ReplayInv, NEW r \in ReplayHandlers, R!NextBatch(r) PROVE ReplayInv'
<1> DEFINE x == replay[r]
           pc == IF x.more THEN "read" ELSE "done"
           y == [x EXCEPT !.pc = pc]
<1>1. x \in ReplayRow /\ ReplayOK(x, stored, replaysAll) /\ x.pc = "handle" /\ x.batch = {} /\ stored \in Seq(Nat)
  BY NumbersAreNat DEF ReplayInv, ReplayTypes, R!NextBatch
<1>2. replay \in [ReplayHandlers -> ReplayRow] /\ UNCHANGED <<replaysAll, stored, snapshot>>
      /\ replay' = [replay EXCEPT ![r].pc = pc]
  BY DEF ReplayInv, ReplayTypes, R!NextBatch
<1>3. pc = IF x.more THEN "read" ELSE "done"
  OBVIOUS
<1>4. pc \in {"read", "done"}
  BY <1>3
<1> HIDE DEF pc
<1>5. y \in ReplayRow
  BY <1>1, <1>4 DEF ReplayRow
<1>6. replay' = [replay EXCEPT ![r] = y]
  BY <1>2
<1> HIDE DEF x
<1>7. ReplayOK(y, stored, replaysAll)
  BY <1>1, <1>3, <1>5, NextBatchOK
<1> QED BY <1>2, <1>5, <1>6, <1>7, ReplayMoves

(* A replay that has not begun. *)
LEMMA NoReplayIs ==
  /\ R!NoReplay \in ReplayRow /\ R!NoReplay.batch = {} /\ R!NoReplay.handled = << >> /\ R!NoReplay.failed = {}
BY DEF R!NoReplay, ReplayRow

(* A replay begins at a number ... *)
LEMMA BeginReplayKeeps ==
  ASSUME ReplayInv, NEW r \in ReplayHandlers, NEW from \in Nat, NEW to \in Nat, R!BeginReplay(r, from, to)
  PROVE  ReplayInv'
<1> DEFINE y == [R!NoReplay EXCEPT !.pc = "read", !.start = from, !.from = from, !.to = to, !.known = R!Events]
<1>1. stored \in Seq(Nat) /\ R!Events = 1..Len(stored) /\ Len(stored) \in Nat
  <2>1. stored \in Seq(Nat)
    BY NumbersAreNat DEF ReplayInv, ReplayTypes
  <2> QED BY <2>1 DEF R!Events
<1>2. R!Events \in SUBSET Nat
  BY <1>1
<1>3. /\ y \in ReplayRow /\ y.pc = "read" /\ y.known = R!Events /\ y.batch = {} /\ y.handled = << >> /\ y.failed = {}
      /\ y.from = from /\ y.start = from
  BY <1>2, NoReplayIs DEF ReplayRow
<1>4. replay' = [replay EXCEPT ![r] = y] /\ UNCHANGED <<replaysAll, stored, snapshot>>
  BY DEF R!BeginReplay
<1> HIDE DEF y
<1>5. y.known = 1..Len(stored) /\ y.from <= y.start
  BY <1>1, <1>3
<1>6. ReplayOK(y, stored, replaysAll)
  BY <1>1, <1>3, <1>5, BeginsOK
<1> QED BY <1>3, <1>4, <1>6, ReplayMoves

(* ... or behind the snapshot. *)
LEMMA FromSnapshotKeeps ==
  ASSUME ReplayInv, NEW r \in ReplayHandlers, NEW to \in Nat, R!ReplayFromSnapshot(r, to)
  PROVE  ReplayInv'
<1> DEFINE y == [R!NoReplay EXCEPT !.pc = "read", !.start = snapshot + 1, !.from = R!NextFrom(snapshot),
                        !.to = to, !.known = R!Events, !.jumps = {snapshot}]
<1>1. stored \in Seq(Nat) /\ R!Events = 1..Len(stored) /\ Len(stored) \in Nat
  <2>1. stored \in Seq(Nat)
    BY NumbersAreNat DEF ReplayInv, ReplayTypes
  <2> QED BY <2>1 DEF R!Events
<1>2. R!Events \in SUBSET Nat
  BY <1>1
<1>3. snapshot \in Nat /\ snapshot + 1 \in Nat /\ R!NextFrom(snapshot) \in Nat /\ {snapshot} \in SUBSET Nat
      /\ R!NextFrom(snapshot) = 10 * snapshot + 1
  <2>1. snapshot \in Nat
    BY DEF ReplayInv, ReplayTypes, R!Goals, R!Numbers
  <2> QED BY <2>1 DEF R!NextFrom
<1>4. /\ y \in ReplayRow /\ y.pc = "read" /\ y.known = R!Events /\ y.batch = {} /\ y.handled = << >> /\ y.failed = {}
      /\ y.from = R!NextFrom(snapshot) /\ y.start = snapshot + 1 /\ y.jumps = {snapshot}
  BY <1>2, <1>3, NoReplayIs DEF ReplayRow
<1>5. replay' = [replay EXCEPT ![r] = y] /\ UNCHANGED <<replaysAll, stored, snapshot>>
  BY DEF R!ReplayFromSnapshot
<1> HIDE DEF y
<1>6. y.known = 1..Len(stored) /\ \E last \in y.jumps : y.start = last + 1 /\ y.from = 10 * last + 1
  BY <1>1, <1>3, <1>4
<1>7. ReplayOK(y, stored, replaysAll)
  BY <1>1, <1>4, <1>6, BeginsOK
<1> QED BY <1>4, <1>5, <1>7, ReplayMoves

(* An event is appended to the stream, or to the store. *)
LEMMA AppendKeeps == ASSUME ReplayInv, R!AppendVersion \/ R!AppendPosition PROVE ReplayInv'
<1>0. replaysAll \in BOOLEAN
  BY DEF ReplayInv, ReplayTypes
<1>1. ASSUME R!AppendVersion PROVE ReplayInv'
  <2>1. replaysAll = FALSE /\ UNCHANGED <<replaysAll, snapshot, replay>>
    BY <1>0, <1>1 DEF R!AppendVersion
  <2>2. R!NumbersOf(R!Events) = {stored[e] : e \in 1..Len(stored)} /\ stored \in Seq(R!Numbers)
    BY DEF R!NumbersOf, R!Events, ReplayInv, ReplayTypes
  <2>3. PICK version \in ({1} \cup UNION {{v + 1, R!NextFrom(v)} : v \in R!NumbersOf(R!Events)})
                          \ R!NumbersOf(R!Events) :
          version <= MaxVersion /\ stored' = Append(stored, version)
    BY <1>1 DEF R!AppendVersion
  <2>4. \A v \in R!NumbersOf(R!Events) : v \in Nat /\ v + 1 \in Nat /\ R!NextFrom(v) \in Nat
                                         /\ v + 1 >= 1 /\ R!NextFrom(v) >= 1
    <3>1. \A v \in R!Numbers : v \in Nat
      BY DEF R!Numbers
    <3>2. \A v \in R!NumbersOf(R!Events) : v \in Nat
      BY <2>2, <3>1
    <3> QED BY <3>2 DEF R!NextFrom
  <2>5. version \in R!Numbers
    <3>1. version = 1 \/ \E v \in R!NumbersOf(R!Events) : version = v + 1 \/ version = R!NextFrom(v)
      BY <2>3
    <3>2. version \in Nat /\ version >= 1
      BY <2>4, <3>1
    <3> QED BY <2>3, <3>2, ReadersAssumption DEF R!Numbers
  <2>6. \A i \in 1..Len(stored) : stored[i] # version
    BY <2>2, <2>3
  <2> QED BY <2>1, <2>3, <2>5, <2>6, ReplayStores
<1>2. ASSUME R!AppendPosition PROVE ReplayInv'
  <2>1. replaysAll = TRUE /\ UNCHANGED <<replaysAll, snapshot, replay>>
    BY <1>0, <1>2 DEF R!AppendPosition
  <2>2. PICK n \in R!Numbers : stored' = Append(stored, n)
    BY <1>2, ReadersAssumption DEF R!AppendPosition, R!Numbers
  <2> QED BY <2>1, <2>2, ReplayStores
<1> QED BY <1>1, <1>2

(* A snapshot changes no replay that runs. *)
LEMMA SnapshotKeeps ==
  ASSUME ReplayInv, (\E version \in R!Numbers : R!CreateSnapshot(version)) \/ R!DeleteSnapshot
  PROVE  ReplayInv'
<1>1. snapshot' \in R!Goals /\ UNCHANGED <<replaysAll, stored, replay>>
  BY DEF R!CreateSnapshot, R!DeleteSnapshot, R!Goals
<1>2. ReplayTypes'
  BY <1>1 DEF ReplayInv, ReplayTypes, R!Goals, R!Numbers
<1> QED BY <1>1, <1>2 DEF ReplayInv

(* Every step of the replays keeps it ... *)
LEMMA ReplayNext == ReplayInv /\ R!Next => ReplayInv'
<1> SUFFICES ASSUME ReplayInv, R!Next PROVE ReplayInv'
  OBVIOUS
<1>1. CASE R!AppendVersion \/ R!AppendPosition
  BY <1>1, AppendKeeps
<1>2. CASE R!DeleteSnapshot \/ \E version \in R!Numbers : R!CreateSnapshot(version)
  BY <1>2, SnapshotKeeps
<1>3. ASSUME NEW r \in ReplayHandlers, R!ReplayStream(r) \/ R!ReplayAll(r) PROVE ReplayInv'
  <2>1. \/ \E from \in {0, 1, 2}, to \in {0, 2, 21} : R!BeginReplay(r, from, to)
        \/ R!ReadBatch(r) \/ R!HandleEvent(r) \/ R!NextBatch(r)
    BY <1>3 DEF R!ReplayStream, R!ReplayAll
  <2>2. ASSUME NEW from \in {0, 1, 2}, NEW to \in {0, 2, 21}, R!BeginReplay(r, from, to) PROVE ReplayInv'
    <3>1. from \in Nat /\ to \in Nat
      OBVIOUS
    <3> QED BY <2>2, <3>1, BeginReplayKeeps
  <2> QED BY <2>1, <2>2, ReadBatchKeeps, HandleEventKeeps, NextBatchKeeps
<1>4. ASSUME NEW r \in ReplayHandlers, NEW to \in {0, 21}, R!ReplayFromSnapshot(r, to) PROVE ReplayInv'
  <2>1. to \in Nat
    OBVIOUS
  <2> QED BY <1>4, <2>1, FromSnapshotKeeps
<1> QED BY <1>1, <1>2, <1>3, <1>4 DEF R!Next

(* ... and so does every other one. *)
LEMMA ReplayRests == ReplayInv /\ UNCHANGED ofReplay => ReplayInv'
BY DEF ReplayInv, ReplayTypes, R!Goals, R!Numbers, ofReplay

(* The invariant says what the replays promise. *)
LEMMA ReplayTypesTell == ReplayInv => R!TypeOK
<1> SUFFICES ASSUME ReplayInv PROVE R!TypeOK
  OBVIOUS
<1>1. stored \in Seq(R!Numbers) /\ snapshot \in R!Goals /\ R!Events = 1..Len(stored)
  BY DEF ReplayInv, ReplayTypes, R!Events
<1>2. R!NumbersOf(R!Events) \subseteq R!Numbers
  <2>1. \A e \in 1..Len(stored) : stored[e] \in R!Numbers
    BY <1>1
  <2> QED BY <1>1, <2>1 DEF R!NumbersOf
<1>3. ASSUME NEW r \in ReplayHandlers
      PROVE  /\ replay[r].pc \in {"idle", "read", "handle", "done"}
             /\ replay[r].batch \cup R!ToSet(replay[r].handled) \cup replay[r].failed \subseteq R!Events
             /\ R!Cardinality(replay[r].batch) <= BatchSize
  <2>1. replay[r] \in ReplayRow /\ Within(replay[r], stored)
    BY DEF ReplayInv, ReplayTypes, ReplayOK
  <2>2. replay[r].batch \cup replay[r].failed \subseteq R!Events /\ R!Cardinality(replay[r].batch) <= BatchSize
    BY <1>1, <2>1, SameCardinality DEF Within
  <2>3. R!ToSet(replay[r].handled) \subseteq R!Events
    <3>1. DOMAIN replay[r].handled = 1..Len(replay[r].handled)
      BY <2>1 DEF ReplayRow
    <3> QED BY <1>1, <2>1, <3>1 DEF Within, R!ToSet
  <2>4. replay[r].pc \in {"idle", "read", "handle", "done"}
    BY <2>1 DEF ReplayRow
  <2> QED BY <2>2, <2>3, <2>4
<1> QED BY <1>1, <1>2, <1>3 DEF R!TypeOK

LEMMA ReplayOrderTells == ReplayInv => R!HandledOnceInOrder
<1> SUFFICES ASSUME ReplayInv, NEW r \in ReplayHandlers
             PROVE  /\ \A i, j \in DOMAIN replay[r].handled :
                         i < j => /\ stored[replay[r].handled[i]] <= stored[replay[r].handled[j]]
                                  /\ replay[r].handled[i] # replay[r].handled[j]
                    /\ replay[r].to # 0 =>
                         \A i \in DOMAIN replay[r].handled : stored[replay[r].handled[i]] <= replay[r].to
  BY DEF R!HandledOnceInOrder
<1> DEFINE x == replay[r]
<1>1. x \in ReplayRow /\ Within(x, stored) /\ InTurn(x, stored) /\ stored \in Seq(Nat)
  BY NumbersAreNat DEF ReplayInv, ReplayTypes, ReplayOK
<1>2. DOMAIN x.handled = 1..Len(x.handled)
  BY <1>1 DEF ReplayRow
<1>3. ASSUME NEW i \in 1..Len(x.handled), NEW j \in 1..Len(x.handled), i < j
      PROVE  stored[x.handled[i]] <= stored[x.handled[j]] /\ x.handled[i] # x.handled[j]
  <2>1. x.handled[i] \in 1..Len(stored) /\ x.handled[j] \in 1..Len(stored)
    BY <1>1 DEF Within
  <2>2. IsBefore(stored, x.handled[i], x.handled[j])
    BY <1>1, <1>3 DEF InTurn
  <2>3. stored[x.handled[i]] \in Nat /\ stored[x.handled[j]] \in Nat /\ x.handled[i] \in Nat /\ x.handled[j] \in Nat
    <3>1. \A b \in 1..Len(stored) : b \in Nat /\ stored[b] \in Nat
      BY <1>1
    <3> QED BY <2>1, <3>1
  <2> QED BY <2>2, <2>3 DEF IsBefore
<1>4. x.to # 0 => \A i \in 1..Len(x.handled) : stored[x.handled[i]] <= x.to
  BY <1>1 DEF InTurn
<1> QED BY <1>2, <1>3, <1>4

LEMMA ReplaySkipsTell == ReplayInv => R!SkipsOnlyBehindBatches
<1> SUFFICES ASSUME ReplayInv, NEW r \in ReplayHandlers, replay[r].pc = "done",
                    NEW e \in R!Wanted(r), e \notin R!Seen(r)
             PROVE  R!JumpedOver(r, e)
  BY DEF R!SkipsOnlyBehindBatches
<1> DEFINE x == replay[r]
<1>1. x \in ReplayRow /\ Within(x, stored) /\ Complete(x, stored, replaysAll) /\ stored \in Seq(Nat)
  BY NumbersAreNat DEF ReplayInv, ReplayTypes, ReplayOK
<1>2. DOMAIN x.handled = 1..Len(x.handled)
  BY <1>1 DEF ReplayRow
<1>3. \A d : SeenBy(x, d) <=> d \in R!Seen(r)
  BY <1>2 DEF SeenBy, R!Seen, R!ToSet
<1>4. e \in 1..Len(stored) /\ WantedBy(x, stored, e) /\ x.batch = {}
  BY <1>1 DEF R!Wanted, WantedBy, Within
<1>5. Skipped(x, stored, replaysAll, e)
  BY <1>1, <1>3, <1>4 DEF Complete, ToCome
<1>6. PICK last \in x.jumps :
        \/ last < stored[e] /\ stored[e] < 10 * last + 1
        \/ replaysAll = TRUE /\ stored[e] = last
           /\ \E d \in 1..Len(stored) : stored[d] = last /\ (SeenBy(x, d) \/ d \in x.batch)
  BY <1>5 DEF Skipped
<1> QED BY <1>3, <1>4, <1>6 DEF R!JumpedOver

LEMMA TimeTravelTells == ReplayInv => R!TimeTravelMissesNothing
<1> SUFFICES ASSUME ReplayInv, ~replaysAll, NEW e \in R!Events, NEW d \in R!Events, stored[d] <= stored[e]
             PROVE  d \in R!TimeTravel(stored[e])
  BY DEF R!TimeTravelMissesNothing
<1> DEFINE events == {b \in R!Events : stored[b] >= 1}
           earlier == {b \in events : R!Before(b, d)}
<1>1. stored \in Seq(R!Numbers) /\ Different(stored) /\ R!Events = 1..Len(stored)
  BY DEF ReplayInv, ReplayTypes, R!Events
<1>2. stored[d] \in Nat /\ stored[e] \in Nat /\ \A b \in 1..Len(stored) : stored[b] \in Nat /\ stored[b] >= 1
  <2>1. \A n \in R!Numbers : n \in Nat /\ n >= 1
    BY DEF R!Numbers
  <2>2. \A b \in 1..Len(stored) : stored[b] \in R!Numbers
    BY <1>1
  <2> QED BY <1>1, <2>1, <2>2
<1>3. ASSUME NEW b \in earlier PROVE b \in 1..Len(stored) /\ stored[b] \in 1..(stored[d] - 1)
  <2>1. b \in 1..Len(stored) /\ R!Before(b, d) /\ d \in 1..Len(stored)
    BY <1>1
  <2>0. b # d
    BY <1>2, <2>1 DEF R!Before
  <2>2. stored[b] # stored[d]
    BY <1>1, <2>0, <2>1 DEF Different
  <2> QED BY <1>2, <2>1, <2>2 DEF R!Before
<1>4. IsFiniteSet(earlier) /\ Cardinality(earlier) <= stored[d] - 1
  <2> DEFINE f == [b \in earlier |-> stored[b]]
             T == 1..(stored[d] - 1)
  <2>1. f \in [earlier -> T]
    <3> HIDE DEF T, earlier
    <3> QED BY <1>3 DEF T
  <2>2. \A b, c \in earlier : f[b] = f[c] => b = c
    <3>1. \A b \in earlier : b \in 1..Len(stored) /\ f[b] = stored[b]
      BY <1>3
    <3> HIDE DEF f, earlier
    <3> QED BY <1>1, <3>1 DEF Different
  <2>3. f \in Injection(earlier, T)
    <3> HIDE DEF T, earlier
    <3> QED BY <2>1, <2>2 DEF Injection, IsInjective
  <2>4. IsFiniteSet(T) /\ Cardinality(T) = stored[d] - 1
    <3> DEFINE m == stored[d] - 1
    <3>1. stored[d] >= 1 /\ stored[d] \in Nat
      BY <1>1, <1>2
    <3>2. m \in Nat /\ 1 \in Int /\ m \in Int
      BY <3>1
    <3> HIDE DEF m
    <3>3. IsFiniteSet(1..m) /\ Cardinality(1..m) = IF 1 > m THEN 0 ELSE m - 1 + 1
      BY <3>2, FS_Interval
    <3>4. IsFiniteSet(1..m) /\ Cardinality(1..m) = m
      BY <3>2, <3>3
    <3> QED BY <3>4 DEF m
  <2> HIDE DEF f, T, earlier
  <2> QED BY <2>3, <2>4, FS_Injection
<1>5. Cardinality(earlier) \in Nat
  <2> HIDE DEF earlier
  <2> QED BY <1>4, FS_CardinalityType
<1>6. Cardinality(earlier) < stored[e]
  <2> HIDE DEF earlier
  <2> QED BY <1>2, <1>4, <1>5
<1>7. d \in events
  BY <1>1, <1>2
<1>8. R!Cardinality({b \in events : R!Before(b, d)}) < stored[e]
  BY <1>6, SameCardinality
<1>9. R!TimeTravel(stored[e]) = {c \in events : R!Cardinality({b \in events : R!Before(b, c)}) < stored[e]}
  BY DEF R!TimeTravel, R!ReadEvents, R!Leading
<1> QED BY <1>7, <1>8, <1>9

(***************************************************************************)
(* The parts together: a step of one leaves the others as they are.        *)
(***************************************************************************)
SumInv == Inv /\ FollowInv /\ CountsInv /\ MonInv /\ SubInv /\ ReplayInv

LEMMA SumInitKeeps == SumInit => SumInv
  BY InitKeepsInv, FollowInit, CountsInit, MonInitially, SubInitially, ReplayInit DEF SumInit, SumInv

(* What a part's invariant is about is in its variables. *)
LEMMA RestKeeps ==
  /\ CountsInv /\ UNCHANGED ofAnalytics => CountsInv'
  /\ MonInv /\ UNCHANGED ofMonitoring => MonInv'
<1>1. CountsInv /\ UNCHANGED ofAnalytics => CountsInv'
  BY DEF CountsInv, CountsTypes, KindIsOK, ofAnalytics
<1>2. MonInv /\ UNCHANGED ofMonitoring => MonInv'
  <2> SUFFICES ASSUME MonInv, UNCHANGED ofMonitoring PROVE MonInv'
    OBVIOUS
  <2>0. /\ history' = history /\ memory' = memory /\ monRow' = monRow /\ handler' = handler
        /\ timers' = timers /\ removals' = removals /\ load' = load /\ rebuild' = rebuild
        /\ disturbed' = disturbed
    BY DEF ofMonitoring
  <2>1. MonTypes' /\ MonHappened'
    BY <2>0 DEF MonInv, MonTypes, MonHappened
  <2>2. MonShown'
    BY <2>0 DEF MonInv, MonShown, IsShown, StillToCreate, BeingSaved
  <2>3. MonExact'
    <3>1. ASSUME NEW h \in Handlers PROVE WorkPhase(h) => WorkPhase(h)'
      BY <2>0 DEF WorkPhase, HandledBy
    <3>2. (StartPhase => StartPhase') /\ (ClearPhase => ClearPhase')
      BY <2>0 DEF StartPhase, ClearPhase, QuietPhase
    <3> QED BY <2>0, <3>1, <3>2 DEF MonInv, MonExact
  <2> QED BY <2>1, <2>2, <2>3 DEF MonInv
<1> QED BY <1>1, <1>2

LEMMA SumNextKeeps == SumInv /\ [SumNext]_sumVars => SumInv'
<1> SUFFICES ASSUME SumInv, [SumNext]_sumVars PROVE SumInv'
  OBVIOUS
<1>1. Inv' /\ FollowInv'
  <2>1. Next \/ UNCHANGED vars
    BY DEF SumNext, sumVars
  <2> QED BY <2>1, NextKeepsInv, FollowNext DEF SumInv
<1>2. CountsInv'
  <2>1. A!Next \/ UNCHANGED ofAnalytics
    BY DEF SumNext, sumVars
  <2> QED BY <2>1, RestKeeps, CountsNext DEF SumInv
<1>3. MonInv'
  <2>1. M!Next \/ UNCHANGED ofMonitoring
    BY DEF SumNext, sumVars
  <2> QED BY <2>1, RestKeeps, MonNext DEF SumInv
<1>4. SubInv'
  <2>1. S!Next \/ UNCHANGED ofSubscribers
    BY DEF SumNext, sumVars
  <2> QED BY <2>1, SubRests, SubNext DEF SumInv
<1>5. ReplayInv'
  <2>1. R!Next \/ UNCHANGED ofReplay
    BY DEF SumNext, sumVars
  <2> QED BY <2>1, ReplayRests, ReplayNext DEF SumInv
<1> QED BY <1>1, <1>2, <1>3, <1>4, <1>5 DEF SumInv

(* Every part's invariant holds in every state of the run. *)
THEOREM ReadersInvariant == SumSpec => []SumInv
  BY SumInitKeeps, SumNextKeeps, PTL DEF SumSpec

(* With nothing under way, the rows show exactly the payments that have not *)
(* ended and the number of creations unless steps overlapped or threw, and  *)
(* so does the memory of a process that has loaded; what has not ended is   *)
(* shown whatever overlaps, too many are counted only by a rebuild that     *)
(* overlapped, and memory is never behind its row in a process that has     *)
(* loaded: for any payments, events, failures, rebuilds and restarts.       *)
THEOREM ProjectionsFollowEventsHold == SumSpec => []ProjectionsFollowEvents
<1>1. SumInv => ProjectionsFollowEvents
  BY CountsTell, MonTells DEF SumInv, ProjectionsFollowEvents
<1> QED BY <1>1, ReadersInvariant, PTL

(* A subscriber that stays gets every event it asked for unless another    *)
(* left the list while that event went round or its append threw after it  *)
(* was stored, gets one twice only when it replayed the past, never three  *)
(* times, and gets the events of one append in their order: for any        *)
(* subscribers, appends and numbers of events.                             *)
THEOREM SubscribersMissNothingHold == SumSpec => []SubscribersMissNothing
<1>1. SumInv => SubscribersMissNothing
  BY SubTells DEF SumInv, SubscribersMissNothing
<1> QED BY <1>1, ReadersInvariant, PTL

(* A replay's handler sees events in the order of their numbers, none      *)
(* twice and none beyond the goal; what it wanted and did not see lies     *)
(* behind a batch or the snapshot, before the number with a digit more;    *)
(* and the state at a version misses no event up to it: for any events,    *)
(* replays, snapshots and batch sizes, and appends between the batches.    *)
(* The versions are those that the store gives the events of its streams.  *)
THEOREM ReplaysMissOnlyBehindBatchesHold == SumSpec => []ReplaysMissOnlyBehindBatches
<1>1. SumInv => ReplaysMissOnlyBehindBatches
  BY ReplayOrderTells, ReplaySkipsTell, TimeTravelTells, VersionsTell
     DEF SumInv, ReplaysMissOnlyBehindBatches
<1> QED BY <1>1, ReadersInvariant, PTL

(* The rows, the calls and every reader stay well formed: a batch is no    *)
(* longer than asked for, the lists name each subscriber once, and what    *)
(* was handled is an event that is stored.                                 *)
THEOREM EventTypesHold == SumSpec => []TypesOK
<1>1. SumInv => TypesOK
  BY CountsTell, MonTells, SubTypesTell, ReplayTypesTell DEF SumInv, Inv, TypesOK
<1> QED BY <1>1, ReadersInvariant, PTL
=============================================================================
