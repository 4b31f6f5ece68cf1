--------------------------- MODULE CheckoutProofs ---------------------------
(***************************************************************************)
(* Proofs about Checkout, for every number of payments, amounts and        *)
(* overlapping runs, every Horizon page size and any number of crashes.    *)
(***************************************************************************)
EXTENDS Checkout, TLAPS

IInv == TypeOK /\ CopiesAreSound

(* The copy of no payments is a store, and a sound one. *)
LEMMA EmptyStore ==
  /\ NoPayments \in Store
  /\ SoundCopy(NoPayments)
BY ConstantsAssumption DEF NoPayments, Store, SoundCopy, SoundRecord, Absent

(* Crediting a transaction that matches keeps a copy a sound store. *)
LEMMA CreditIsSound ==
  ASSUME TypeOK,
         NEW store \in Store, SoundCopy(store),
         NEW id \in Ids, NEW i \in 1..Len(ledger),
         Matches(ledger[i], id, store)
  PROVE  /\ Credit(store, id, i) \in Store
         /\ SoundCopy(Credit(store, id, i))
<1> DEFINE new == Credit(store, id, i)
<1>1. ledger[i].amounts \subseteq Amounts
  <2>1. ledger[i] \in Transaction
    BY DEF TypeOK
  <2> QED BY <2>1 DEF Transaction
<1>2. store[id] \in Payment
  BY <1>1, ConstantsAssumption DEF Matches, Store, Absent
<1>3. /\ new[id] = [store[id] EXCEPT !.status = "PAID", !.tx = i]
      /\ \A other \in Ids \ {id} : new[other] = store[other]
      /\ DOMAIN new = Ids
  BY DEF Credit, Store
<1>4. new[id] \in Payment
  <2>1. i \in Nat
    BY DEF TypeOK
  <2> QED BY <1>2, <1>3, <2>1 DEF Payment
<1>5. new \in Store
  BY <1>3, <1>4 DEF Credit, Store
<1>6. SoundRecord(new, id)
  <2>1. store[id].amount = quoted[id]
    BY <1>2, ConstantsAssumption DEF SoundCopy, SoundRecord, Payment, Absent
  <2>2. /\ new[id].amount = quoted[id]
        /\ new[id].tx = i
    BY <1>2, <1>3, <2>1 DEF Payment
  <2>3. BackedBy(id, i)
    BY <2>1 DEF BackedBy, Matches
  <2> QED BY <2>2, <2>3 DEF SoundRecord
<1>7. \A other \in Ids \ {id} : SoundRecord(new, other)
  BY <1>3 DEF SoundCopy, SoundRecord
<1> QED BY <1>5, <1>6, <1>7 DEF SoundCopy

(* Marking the manual payments of a sound store keeps it one, in demo mode. *)
LEMMA MarkManualIsSound ==
  ASSUME ManualFallback, file \in Store, SoundCopy(file)
  PROVE  /\ MarkManual(file) \in Store
         /\ SoundCopy(MarkManual(file))
<1> DEFINE new == MarkManual(file)
<1>1. SUFFICES ASSUME NEW id \in Ids
               PROVE  /\ new[id] \in Payment \cup {Absent}
                      /\ SoundRecord(new, id)
  BY DEF MarkManual, Store, SoundCopy
<1>2. CASE file[id].status = "PENDING" /\ file[id].manual
  <2>1. file[id] \in Payment
    BY <1>2 DEF Store, Absent
  <2>2. new[id] = [file[id] EXCEPT !.status = "PAID", !.tx = DemoTx, !.manual = FALSE]
    BY <1>2 DEF MarkManual
  <2>3. new[id] \in Payment /\ new[id].amount = file[id].amount /\ new[id].tx = DemoTx
    BY <2>1, <2>2 DEF Payment
  <2>4. file[id] # Absent
    BY <1>2 DEF Absent
  <2> QED BY <2>3, <2>4 DEF SoundCopy, SoundRecord, BackedBy
<1>3. CASE ~(file[id].status = "PENDING" /\ file[id].manual)
  <2>1. new[id] = file[id]
    BY <1>3 DEF MarkManual
  <2> QED BY <2>1 DEF Store, SoundCopy, SoundRecord
<1> QED BY <1>2, <1>3

(***************************************************************************)
(* Type correctness.                                                       *)
(***************************************************************************)
LEMMA InitTypeOK == Init => TypeOK
BY EmptyStore, ConstantsAssumption
   DEF Init, TypeOK, ApiState, RunState, IdleApi, IdleRun

(* A transaction less to look at and another copy leave a run well formed.   *)
LEMMA RunKeepsType ==
  ASSUME NEW runs \in [Runs -> RunState], NEW r \in Runs, NEW snap \in Store, NEW i
  PROVE  [runs EXCEPT ![r].todo = @ \ {i}, ![r].snap = snap] \in [Runs -> RunState]
<1>1. runs[r] \in RunState
  OBVIOUS
<1>2. [runs[r] EXCEPT !.todo = @ \ {i}, !.snap = snap] \in RunState
  BY <1>1 DEF RunState
<1> QED BY <1>2

(* So does a list of transactions to look at next. *)
LEMMA RunMatches ==
  ASSUME NEW runs \in [Runs -> RunState], NEW r \in Runs, NEW todo \in SUBSET Nat
  PROVE  [runs EXCEPT ![r].pc = "match", ![r].todo = todo] \in [Runs -> RunState]
<1>1. runs[r] \in RunState
  OBVIOUS
<1>2. [runs[r] EXCEPT !.pc = "match", !.todo = todo] \in RunState
  BY <1>1 DEF RunState
<1> QED BY <1>2

LEMMA NextTypeOK == IInv /\ [Next]_vars => TypeOK'
<1> SUFFICES ASSUME IInv, [Next]_vars
             PROVE  TypeOK'
  OBVIOUS
<1> USE DEF IInv
<1>1. ASSUME NEW id \in Ids, NEW amount \in Amounts, CreateRead(id, amount)
      PROVE  TypeOK'
  <2>1. [status |-> "PENDING", amount |-> amount, tx |-> NoTx, manual |-> FALSE]
          \in Payment
    BY DEF Payment, NoTx
  <2>2. api'.snap \in Store
    BY <1>1, <2>1 DEF CreateRead, TypeOK, Store
  <2> QED BY <1>1, <2>2 DEF CreateRead, TypeOK, ApiState
<1>2. CASE CreateTruncate
  BY <1>2 DEF CreateTruncate, Truncate, TypeOK, ApiState
<1>3. CASE CreateWrite
  <2>1. api.snap[api.id].amount \in Amounts
    BY <1>3 DEF CreateWrite, CopiesAreSound, ApiCopySound, TypeOK, ApiState, Store, Payment
  <2>2. quoted' \in [Ids -> Amounts \cup {NoAmount}]
    BY <1>3, <2>1 DEF CreateWrite, TypeOK
  <2>3. /\ file' \in Store /\ parsable' \in BOOLEAN
        /\ writers' \subseteq {Api, Watcher} /\ overlaid' \subseteq writers'
    BY <1>3 DEF CreateWrite, WriteText, TypeOK, ApiState
  <2> QED BY <1>3, <2>2, <2>3, EmptyStore DEF CreateWrite, IdleApi, TypeOK, ApiState
<1>4. ASSUME NEW memo \in Ids \cup {NoMemo}, NEW amounts \in SUBSET Amounts,
             Pay(memo, amounts)
      PROVE  TypeOK'
  BY <1>4 DEF Pay, TypeOK, Transaction
<1>5. ASSUME NEW id \in Ids, EditManualMark(id)
      PROVE  TypeOK'
  <2>1. file[id] \in Payment
    BY <1>5 DEF EditManualMark, TypeOK, Store, Absent
  <2>2. file' \in Store
    BY <1>5, <2>1 DEF EditManualMark, TypeOK, Store, Payment
  <2> QED BY <1>5, <2>2 DEF EditManualMark, TypeOK
<1>6. ASSUME NEW r \in Runs, RunStep(r)
      PROVE  TypeOK'
  <2>1. CASE CheckRead(r)
    BY <2>1 DEF CheckRead, Pending, TypeOK, RunState
  <2>2. CASE CheckReadFails(r)
    BY <2>2 DEF CheckReadFails, TypeOK, RunState
  <2>3. CASE FetchTransactions(r)
    <3>1. Page \in SUBSET Nat
      BY DEF Page, TypeOK
    <3>2. run' = [run EXCEPT ![r].pc = "match", ![r].todo = Page]
      BY <2>3 DEF FetchTransactions
    <3>3. run' \in [Runs -> RunState]
      BY <3>1, <3>2, RunMatches DEF TypeOK
    <3> QED BY <2>3, <3>3 DEF FetchTransactions, TypeOK
  <2>4. ASSUME NEW i \in 1..Len(ledger), MatchTransaction(r, i)
        PROVE  TypeOK'
    <3> DEFINE hit == \E id \in run[r].pending : Matches(ledger[i], id, run[r].snap)
    <3>1. run[r].snap \in Store
      BY DEF TypeOK, RunState
    <3>2. CASE hit
      <4>1. PICK id \in Ids : Matches(ledger[i], id, run[r].snap)
        BY <3>2 DEF TypeOK, RunState
      <4>2. Credit(run[r].snap, ledger[i].memo, i) \in Store
        BY <3>1, <4>1, CreditIsSound DEF CopiesAreSound, Matches
      <4>3. run' = [run EXCEPT ![r].todo = @ \ {i},
                               ![r].snap = Credit(run[r].snap, ledger[i].memo, i)]
        BY <2>4, <3>2 DEF MatchTransaction
      <4>4. run' \in [Runs -> RunState]
        BY <4>2, <4>3, RunKeepsType DEF TypeOK
      <4> QED BY <2>4, <4>4 DEF MatchTransaction, TypeOK
    <3>3. CASE ~hit
      <4>1. run' = [run EXCEPT ![r].todo = @ \ {i}, ![r].snap = run[r].snap]
        BY <2>4, <3>3 DEF MatchTransaction
      <4>2. run' \in [Runs -> RunState]
        BY <3>1, <4>1, RunKeepsType DEF TypeOK
      <4> QED BY <2>4, <4>2 DEF MatchTransaction, TypeOK
    <3> QED BY <3>2, <3>3
  <2>5. CASE CheckTruncate(r)
    BY <2>5 DEF CheckTruncate, Truncate, TypeOK, RunState
  <2>6. CASE CheckWrite(r)
    BY <2>6, EmptyStore DEF CheckWrite, WriteText, IdleRun, TypeOK, RunState
  <2>7. CASE ManualRead(r)
    <3>1. CASE ManualFallback /\ parsable /\ MarkManual(file) # file
      <4>1. MarkManual(file) \in Store
        BY <3>1, MarkManualIsSound DEF TypeOK, CopiesAreSound
      <4>2. run' = [run EXCEPT ![r] = [pc |-> "match", snap |-> MarkManual(file),
                                       pending |-> {}, todo |-> {}]]
        BY <2>7, <3>1 DEF ManualRead
      <4> QED BY <2>7, <4>1, <4>2 DEF ManualRead, TypeOK, RunState
    <3>2. CASE ~(ManualFallback /\ parsable /\ MarkManual(file) # file)
      <4>1. run' = [run EXCEPT ![r] = IdleRun]
        BY <2>7, <3>2 DEF ManualRead
      <4> QED BY <2>7, <4>1, EmptyStore DEF ManualRead, IdleRun, TypeOK, RunState
    <3> QED BY <3>1, <3>2
  <2> QED BY <1>6, <2>1, <2>2, <2>3, <2>4, <2>5, <2>6, <2>7 DEF RunStep
<1>7. ASSUME NEW r \in Runs, HorizonFails(r)
      PROVE  TypeOK'
  <2>1. run' = [run EXCEPT ![r].pc = "match", ![r].todo = {}]
    BY <1>7 DEF HorizonFails
  <2>2. run' \in [Runs -> RunState]
    BY <2>1, RunMatches DEF TypeOK
  <2> QED BY <1>7, <2>2 DEF HorizonFails, TypeOK
<1>8. CASE CrashWatcher
  BY <1>8, EmptyStore DEF CrashWatcher, Killed, IdleRun, TypeOK, RunState
<1>9. CASE CrashApi
  BY <1>9, EmptyStore DEF CrashApi, Killed, IdleApi, TypeOK, ApiState
<1>10. CASE UNCHANGED vars
  BY <1>10 DEF vars, TypeOK
<1> QED
  BY <1>1, <1>2, <1>3, <1>4, <1>5, <1>6, <1>7, <1>8, <1>9, <1>10 DEF Next

(***************************************************************************)
(* Every copy of the records stays sound.                                  *)
(***************************************************************************)
LEMMA InitCopiesAreSound == Init => CopiesAreSound
BY EmptyStore DEF Init, CopiesAreSound, ApiCopySound, IdleApi, IdleRun

LEMMA NextCopiesAreSound == IInv /\ [Next]_vars => CopiesAreSound'
<1> SUFFICES ASSUME IInv, [Next]_vars
             PROVE  CopiesAreSound'
  OBVIOUS
<1> USE DEF IInv, CopiesAreSound
<1>1. ASSUME NEW id \in Ids, NEW amount \in Amounts, CreateRead(id, amount)
      PROVE  CopiesAreSound'
  <2> DEFINE new == [status |-> "PENDING", amount |-> amount,
                     tx |-> NoTx, manual |-> FALSE]
  <2>1. new # Absent
    BY DEF Absent
  <2>2. /\ api'.pc = "write" /\ api'.id = id
        /\ api'.snap = [file EXCEPT ![id] = new]
    BY <1>1 DEF CreateRead
  <2>3. /\ api'.snap[id] = new
        /\ \A other \in Ids \ {id} : api'.snap[other] = file[other]
    BY <2>2 DEF TypeOK, Store
  <2>4. UNCHANGED <<file, ledger, quoted, run>> /\ quoted[id] = NoAmount
    BY <1>1 DEF CreateRead
  <2>5. ApiCopySound'
    BY <2>1, <2>2, <2>3, <2>4 DEF ApiCopySound, SoundCopy, SoundRecord, BackedBy
  <2> QED BY <2>4, <2>5 DEF SoundCopy, SoundRecord, BackedBy
<1>2. CASE CreateTruncate
  BY <1>2 DEF CreateTruncate, ApiCopySound, SoundCopy, SoundRecord, BackedBy,
              TypeOK, ApiState
<1>3. CASE CreateWrite
  <2>1. /\ api.id \in Ids /\ quoted[api.id] = NoAmount
        /\ api.snap[api.id] # Absent /\ api.snap[api.id].status = "PENDING"
        /\ \A id \in Ids \ {api.id} : SoundRecord(api.snap, id)
    BY <1>3 DEF CreateWrite, ApiCopySound
  <2>2. /\ file' = api.snap
        /\ quoted' = [quoted EXCEPT ![api.id] = api.snap[api.id].amount]
        /\ api' = IdleApi /\ UNCHANGED <<ledger, run>>
    BY <1>3 DEF CreateWrite, WriteText
  <2>3. /\ quoted'[api.id] = api.snap[api.id].amount
        /\ \A id \in Ids \ {api.id} : quoted'[id] = quoted[id]
    BY <2>1, <2>2 DEF TypeOK
  <2>4. SoundCopy(file)'
    BY <2>1, <2>2, <2>3 DEF SoundCopy, SoundRecord, BackedBy
  <2>5. ASSUME NEW r \in Runs
        PROVE  SoundCopy(run[r].snap)'
    <3>1. run[r].snap \in Store
      BY DEF TypeOK, RunState
    <3>2. run[r].snap[api.id] = Absent
      BY <2>1, <3>1, ConstantsAssumption DEF SoundCopy, SoundRecord, Store, Payment
    <3>3. run'[r].snap = run[r].snap /\ SoundCopy(run[r].snap)
      BY <2>2
    <3>4. ASSUME NEW id \in Ids
          PROVE  SoundRecord(run[r].snap, id)'
      <4>1. CASE id = api.id
        BY <3>2, <3>3, <4>1 DEF SoundRecord, Absent
      <4>2. CASE id # api.id
        BY <2>2, <2>3, <3>3, <4>2 DEF SoundCopy, SoundRecord, BackedBy
      <4> QED BY <4>1, <4>2
    <3> QED BY <3>4 DEF SoundCopy
  <2>6. ApiCopySound'
    BY <2>2 DEF ApiCopySound, IdleApi
  <2> QED BY <2>4, <2>5, <2>6
<1>4. ASSUME NEW memo \in Ids \cup {NoMemo}, NEW amounts \in SUBSET Amounts,
             Pay(memo, amounts)
      PROVE  CopiesAreSound'
  <2>1. /\ ledger' = Append(ledger, [memo |-> memo, amounts |-> amounts])
        /\ UNCHANGED <<file, quoted, api, run>>
    BY <1>4 DEF Pay
  <2>2. /\ Len(ledger) \in Nat /\ Len(ledger') = Len(ledger) + 1
        /\ \A tx \in 1..Len(ledger) : ledger'[tx] = ledger[tx]
    BY <2>1 DEF TypeOK
  <2>3. \A tx : tx \in 1..Len(ledger) => tx \in 1..Len(ledger')
    BY <2>2
  <2>4. ASSUME NEW s, NEW id, SoundRecord(s, id)
        PROVE  SoundRecord(s, id)'
    BY <2>1, <2>2, <2>3, <2>4 DEF SoundRecord, BackedBy
  <2>5. ApiCopySound'
    BY <2>1, <2>4 DEF ApiCopySound
  <2> QED BY <2>1, <2>4, <2>5 DEF SoundCopy
<1>5. ASSUME NEW id \in Ids, EditManualMark(id)
      PROVE  CopiesAreSound'
  <2>1. /\ file' = [file EXCEPT ![id] = [file[id] EXCEPT !.manual = TRUE]]
        /\ file[id].status = "PENDING"
        /\ UNCHANGED <<ledger, quoted, api, run>>
    BY <1>5 DEF EditManualMark, TypeOK, Store
  <2>2. file[id] \in Payment /\ file[id] # Absent
    BY <2>1 DEF TypeOK, Store, Absent
  <2>3. /\ file'[id].status = "PENDING" /\ file'[id].amount = file[id].amount
        /\ \A other \in Ids \ {id} : file'[other] = file[other]
    BY <2>1, <2>2 DEF TypeOK, Store, Payment
  <2>4. SoundCopy(file)'
    BY <2>1, <2>2, <2>3 DEF SoundCopy, SoundRecord, BackedBy
  <2> QED BY <2>1, <2>4 DEF ApiCopySound, SoundCopy, SoundRecord, BackedBy
<1>6. ASSUME NEW r \in Runs, RunStep(r)
      PROVE  CopiesAreSound'
  <2>1. run[r].snap \in Store /\ SoundCopy(run[r].snap)
    BY DEF TypeOK, RunState
  <2>2. ASSUME UNCHANGED <<file, ledger, quoted, api>>,
               NEW new \in Store, SoundCopy(new),
               \A s \in Runs : run'[s].snap \in {run[s].snap, new}
        PROVE  CopiesAreSound'
    BY <2>2 DEF ApiCopySound, SoundCopy, SoundRecord, BackedBy
  <2>3. CASE CheckRead(r) \/ CheckReadFails(r)
    <3>1. /\ UNCHANGED <<file, ledger, quoted, api>>
          /\ \A s \in Runs : run'[s].snap \in {run[s].snap, file}
      BY <2>3 DEF CheckRead, CheckReadFails, TypeOK, RunState
    <3> QED BY <2>2, <3>1 DEF TypeOK
  <2>4. CASE FetchTransactions(r)
    BY <2>1, <2>2, <2>4 DEF FetchTransactions, TypeOK
  <2>5. ASSUME NEW i \in 1..Len(ledger), MatchTransaction(r, i)
        PROVE  CopiesAreSound'
    <3> DEFINE hit == \E id \in run[r].pending : Matches(ledger[i], id, run[r].snap)
               new == IF hit THEN Credit(run[r].snap, ledger[i].memo, i)
                             ELSE run[r].snap
    <3>1. new \in Store /\ SoundCopy(new)
      <4>1. CASE hit
        <5>1. PICK id \in Ids : Matches(ledger[i], id, run[r].snap)
          BY <4>1 DEF TypeOK, RunState
        <5> QED BY <2>1, <4>1, <5>1, CreditIsSound DEF Matches
      <4>2. CASE ~hit
        BY <2>1, <4>2
      <4> QED BY <4>1, <4>2
    <3>2. /\ run' = [run EXCEPT ![r] = [run[r] EXCEPT !.todo = @ \ {i}, !.snap = new]]
          /\ UNCHANGED <<file, ledger, quoted, api>>
      BY <2>5 DEF MatchTransaction, TypeOK
    <3>3. ASSUME NEW s \in Runs PROVE run'[s].snap \in {run[s].snap, new}
      <4>1. run[s] \in RunState
        BY DEF TypeOK
      <4>2. CASE s = r
        <5>1. run'[s] = [run[s] EXCEPT !.todo = @ \ {i}, !.snap = new]
          BY <3>2, <4>2 DEF TypeOK
        <5> QED BY <4>1, <5>1 DEF RunState
      <4>3. CASE s # r
        BY <3>2, <4>3 DEF TypeOK
      <4> QED BY <4>2, <4>3
    <3> HIDE DEF new
    <3> QED BY <2>2, <3>1, <3>2, <3>3
  <2>6. CASE CheckTruncate(r)
    BY <2>1, <2>2, <2>6 DEF CheckTruncate, TypeOK
  <2>7. CASE CheckWrite(r)
    <3>1. /\ file' = run[r].snap /\ UNCHANGED <<ledger, quoted, api>>
          /\ \A s \in Runs : run'[s].snap \in {run[s].snap, NoPayments}
      <4>1. /\ file' = run[r].snap /\ UNCHANGED <<ledger, quoted, api>>
            /\ run' = [run EXCEPT ![r] = IdleRun]
        BY <2>7 DEF CheckWrite, WriteText
      <4>2. IdleRun.snap = NoPayments
        BY DEF IdleRun
      <4> QED BY <4>1, <4>2 DEF TypeOK
    <3> QED BY <2>1, <3>1, EmptyStore
            DEF ApiCopySound, SoundCopy, SoundRecord, BackedBy
  <2>8. CASE ManualRead(r)
    <3>1. CASE ManualFallback /\ parsable /\ MarkManual(file) # file
      <4>1. MarkManual(file) \in Store /\ SoundCopy(MarkManual(file))
        BY <3>1, MarkManualIsSound DEF TypeOK
      <4>2. \A s \in Runs : run'[s].snap \in {run[s].snap, MarkManual(file)}
        BY <2>8, <3>1 DEF ManualRead, TypeOK
      <4> QED BY <2>2, <2>8, <4>1, <4>2 DEF ManualRead
    <3>2. CASE ~(ManualFallback /\ parsable /\ MarkManual(file) # file)
      <4>1. \A s \in Runs : run'[s].snap \in {run[s].snap, NoPayments}
        BY <2>8, <3>2 DEF ManualRead, IdleRun, TypeOK
      <4> QED BY <2>2, <2>8, <4>1, EmptyStore DEF ManualRead
    <3> QED BY <3>1, <3>2
  <2> QED BY <1>6, <2>3, <2>4, <2>5, <2>6, <2>7, <2>8 DEF RunStep
<1>7. ASSUME NEW r \in Runs, HorizonFails(r)
      PROVE  CopiesAreSound'
  <2>1. \A s \in Runs : run'[s].snap = run[s].snap
    BY <1>7 DEF HorizonFails, TypeOK, RunState
  <2>2. UNCHANGED <<file, ledger, quoted, api>>
    BY <1>7 DEF HorizonFails
  <2> QED BY <2>1, <2>2 DEF ApiCopySound, SoundCopy, SoundRecord, BackedBy
<1>8. CASE CrashWatcher
  <2>1. \A s \in Runs : run'[s].snap = NoPayments
    BY <1>8 DEF CrashWatcher, IdleRun
  <2> QED BY <1>8, <2>1, EmptyStore
          DEF CrashWatcher, ApiCopySound, SoundCopy, SoundRecord, BackedBy
<1>9. CASE CrashApi
  BY <1>9 DEF CrashApi, IdleApi, ApiCopySound, SoundCopy, SoundRecord, BackedBy
<1>10. CASE UNCHANGED vars
  BY <1>10 DEF vars, ApiCopySound, SoundCopy, SoundRecord, BackedBy
<1> QED
  BY <1>1, <1>2, <1>3, <1>4, <1>5, <1>6, <1>7, <1>8, <1>9, <1>10 DEF Next

-----------------------------------------------------------------------------
(***************************************************************************)
(* The checkout's state is well typed and every copy of the records is     *)
(* sound, in every reachable state.                                        *)
(***************************************************************************)
THEOREM CheckoutInvariant == Spec => [](TypeOK /\ CopiesAreSound)
<1>1. Init => IInv
  BY InitTypeOK, InitCopiesAreSound DEF IInv
<1>2. IInv /\ [Next]_vars => IInv'
  BY NextTypeOK, NextCopiesAreSound DEF IInv
<1>3. IInv => TypeOK /\ CopiesAreSound
  BY DEF IInv
<1> QED BY <1>1, <1>2, <1>3, PTL DEF Spec

(***************************************************************************)
(* No record of payments.json says PAID without a transaction of the       *)
(* deposit account that carries its memo and the amount its customer was   *)
(* quoted (watcher.js, checkAddressTransactions), however stale the copy   *)
(* the watcher wrote.                                                      *)
(***************************************************************************)
THEOREM PaidIsBackedHolds == Spec => []PaidIsBacked
<1>1. TypeOK /\ CopiesAreSound => PaidIsBacked
  BY DEF CopiesAreSound, SoundCopy, SoundRecord, PaidIsBacked
<1> QED BY <1>1, CheckoutInvariant, PTL
=============================================================================
