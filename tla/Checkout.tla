------------------------------ MODULE Checkout ------------------------------
(***************************************************************************)
(* The checkout of the MVP: the Next.js API that creates payments          *)
(* (src/frontend/app/api/create-payment/route.ts), the watcher process     *)
(* that polls Horizon and marks them PAID (src/frontend/watcher.js), and   *)
(* the one thing they share, the file data/payments.json.                  *)
(*                                                                         *)
(* Both processes read the whole file, change their copy and write the     *)
(* whole copy back.  Within a process a read or a write is synchronous;    *)
(* between the two processes nothing is.  fs.writeFileSync truncates the   *)
(* file before it writes, so the other process can find it unparsable.     *)
(* setInterval(check, 10000) does not wait for a slow check(), so several  *)
(* runs of checkPayments() can be between their awaits at the same time.   *)
(***************************************************************************)
EXTENDS Naturals, Sequences, FiniteSets, TLC

CONSTANTS
  Ids,            \* payment ids the API may draw; the memo is the id
  Amounts,        \* amounts a checkout may ask for
  Runs,           \* concurrent runs of check() the watcher may have
  NoAmount,       \* no payment with this id was answered to a customer
  NoMemo,         \* a transaction whose memo is no payment id
  DemoTx,         \* txHash = 'DEMO_MANUAL_TX_...'
  Window,         \* how many transactions one Horizon page holds (100)
  MaxTxs,         \* bound: transactions on the ledger
  MaxFailures,    \* bound: Horizon calls that fail
  ManualFallback, \* ENABLE_MANUAL_FALLBACK
  MayCrash        \* bound: whether either process can be killed

ASSUME ConstantsAssumption ==
  /\ NoAmount \notin Amounts /\ NoMemo \notin Ids /\ DemoTx \notin Nat
  /\ Window \in Nat \ {0}
  /\ MaxTxs \in Nat
  /\ MaxFailures \in Nat
  /\ ManualFallback \in BOOLEAN
  /\ MayCrash \in BOOLEAN

(* Payments and runs of check() are interchangeable. *)
IdSymmetry == Permutations(Ids) \cup Permutations(Runs)

VARIABLES
  file,      \* payments.json: the records of the last complete write
  parsable,  \* FALSE while the file on disk is truncated or mangled
  writers,   \* processes between the truncation and the write of writeFileSync
  overlaid,  \* those of them whose truncated file another process has written
  ledger,    \* the transactions of the deposit account, oldest first
  quoted,    \* the amount the customer was told, of the payments created
  api,       \* the create-payment request being served
  run,       \* the runs of check()
  failures   \* how many Horizon calls have failed

vars == <<file, parsable, writers, overlaid, ledger, quoted, api, run, failures>>

NoTx    == 0  \* no txHash; transactions are numbered from 1
Watcher == "watcher"
Api     == "api"

Absent == [status |-> "ABSENT", amount |-> NoAmount, tx |-> NoTx, manual |-> FALSE]

Payment ==
  [status : {"PENDING", "PAID"}, amount : Amounts, tx : Nat \cup {DemoTx},
   manual : BOOLEAN]

Transaction == [memo : Ids \cup {NoMemo}, amounts : SUBSET Amounts]

Store == [Ids -> Payment \cup {Absent}]

NoPayments == [id \in Ids |-> Absent]

IdleApi == [pc |-> "idle", id |-> NoMemo, snap |-> NoPayments]
IdleRun == [pc |-> "idle", snap |-> NoPayments, pending |-> {}, todo |-> {}]

Pending(store) == {id \in Ids : store[id].status = "PENDING"}

Init ==
  /\ file = NoPayments
  /\ parsable = TRUE
  /\ writers = {}
  /\ overlaid = {}
  /\ ledger = <<>>
  /\ quoted = [id \in Ids |-> NoAmount]
  /\ api = IdleApi
  /\ run = [r \in Runs |-> IdleRun]
  /\ failures = 0

-----------------------------------------------------------------------------
(***************************************************************************)
(* fs.writeFileSync by process p: open with truncation, then the text.     *)
(***************************************************************************)
Truncate(p) ==
  /\ p \notin writers
  /\ writers' = writers \cup {p}
  /\ parsable' = FALSE

(***************************************************************************)
(* The text is written from offset 0.  If the other process has written    *)
(* since p truncated, a shorter text leaves the tail of the other one      *)
(* behind it and the file is no longer JSON.                               *)
(***************************************************************************)
WriteText(p, store) ==
  /\ p \in writers
  /\ writers' = writers \ {p}
  /\ overlaid' = (overlaid \cup writers) \ {p}
  /\ file' = store
  /\ parsable' \in IF p \in overlaid THEN BOOLEAN ELSE {TRUE}

-----------------------------------------------------------------------------
(* Slip: the id of an existing payment is drawn again. *)
CreateReadUsedId(id, amount) ==
  /\ api.pc = "idle"
  /\ parsable
  /\ api' = [pc |-> "write", id |-> id,
             snap |-> [file EXCEPT ![id] =
                        [status |-> "PENDING", amount |-> amount,
                         tx |-> NoTx, manual |-> FALSE]]]
  /\ UNCHANGED <<file, parsable, writers, overlaid, ledger, quoted, run, failures>>

(***************************************************************************)
(* POST /api/create-payment.  A read of a truncated or mangled file throws *)
(* and the request is answered with an error: nothing changes.             *)
(***************************************************************************)
CreateRead(id, amount) ==
  /\ api.pc = "idle"
  /\ parsable
  /\ quoted[id] = NoAmount
  /\ api' = [pc |-> "write", id |-> id,
             snap |-> [file EXCEPT ![id] =
                        [status |-> "PENDING", amount |-> amount,
                         tx |-> NoTx, manual |-> FALSE]]]
  /\ UNCHANGED <<file, parsable, writers, overlaid, ledger, quoted, run, failures>>

CreateTruncate ==
  /\ api.pc = "write"
  /\ Truncate(Api)
  /\ api' = [api EXCEPT !.pc = "text"]
  /\ UNCHANGED <<file, overlaid, ledger, quoted, run, failures>>

(* The record is on disk and the customer is told the memo and the amount. *)
CreateWrite ==
  /\ api.pc = "text"
  /\ WriteText(Api, api.snap)
  /\ quoted' = [quoted EXCEPT ![api.id] = api.snap[api.id].amount]
  /\ api' = IdleApi
  /\ UNCHANGED <<ledger, run, failures>>

-----------------------------------------------------------------------------
(***************************************************************************)
(* The customers: a transaction of the deposit account with a memo and the *)
(* amounts of its USDC payment operations (none when it pays in another    *)
(* asset).                                                                 *)
(***************************************************************************)
Pay(memo, amounts) ==
  /\ Len(ledger) < MaxTxs
  /\ memo \in {NoMemo} \cup {id \in Ids : quoted[id] # NoAmount}
  /\ ledger' = Append(ledger, [memo |-> memo, amounts |-> amounts])
  /\ UNCHANGED <<file, parsable, writers, overlaid, quoted, api, run, failures>>

(* The operator edits the file by hand and adds "manualMarkPaid": true.    *)
EditManualMark(id) ==
  /\ ManualFallback
  /\ parsable
  /\ file[id].status = "PENDING"
  /\ ~file[id].manual
  /\ file' = [file EXCEPT ![id].manual = TRUE]
  /\ UNCHANGED <<parsable, writers, overlaid, ledger, quoted, api, run, failures>>

-----------------------------------------------------------------------------
(***************************************************************************)
(* checkPayments().  While one run is inside writeFileSync no other run of *)
(* the same process can take a step.                                       *)
(***************************************************************************)
WatcherFree == Watcher \notin writers

(* JSON.parse(readFileSync) and the PENDING payments of the copy.          *)
CheckRead(r) ==
  /\ WatcherFree
  /\ run[r].pc = "idle"
  /\ parsable
  /\ Pending(file) # {}
  /\ run' = [run EXCEPT ![r] = [pc |-> "fetch", snap |-> file,
                                pending |-> Pending(file), todo |-> {}]]
  /\ UNCHANGED <<file, parsable, writers, overlaid, ledger, quoted, api, failures>>

(* JSON.parse throws; check() falls back to the manual mark if it may.     *)
CheckReadFails(r) ==
  /\ WatcherFree
  /\ run[r].pc = "idle"
  /\ ~parsable
  /\ ManualFallback
  /\ run' = [run EXCEPT ![r].pc = "manual"]
  /\ UNCHANGED <<file, parsable, writers, overlaid, ledger, quoted, api, failures>>

(* The page of the newest transactions of the account.                     *)
Page == {i \in 1..Len(ledger) : i + Window > Len(ledger)}

FetchTransactions(r) ==
  /\ WatcherFree
  /\ run[r].pc = "fetch"
  /\ run' = [run EXCEPT ![r].pc = "match", ![r].todo = Page]
  /\ UNCHANGED <<file, parsable, writers, overlaid, ledger, quoted, api, failures>>

(* Slip: the memo decides, neither asset nor amount is looked at. *)
MatchesMemoOnly(tx, id, store) == tx.memo = id

(* A transaction pays a payment of the copy: its memo is the payment's and *)
(* one of its USDC operations has exactly the payment's amount.            *)
Matches(tx, id, store) ==
  /\ tx.memo = id
  /\ store[id].amount \in tx.amounts

(* Slip: the hash is stored and the status is not. *)
CreditHashOnly(store, id, i) == [store EXCEPT ![id].tx = i]

Credit(store, id, i) ==
  [store EXCEPT ![id].status = "PAID", ![id].tx = i]

(* One transaction of the page, the newest first.                          *)
MatchTransaction(r, i) ==
  /\ WatcherFree
  /\ run[r].pc = "match"
  /\ i \in run[r].todo
  /\ \A j \in run[r].todo : j <= i
  /\ run' = [run EXCEPT
       ![r].todo = @ \ {i},
       ![r].snap =
         IF \E id \in run[r].pending : Matches(ledger[i], id, run[r].snap)
         THEN Credit(run[r].snap, ledger[i].memo, i)
         ELSE run[r].snap]
  /\ UNCHANGED <<file, parsable, writers, overlaid, ledger, quoted, api, failures>>

(* A Horizon call fails: the loop over the page is left, the copy is kept. *)
HorizonFails(r) ==
  /\ WatcherFree
  /\ run[r].pc \in {"fetch", "match"}
  /\ failures < MaxFailures
  /\ failures' = failures + 1
  /\ run' = [run EXCEPT ![r].pc = "match", ![r].todo = {}]
  /\ UNCHANGED <<file, parsable, writers, overlaid, ledger, quoted, api>>

CheckTruncate(r) ==
  /\ run[r].pc = "match"
  /\ run[r].todo = {}
  /\ Truncate(Watcher)
  /\ run' = [run EXCEPT ![r].pc = "text"]
  /\ UNCHANGED <<file, overlaid, ledger, quoted, api, failures>>

CheckWrite(r) ==
  /\ run[r].pc = "text"
  /\ WriteText(Watcher, run[r].snap)
  /\ run' = [run EXCEPT ![r] = IdleRun]
  /\ UNCHANGED <<ledger, quoted, api, failures>>

-----------------------------------------------------------------------------
(***************************************************************************)
(* checkManualMark(): after a failed check the file is read once more.     *)
(***************************************************************************)
MarkManual(store) ==
  [id \in Ids |->
     IF store[id].status = "PENDING" /\ store[id].manual
     THEN [store[id] EXCEPT !.status = "PAID", !.tx = DemoTx, !.manual = FALSE]
     ELSE store[id]]

ManualRead(r) ==
  /\ WatcherFree
  /\ run[r].pc = "manual"
  /\ run' = [run EXCEPT ![r] =
       IF ManualFallback /\ parsable /\ MarkManual(file) # file
       THEN [pc |-> "match", snap |-> MarkManual(file), pending |-> {}, todo |-> {}]
       ELSE IdleRun]
  /\ UNCHANGED <<file, parsable, writers, overlaid, ledger, quoted, api, failures>>

-----------------------------------------------------------------------------
(***************************************************************************)
(* A process is killed and started again: what it held in memory is gone,  *)
(* a file it had truncated stays truncated.                                *)
(***************************************************************************)
Killed(p) ==
  /\ writers' = writers \ {p}
  /\ overlaid' = overlaid \ {p}

CrashWatcher ==
  /\ MayCrash
  /\ \E r \in Runs : run[r].pc # "idle"
  /\ Killed(Watcher)
  /\ run' = [r \in Runs |-> IdleRun]
  /\ UNCHANGED <<file, parsable, ledger, quoted, api, failures>>

CrashApi ==
  /\ MayCrash
  /\ api.pc # "idle"
  /\ Killed(Api)
  /\ api' = IdleApi
  /\ UNCHANGED <<file, parsable, ledger, quoted, run, failures>>

-----------------------------------------------------------------------------
RunStep(r) ==
  \/ CheckRead(r) \/ CheckReadFails(r)
  \/ FetchTransactions(r)
  \/ \E i \in 1..Len(ledger) : MatchTransaction(r, i)
  \/ CheckTruncate(r) \/ CheckWrite(r)
  \/ ManualRead(r)

Next ==
  \/ \E id \in Ids, amount \in Amounts : CreateRead(id, amount)
  \/ CreateTruncate
  \/ CreateWrite
  \/ \E memo \in Ids \cup {NoMemo}, amounts \in SUBSET Amounts : Pay(memo, amounts)
  \/ \E id \in Ids : EditManualMark(id)
  \/ \E r \in Runs : RunStep(r)
  \/ \E r \in Runs : HorizonFails(r)
  \/ CrashWatcher
  \/ CrashApi

Spec == Init /\ [][Next]_vars

(***************************************************************************)
(* setInterval keeps starting runs, an awaited call returns or throws, and *)
(* a synchronous write that has begun goes on: weak fairness of every run  *)
(* and of the request being served.  Nobody is obliged to create a payment *)
(* or to pay.                                                              *)
(***************************************************************************)
Fairness ==
  /\ \A r \in Runs : WF_vars(RunStep(r))
  /\ WF_vars(CreateTruncate \/ CreateWrite)

FairSpec == Spec /\ Fairness

-----------------------------------------------------------------------------
ApiState ==
  [pc : {"idle", "write", "text"}, id : Ids \cup {NoMemo}, snap : Store]

RunState ==
  [pc : {"idle", "fetch", "match", "text", "manual"}, snap : Store,
   pending : SUBSET Ids, todo : SUBSET Nat]

TypeOK ==
  /\ file \in Store
  /\ parsable \in BOOLEAN
  /\ writers \subseteq {Api, Watcher}
  /\ overlaid \subseteq writers
  /\ ledger \in Seq(Transaction)
  /\ quoted \in [Ids -> Amounts \cup {NoAmount}]
  /\ api \in ApiState
  /\ run \in [Runs -> RunState]
  /\ failures \in Nat

(***************************************************************************)
(* A record that says PAID is backed: its txHash is a transaction of the   *)
(* ledger that carries the payment's memo and exactly the amount the       *)
(* customer was quoted, or the demo fallback is on and marked it.  The     *)
(* watcher decides on a copy that may be many steps old and writes it over *)
(* whatever the API wrote meanwhile, so nothing but the content of every   *)
(* copy in flight protects this.                                           *)
(***************************************************************************)
BackedBy(id, tx) ==
  \/ ManualFallback /\ tx = DemoTx
  \/ /\ tx \in 1..Len(ledger)
     /\ ledger[tx].memo = id
     /\ quoted[id] \in ledger[tx].amounts

PaidIsBacked ==
  \A id \in Ids : file[id].status = "PAID" => BackedBy(id, file[id].tx)

(***************************************************************************)
(* Why PaidIsBacked holds: every copy of the records, on disk or in the    *)
(* memory of either process, is sound.  A record in a copy has the amount  *)
(* its customer was quoted, and only the request being served holds a      *)
(* record nobody was quoted yet.                                           *)
(***************************************************************************)
SoundRecord(store, id) ==
  /\ store[id].status = "PAID" => BackedBy(id, store[id].tx)
  /\ store[id] # Absent => store[id].amount = quoted[id]

SoundCopy(store) == \A id \in Ids : SoundRecord(store, id)

ApiCopySound ==
  IF api.pc = "idle"
  THEN api.snap = NoPayments
  ELSE /\ api.id \in Ids
       /\ quoted[api.id] = NoAmount
       /\ api.snap[api.id] # Absent
       /\ api.snap[api.id].status = "PENDING"
       /\ \A id \in Ids \ {api.id} : SoundRecord(api.snap, id)

CopiesAreSound ==
  /\ SoundCopy(file)
  /\ \A r \in Runs : SoundCopy(run[r].snap)
  /\ ApiCopySound

(***************************************************************************)
(* A customer's payment on the ledger that the record of the file does not *)
(* show yet, with the file in a state that can be read.                    *)
(***************************************************************************)
Corrupt == ~parsable /\ writers = {}

Owed(id) ==
  /\ \E i \in Page : Matches(ledger[i], id, file)
  /\ file[id].status = "PENDING"

(***************************************************************************)
(* While Horizon's page still shows the transaction, a payment that was    *)
(* made is eventually recorded as PAID, unless an overlapping write has    *)
(* removed the record or mangled the file.  Overlapping runs with older    *)
(* copies and failed calls may take the mark back, but not forever.        *)
(***************************************************************************)
PaidEventually ==
  \A id \in Ids :
    Owed(id) ~> \/ file[id].status = "PAID"
                \/ file[id] = Absent
                \/ Corrupt
                \/ ~ \E i \in Page : Matches(ledger[i], id, file)

(***************************************************************************)
(* docs/MVP_ARCHITECTURE.md, API Routes: POST /api/create-payment "Creates *)
(* a new payment record" and GET /api/payments "Lists all payments": what  *)
(* was created and answered is in the file whenever it can be read.        *)
(***************************************************************************)
CreatedIsListed ==
  parsable => \A id \in Ids : quoted[id] # NoAmount => file[id] # Absent
=============================================================================
