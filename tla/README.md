# Paya: specifications in TLA+

This directory holds the TLA+ specifications of Paya, the TLC configurations
that check them on small instances, and the TLAPS proofs of the theorems that
hold for every instance. Paths below are relative to the repository's root
unless they name a file of this directory.

## 1. The system

Paya is five things that share little:

| Part | Runs as | Keeps its state in |
| --- | --- | --- |
| the MVP checkout: `frontend/app/api`, `frontend/watcher.js` | two Node.js processes | `data/payments.json` |
| the frontend: `frontend/app`, `frontend/lib`, `frontend/components` | pages in a browser | the state of React components |
| the backend: `backend/src` | a NestJS process with Bull queues | PostgreSQL, Redis, its own memory |
| the Soroban contracts: `smartcontracts/contracts` | calls of the Stellar ledger | contract storage |
| the EVM bridges: `smartcontracts/ethereum-bridge` | transactions of EVM chains | contract storage |

The checkout is what runs today (`README.md`: the backend "is not yet integrated
with frontend"). Of the contracts, `merchant_vault`, `payment_registry` and
`escrow` are deployed. The backend's relayer drives the swap contracts.

How the parts interact:

- **Shared file.** The API and the watcher read the whole of `payments.json`,
  change a copy and write the copy back. Nothing synchronises them.
- **Shared rows.** Most backend services load an entity, await something (a
  chain, an HTTP endpoint, another table) and save the whole entity. Requests
  and queue jobs overlap at every await. Few of them use a transaction; one uses
  a unique index to detect the overlap (the event store).
- **Queues.** Bull delivers a job at least once and repeats it after an
  exception; billing, webhooks, notifications and e-mail rely on it.
- **Answers.** A page asks, and what it does with the answer is what its handler
  closed over when it asked. Answers come late, out of order or not at all. The
  payment page has a socket besides, whose connection drops and comes back.
- **Chain calls.** A contract call is sequential and atomic: a call that fails
  leaves no trace. What is hard is the sequence of calls, by callers who do not
  know of each other, and the books that must still add up after it.

### 1.1 Inventory

Components with a module, and the properties that make them correct:

| Component (module) | State | Operations | What makes it correct |
| --- | --- | --- | --- |
| Checkout (`Checkout`) | the file; the copies held by the API request and by overlapping runs of `check()`; the ledger | create a payment; poll Horizon; match by memo and amount; write back; manual mark | PAID has a matching transaction; a payment made is marked in the end |
| Atomic swap, Soroban (`SwapPromise`, `AtomicSwap`) | swaps, fee, admin, pause | initiate, complete, refund, set fee, pause | settled once, by preimage or after the time lock |
| EVM bridges (`EvmBridge`) | swaps, `tokenBalances`, holdings, supported tokens | initiate, complete, refund, withdraw fees, token list, pause, receive | the books never exceed the holdings and cover the open swaps |
| Relayer (`Relayer`) | rows of `cross_chain_swaps`, requests in flight | store, relay completion, relay refund, handle failed relay | a row says what the chain did; requests end |
| Liquidity pool (`LiquidityPool`) | pools, LP balances, fee, pause | add, remove, swap, set fee, pause | the product never falls; a removal takes its share |
| Merchant vault (`MerchantVault`) | balances, pending deposits, checkpoints | deposit, two-phase deposit, commit, roll back | locked covers pending; a rollback undoes its own deposit |
| Orchestration (`Orchestration`) | orchestrations, step checkpoints | create, execute, execute a step, roll back, cancel, pause | the status tells what ran, and what ran is rolled back |
| Event store (`EventStore`) | `event_store`, the position counter | `appendEvent`, `appendEvents`, start-up query | conditional appends win once; batches are whole |
| Subscriptions, replay (`Subscribers`, `Replay`) | lists of subscribers, replays under way | subscribe, unsubscribe, notify, replay, time travel | each event once and in order |
| Projections (`Monitoring`, `Analytics`) | memory and rows | handle, timers, load, rebuild, fail, restart | rows show what the events say, and so does a process that loaded |
| Subscription billing (`Billing`, `Plans`, `Usage`) | subscriptions, jobs, invoices, plans, usage records | create, pay, pause, resume, cancel, change plan, meter | a counted cycle has its invoice; cancelled stays cancelled; billed what the plan says |
| Webhooks (`Webhook`) | endpoint, events, answers, queue | trigger, deliver, retry, replay | a queued event is delivered or given up |
| Notifications (`Notifications`) | endpoint, deliveries, mails, two queues | send, deliver, count failures, disable, delete | nothing is sent twice; a disabled endpoint stays so |
| Payment splits (`PaymentSplit`) | split, distributions, milestones | execute, distribute, confirm, fail, retry, cancel, refund, complete | credited only what is distributed; complete when confirmed |
| Refunds (`Refunds`) | refunds, dispute, evidence, policy, audit trail | create, process, fail, reverse, dispute, upload, reconcile | each refund paid once and audited |
| Conversion engine (`Conversion`, `Quotes`, `Routes`) | conversions, volume, price cache | create, execute, retry, cancel, price, choose a route | nothing paid out that was not swapped; each payout in the day's volume once; sound prices |
| Unified settlement (`Settlement`) | batches, approvals | aggregate, net, approve, execute | executed only as approved; no swap paid twice, no amount a wrong number |
| Price oracle (`Oracle`) | cached price, sources | get, timed update, switch sources | the price is at most so old |
| Dashboard (`ListPages`, `DisputeDialog`, `KeyPage`, `SettingsPage`, `WithdrawalPage`) | rows, forms, requests under way | load, filter, act, upload, revoke, save, withdraw | what is shown is what the server has; what is offered is accepted |
| Payment pages, gateway (`LivePage`, `CheckoutPage`) | page, socket, callbacks, the gateway's two maps | open, close, refresh, connect, drop, join, leave | an open page is watched; an outcome stays |
| Fraud detection (`NetworkAnalysis`) | the transaction graph | clusters, cycles, similarity | the searches find what they are defined to find |

Components without a module are in section 7. `PROJECT.json` lists all of them
with their sources under `components`, and under `hazards` the forty behaviours
hardest to test, each at its line with the properties about it; section 6 adds
lesser ones.

### 1.2 Modules

```
                          SwapPromise
                           ^        ^    (refinement)
                  AtomicSwap        EvmBridge <- BridgeAndPagesProofs
AtomicSwapProofs -^  ^  ^
                     |  | Chain == INSTANCE
MCContracts ---------+  Relayer <- MCJobs --> Checkout <- CheckoutProofs
  \--> LiquidityPool                 \-----> Billing, Webhook, Notifications
  \--> MerchantVault, Orchestration
MCRequests --> PaymentSplit, Refunds, Conversion, Quotes, Routes,
               Settlement, Oracle, Plans, Usage
MCEvents --> EventStore
  \--> Subscribers, Replay, Monitoring, Analytics
MCPages --> ListPages, DisputeDialog, KeyPage, SettingsPage, WithdrawalPage,
            LivePage, CheckoutPage, NetworkAnalysis

ContractsProofs -> MCContracts    JobsProofs   -> MCJobs
RequestsProofs  -> MCRequests     EventsProofs -> MCEvents
BridgeAndPagesProofs -> EvmBridge, MCPages (they share no name)
BridgeAndPagesProofs, ContractsProofs -> SumLemmas
JobsProofs uses AtomicSwapProofs and CheckoutProofs by INSTANCE
```

A component's module holds its constants, state, actions, specification and
properties, in the order of the code. `...Proofs` modules hold theorems.
Operators headed `Slip:`, next to the definition they resemble, are deliberate
mistakes: each property, and each conjunct of one that has several, has a slip
that must break it, which shows that it can fail in the instance it is checked
in. `mutants` in `PROJECT.json` names one per property.

The `MC...` modules give values to constants. Five of them also put components
that share no state side by side in one run: a variable `part`, chosen in the
first state and never changed, says which one moves, and the others rest in
their initial states. The states of such a run are the disjoint union of its
parts' own state spaces, so an invariant or an action property of a part is
checked exactly as if the part ran alone, and a liveness property is checked
under the part's own fairness, asked only where that part moves. Where two parts
use the same two names (as rows of one, as requests of another), a permutation
of those names is a symmetry of each part alone, hence of the union; runs with a
temporal property beyond `[][A]_v` (`jobs`) use no symmetry.

## 2. How the modules correspond to the code

`PROJECT.json` maps every definition to its lines. The conventions:

- **Grain.** An action is what runs without letting anybody else in: a
  synchronous stretch of a Node.js process or a page between two awaits, a
  statement or a transaction of PostgreSQL, a contract call. A call that throws
  or is refused is no step, except where it leaves something behind (a counter,
  a row).
- **Rows.** TypeORM's `save` of an entity that was read writes the whole row it
  was read as, changes included; saving a row that was removed in between
  inserts it again. `update`, `increment` and `delete` touch the database only.
  `bigint` and `decimal` columns come back from the driver as text: adding to
  them appends digits, comparing two of them compares texts, subtracting
  converts, and `BigInt()` throws on a decimal. Migrations are in the repository for
  the bridge's and the projections' tables only (`synchronize` is off outside
  development); for the others the entities are taken for the schema.
- **Data.** Ids, parties, memos, secrets and amounts are small sets; texts,
  logs, dates and events for the outside are left out. Contract arithmetic is
  kept, with its truncation. `i128` and `uint256` overflows are out of reach of
  the amounts modelled and are not modelled; the *underflow* of an unsigned
  subtraction is, as a call that reverts.
- **History.** A variable or a field that no code has (what was sent, which
  requests overlapped, what went wrong) only records what happened so that a
  property can say "unless"; no guard reads it, except the bounds.
- **Sources that would not build.** Some Soroban crates use an identifier or a
  type the checked-in file does not define. The modules translate the statements
  as written.

### 2.1 Checkout

`file` is the last text written to `payments.json`, by id instead of a list;
`parsable` is FALSE between the truncation and the write of
`fs.writeFileSync`, and may stay so if the process is killed in between, or if
the API and the watcher both truncated before either wrote (`overlaid`): the
shorter text leaves the tail of the longer one behind. The API handles
`create-payment` in one synchronous read (`CreateRead`), the truncation and the
text (`CreateTruncate`, `CreateWrite`, which also answers the customer: `quoted`).
A run of `check()` reads (`CheckRead`), awaits Horizon for each pending payment
(`FetchTransactions`), awaits the operations of each transaction of the page
(`MatchTransaction`), writes its copy (`CheckTruncate`, `CheckWrite`), then reads
again for the manual mark (`ManualRead`). `HorizonFails` is the `catch` of line
65; the write follows it. `CheckReadFails` is a file that cannot be parsed.
Between two processes anything interleaves; within the watcher a synchronous
write does not (`WatcherFree`). `Pay` is a transaction of the ledger, external.

The memo of a checkout is the payment's UUID, 36 characters; Stellar's text memo
holds 28 bytes. The module takes the memo to be attached as the watcher expects it.

### 2.2 SwapPromise, AtomicSwap, EvmBridge

`SwapPromise` is what a hashed timelock contract promises: a swap is locked once,
then claimed by somebody who shows the preimage of its lock, or returned from its
time lock on, and never both. `AtomicSwap` is `atomic_swap_contract`: `fee` and
`admin`, the pause, and the full record of each swap; a completion after the
time lock is accepted as long as no refund came first, as in the code.

`EvmBridge` is `EthereumBridge.sol` and `PolygonBridge.sol`, which differ in
names and in the check of the constructor's fee (`MaxFirstFee`). `held` is what the
contract really owns, `tokenBalances` its own book. ETH sent in excess, and sent
along with a token, is kept and not booked (`Received`). `TransferToken` fails
for accounts that refuse (`Refusers`) and reverts the call. The comparison of the
secret with the hash lock is commented out in the source, so `CompleteSwap`
takes any secret; the bridge implements `SwapPromise` only when all digests are
the same, which is how `SettlesOnce` instantiates it.

### 2.3 Relayer

`Relayer` composes with `Chain == INSTANCE AtomicSwap`: all six variables of the
contract, all its actions, plus the row of each swap and the requests. A
request reads its row (`Relay`, with the guards of the code), sends the
transaction (`ExecuteSwapCompletion`, `ExecuteSwapRefund`: the chain's step may
be taken although the receipt is lost), and saves the row it read
(`SaveCompleted`, `SaveExpired`, `SaveRefunded`), which may itself fail.
`HandleFailedRelay` reads the row once and attempts up to `MaxRetries` times.
`Crash` drops the requests. The two chain calls are placeholders in the source;
the module gives them the behaviour their comments prescribe. `timeLock` is
compared with a clock in milliseconds by the backend and in seconds by the
contract; the module has one clock.

### 2.4 LiquidityPool, MerchantVault, Orchestration

One action per entry point of the pool, the branches of `add_liquidity` being
actions of their own (a new pool, a pool whose shares are all burnt, the
others). `Quot` is Rust's division, truncated towards zero, also for the
negative amounts the code does not refuse. `sqrt` is Newton's iteration as
written. The contract moves no tokens and authenticates nobody; the module has
no accounts of tokens either.

The vault keeps a balance per merchant, a pending deposit per merchant and
orchestration id, and a checkpoint per orchestration id *alone*: two merchants
deposited to under one id overwrite each other's. `disturbed` remembers for which
pending deposits that happened, or a credit came in between.

`Orchestration` is the one contract module whose steps are finer than calls:
within a call of `execute_orchestration` the stored record is written by the loop
from the copy it loaded first and by `execute_step` from a copy of its own, and
which of the two is last decides what is stored (`WriteBack`). `running` is the call
under way; no other begins before it ends. `ran` is what the placeholder steps did.

### 2.5 EventStore, Subscribers, Replay

`rows` is the table; `held` of a call are the rows of its open transaction.
`GetCurrentStreamVersion`, `Prepare`, `InsertEvent` and `UniqueViolation` are
`appendEvent` between its awaits; `InsertInBatch`, `Commit` and `BatchViolation`
are `appendEvents`. An insert that meets an uncommitted row of the same key waits,
as PostgreSQL's unique index makes it wait (`Waits`). `DatabaseError` may lose
the answer of an insert or of a commit that took effect. `BootQuery` and
`BootAssign` are the query that the constructor does not await. `JsValue` and
`PlusOne` are a number and "plus one" as JavaScript has them when the number came
as text: versions, positions and the strict comparison of line 41 depend on it.

`Subscribers` is the two lists of the service (a stream's subscribers, all
streams' ones) and the loop of `notifySubscribers`: a position in a list that
`unsubscribe` splices while a handler is awaited. A subscriber of the past is
registered first and replayed to afterwards. An append whose insert or commit took
effect and whose answer is lost throws ahead of that loop (`AnswerLost`): the events are
stored, a later replay of the past brings them, and nobody is told. `Replay` is the loop of `replayStream`
over versions and of `replayAll` over positions (`replaysAll` says which of the two
runs): a batch, which is a set taken from by the order of the numbers, and the number the next one starts from, which is the last one with a
digit `1` appended (`NextFrom`); handlers are awaited while events are appended.
A new version is 1 or leads on from a stored one, by one or by a digit, and is not taken
yet; it may fill a gap below others (`AppendVersion`). `VersionsFollow` shows of
`EventStore` that its streams have just such versions. Any position may come, and come
again (`AppendPosition`): the count goes back after a failed append and begins
anew after a restart.

### 2.6 Monitoring, Analytics

The memory, the row and the events of each projection. Handlers change memory and
await the upsert of the row; a timer drops an ended payment a minute later, from
memory and then from the table; a rebuild clears memory, then the table, then handles
all events of the store again; a restart empties memory. An expiry is handled by
nobody. Every statement may throw (`NotSaved`, `RebuildThrows`, `ClearThrows`): the
event store logs the error of a live event, a rebuild is given up.

A load reads rows whose amount is a `DECIMAL(20,8)`; the driver brings it as
`'12.00000000'`, and `BigInt()` throws. A query therefore loads nothing, changes nothing
and answers with an error; it has no action. The constructor's load is not awaited and
nobody catches what it throws: the modules take the build to run on a Node.js (15 or
later) that ends a process with such a rejection, so that a process which starts over a
saved row falls (`LoadThrows`), and one whose table is empty goes on (`LoadDone`). A
delete behind a timer is not awaited either (`RemovalThrows`). What overlapped or threw
is kept in `disturbed`, `missed`, so that the properties can say what is true without.

### 2.7 Billing, Plans, Usage

A handler of `Billing` reads the row, changes its copy and runs a list of awaited
steps (`invoice`, `save`, `schedulePayment`, ...), of which any may throw. The
processor is one of the handlers, the API's calls the others. Of the three
processors in `subscription.processor.ts` the module of the backend registers one,
`PaymentProcessor`; jobs for the end of a trial and of a pause are parked forever
(`parked`). Bull runs a job that threw again, up to `Attempts` times in all. `Plans` is the change of a plan with its prorated
invoice, the editing of plans, and what a merchant does to an invoice; `Usage` a
client that asks whether a quantity is within its limit and then records it.

### 2.8 Webhook, Notifications

`Webhook` has the queue's two kinds of retry: Bull's own for a job that threw, and
a new job that the processor queues for an event that failed. `answers` is what
the endpoint answered. Stopping the endpoint, events triggered for a stopped one
and the operator's replay are actions.
`Notifications` has two queues: deliveries to an endpoint, whose processor counts
failures on the endpoint's row (reading it, awaiting, saving it whole, so that it
competes with the requests that enable, disable or delete it), and mails.

### 2.9 PaymentSplit, Refunds, Conversion, Settlement

Each has a set of requests; `Begin` reads a row, later actions save the copy, and
`Throw` may end a request at any await and leave the rest undone. `Completed`
statuses are derived from the copy, not from the row. `Conversion` numbers its
executions, so that a property can ask whether hash, swap and deposit of a row
belong to one. `Settlement` keeps batches in memory, loses them on restart, and
nets each group of swaps of one payee into one payment.

Amounts of swaps and conversions are decimal columns, that is texts, and `sum +
swap.amount` puts them one behind another. `Strung` is such a text: the amounts by their
swaps. `ReadsAs` is the number it is: that of a single swap, none with a second point in
it. Approvals are counted against a number that is configured and does not look at the
total. The daily volume of `Conversion` is the number of amounts in its text: the first
is compared with the limit, and with one of them in the text nothing is refused any more
(`WithinLimit`). Every conversion has the same amount there.

### 2.10 Quotes, Routes, Oracle

`Quotes` is price discovery: sources that answer or not, the quartile filter for
outliers, the weighted average, the cache. What is quoted is a function from the sources
that answered to their prices; the price at an index of the sorted ones is told by how
many prices are below it and up to it (`Sorted`), and sums run over sets of sources,
since neither depends on the order of the answers. Prices are small integers, weights
hundredths, an average a fraction. `Routes` takes the best DEX and the best bridge
from answers that may lack their number (`NaN`, which every comparison is false of
and every sort leaves where it is). `Oracle` is the cache of one pair against its timer;
the price is always 1, because the code divides the weights' sum by itself.

### 2.11 Pages and gateway

A page module has what the server has, what the page shows, and the requests under
way with what their handlers closed over: a filter (`ListPages`), the dispute
selected when an upload began (`DisputeDialog`), the list a row is deleted from
(`KeyPage`), the form (`SettingsPage`, `WithdrawalPage`, `CheckoutPage`). Where the
service behind a page is not in the repository it answers as it likes. The refund,
dispute and split services are: `Effects` has the statuses they accept for each action,
and `Serve` their checks of the caller. A split's `Execute` is refused whatever its
status, for the page names `'current_user'` as the executor where the service asks for
the merchant's address; retry and cancel go by the user's id, which is the address of
some splits (`ours`) and not of others. What throws inside `processRefund` leaves the
refund PROCESSING (`ProcessThrows`). The pages call `/api/...` of their own host; that
these calls reach the backend's controllers is taken for granted.
`LivePage` is the payment page, the browser's one `PaymentWebSocket` with its
callbacks and its reconnection, the wire, and the gateway's two maps
(`clientWatchers`, `paymentWatchers`). No broadcast is modelled: nothing calls
`PaymentBroadcastService`, and the gateway sends to a room that no socket joins.

### 2.12 NetworkAnalysis

The state is the recorded edges and the search that runs on the graph it has read:
the marks, the queue and the component of the breadth-first search
(`BeginComponent`, `VisitNext`, `ComponentFound`), the calls of the recursive
depth-first one, a depth at a time (`FindCycles`: the calls change nothing but what
they return). Edges may be recorded while a search runs, which goes on with what it
has read; in which order nodes and neighbours come up decides nothing and is left
open. What is found is compared with definitions without any search: clusters are the
intersections of sets that no edge leaves (`Clusters`), circles the injective closed
walks (`Circles`), and the similarity of neighbourhoods, whose two queries edges may come
between, is compared with the clusters.

## 3. Runs

All runs check deadlock off: each of these systems may stop, because its clients
are not obliged to do anything and because bounds end.

| Run | Module | Distinct states | Checks |
| --- | --- | ---: | --- |
| `checkout_safety` | `Checkout` | 798,263 | `PaidIsBacked`, `CopiesAreSound` |
| `checkout_lost_record` | `Checkout` | violation | `CreatedIsListed` |
| `evm_bridge_books` | `EvmBridge` | 135,168 | `BooksWithinHoldings`, `OpenSwapsCovered`, `BeyondNeverShrinks`, `SettlesOnce` |
| `evm_bridge_withdraw` | `EvmBridge` | violation | `WithdrawalLeavesPrincipal` |
| `relayer_expired` | `Relayer` | violation | `ExpiredMeansFailed` |
| `event_store_positions` | `EventStore` | violation | `PositionsAreUnique` |
| `orchestration_rollback` | `Orchestration` | violation | `RollbackUndoesWhatRan` |
| `contracts` | `MCContracts` | 505,317 | `TypesOK`, `SettlementIsConsistent`, `KeepsPromise`, `SharesMatchSupply`, `ProductNeverFalls`, `RemovalTakesItsShare`, `LockedCoversPending`, `QuietRollbackIsNeutral`, `StatusTellsWhatRan` |
| `jobs` | `MCJobs` | 187,485 | `TypesOK`, `RowsAreBacked`, `RecordedWasDone`, `NothingSentTwiceUnlessBroken`, `RevivedOnlyByStaleSaves`, `PaidEventually`, `WorkEnds` |
| `requests` | `MCRequests` | 1,202,743 | `TypesOK`, `SplitsKeepBooks`, `RefundsKeepBooks`, `ConversionsKeepBooks`, `PricesAreSound`, `BatchesAreApproved`, `BillsFollowPlans` |
| `events` | `MCEvents` | 1,710,257 | `TypesOK`, `ExpectationMetOnce`, `BatchIsWhole`, `ReplaysMissOnlyBehindBatches`, `SubscribersMissNothing`, `ProjectionsFollowEvents` |
| `pages` | `MCPages` | 1,865,510 | `TypesOK`, `ScreensFollowServers`, `MoneyGoesOutOnce`, `WatchersFollowPages`, `SearchesAreExact` |

The conjunctions of the last four runs name their parts' properties, which are
stated in the parts' modules, each with what may go wrong after all.

What the runs show:

- **checkout_safety.** Whatever the overlapping copies overwrite, no record says
  PAID without a transaction that carries its memo and the exact amount its
  customer was quoted (or the operator's demo mark). The reason is
  `CopiesAreSound`: every copy in flight, however old, is sound by itself.
- **checkout_lost_record.** The watcher reads, the API creates a payment and
  answers, the watcher writes its copy back: the payment is gone.
- **evm_bridge_books.** The books never claim more than the bridge holds; what
  they claim covers the open swaps except for what was withdrawn; what lies beyond
  the books (fees, excess ETH) is never paid out by anything; a swap settles once.
- **evm_bridge_withdraw.** Consequently `withdrawFees` pays the owner out of the
  principal of open swaps.
- **relayer_expired.** A completion that succeeded on the chain leaves its row
  EXPIRED when its receipt or its save is lost.
- **event_store_positions.** The late answer of the unawaited start-up query
  takes the position counter back to positions already handed out.
- **orchestration_rollback.** `execute_orchestration` stores its first copy over
  what each step recorded, so that a later rollback finds no completed step,
  reports success and undoes nothing.
- **contracts.** A settled swap carries one settlement, with the preimage or
  after the time lock, and the contract implements `SwapPromise` step by step. Two
  truncations and any fee never lower the product of a pool at constant shares; a
  removal takes no more than its shares stand for; balances and supplies agree in
  total although they are recorded per provider and per pool. The vault's locked
  balance covers the pending deposits, whatever ids are reused, and a rollback
  restores the balance that is there, unless something credited the merchant or
  replaced the checkpoint meanwhile: both exceptions happen, and then the rollback
  takes away or gives money that is not its own. The status of an orchestration
  still tells what ran although its steps do not.
- **jobs.** Under fairness, relay requests end although every attempt may fail;
  a payment job that is due leaves its queue; a queued webhook event, a
  notification and a mail are delivered or given up; a transaction that stays on
  Horizon's page is recorded, unless an overlapping write removed the record or
  mangled the file. A counted billing cycle has its invoice although the invoice,
  the row and the next job are three steps that can each fail. A cancelled
  subscription and a disabled endpoint come back only by the save of a row read
  before. Rows saved COMPLETED or REFUNDED are backed by the chain.
- **requests.** What overlapping requests with stale rows cannot do: complete a
  split nobody confirmed, credit a recipient with more than was distributed, pay
  a refund again one after another, count evidence that is not there, pay out
  what was not swapped, count a payout twice in the day's volume or a retry that did
  not fail, execute a batch without its approvals, pay a swap twice in one plan or
  write a total that reads as a wrong number, bill an amount no plan had. And what they
  can: each property names the overlaps that break it.
- **events.** Of the `appendEvent` calls that expect the same version, one is
  stored; a batch is whole or absent, also when its answer is lost. A replay
  misses only events between the end of a batch and the number with a digit more,
  and a replay of all streams those that share the position of a batch's last event.
  A subscriber that stays misses an event only when another left the list while it went
  round, or its append threw after it was stored. With nothing under way, the rows of
  the projections show what the events say, and so does a process that has loaded,
  unless rebuilds or restarts overlapped a handler or a statement threw; a failed upsert
  of a total is made good by the next.
- **pages.** When the last answer has come, lists, dialogs and forms show what
  the server has, unless answers crossed in the ways each property names; what a fresh
  list offers is accepted but for a split's execution, another merchant's split and a
  retry too many; a button pressed twice pays once; the gateway watches what the browser thinks it
  does and what an open page shows, unless the page was opened while the socket
  was up; the graph searches find what they should in every graph of four edges
  and while edges are added.

### 3.1 Why the bounds are enough

- *Two of each actor.* The hazards are between two copies, two requests, two
  handlers or two calls. Where only one of a pair can be a request (the payment
  processor, a monitored payment's handler and timer), there are one and the other.
- *Checkout.* Two payments and two overlapping watcher runs; a page of one
  transaction and two on the ledger make one of them leave the page and allow a
  wrong match. One Horizon failure may come at any await of either run. The run
  `jobs` leaves out kills and the manual fallback.
- *Swaps.* Times 0..3 hold initiation before, at and after every time lock.
  Two secrets distinguish the right one from a wrong one. The relayer has one swap
  and two requests: rows and requests of different swaps share nothing. Three
  attempts are the code's own number.
- *EVM bridge.* A fee above 100 % makes initiation underflow until it is
  lowered. `MaxHeld` caps deposits at three times the amount: one open swap,
  one settled one and a withdrawal.
- *Pool.* Amounts 1 and 3 make every division truncate, 101 makes products whose
  roots do not come out, -1 and the minimum -10 take the branches the code leaves
  open. Four calls fit creation, a swap, a removal of everything and a new addition.
- *Vault.* Five calls over two merchants and two ids: two pending deposits under
  one id, a credit in between, a rollback and a commit. An amount of -1 is accepted
  by the code and by the module.
- *Orchestration.* Two steps are a first and a last one; a timeout of 0 is late at
  once, one of 1 after the second ledger.
- *Billing.* Two days are two periods: a cycle, its successor and what overlaps
  both. Two jobs are the scheduled one and a second that a call adds; two attempts
  (three in the code) are a first and a last one. Three API calls.
- *Webhooks, notifications, mails.* Three attempts of a job and two retries of an
  event overlap; two faults, one less than the attempts, reach every await; one
  break and one operator's call do the same for two notifications on one endpoint.
- *Splits, refunds, conversions.* Four or five calls fit both requests of an
  overlap, the failure of one, a retry and what comes after it. Retry limits of 1
  and 2 are reached. A daily limit of one conversion is reached and, by text, passed.
- *Quotes, routes, oracle.* Every combination of answers of the five sources;
  three prices make an outlier of each; fees below, at and above where the scores cross;
  fourteen quarters of a period are three ticks of the timer and what is late.
- *Settlement.* Three swaps, two of one payee; three approvers of whom two suffice,
  a submission before, between and after; two batches; a restart.
- *Event store.* Two calls with batches of two, between whose events everything else can
  happen; two restarts repeat the start-up. Replays read batches of two of up to
  four events, numbered one by one by a caller that keeps count or with a digit more
  by one that read the version back (1, 2, 21, 22, ...), up to version 32, gaps filled
  late or never; positions are 1, 2, 3 and 21 in any order and as often as they come.
- *Projections.* Four disturbances (rebuilds, restarts, failures, overlaps) of one
  payment; two creations and two reloads of each total.
- *Pages.* Two fetches, two clicks and up to five inputs cross in every order. Two
  connections and two visits are a page left, a socket dropped and both again.
- *Network.* Four entities and four edges: chains, stars, triangles with a tail, with a
  doubled edge (a ring of three) and circles; cycles of up to three of them; one edge
  more than a search has read.

### 3.2 Fairness

Weak fairness, and only of what runs by itself; nothing is assumed of customers,
parties, operators, clocks, chains or endpoints.

- **Checkout:** each watcher run and the write of a request being served.
  `setInterval` keeps starting runs, an await returns or throws, a synchronous
  write goes on. `MaxFailures` makes Horizon recover. Kills are left out of the
  fair run: nothing restarts the watcher by itself.
- **Relayer:** each request's step, as every await settles and a request whose
  promise settled goes on.
- **Billing:** each handler's next step and the processor taking a due job.
- **Webhooks, notifications, mails:** the worker: Bull hands a waiting job to an
  idle worker, and its awaits settle.

## 4. Proofs

TLAPS proves these for all values of the constants, from the named assumption of
each module (`ConstantsAssumption` and the like: sets of numbers are numbers,
sentinels are not members, bounds are natural). Theorems of `MC...` modules are
about the specification the run checks.

| Module | Theorem | Says | Inductive invariant |
| --- | --- | --- | --- |
| `CheckoutProofs` | `CheckoutInvariant` | `TypeOK /\ CopiesAreSound` | itself |
| | `PaidIsBackedHolds` | `PaidIsBacked` | the same |
| `AtomicSwapProofs` | `SwapInvariant` | `TypeOK /\ SettlementIsConsistent` | itself |
| | `SwapKeepsPromise` | `AtomicSwap` implements `SwapPromise` | `TypeOK` |
| `BridgeAndPagesProofs` | `BooksInvariant` | `TypeOK /\ BooksWithinHoldings` | itself |
| | `FeesAreNeverPaidOut` | `BeyondNeverShrinks` | the same |
| | `OpenSwapsAreCovered` | `OpenSwapsCovered` | the same, with sums |
| | `SettlesOnceHolds` | `EvmBridge` implements `SwapPromise`, digests identified | `TypeOK` |
| | `MoneyGoesOutOnceHolds` | `MoneyGoesOutOnce` of the pages | `FormInv`, `OrderInv` |
| | `WatchersFollowPagesHolds` | `WatchersFollowPages` | `LiveInv` |
| | `ScreensFollowServersHolds` | `ScreensFollowServers` | `ListInv`, `DialogInv`, `KeyInv`, `SettingsInv` |
| | `SearchesAreExactHold` | `SearchesAreExact` | `NetInv` |
| | `PagesTypesHold` | `TypesOK` of the pages and the network | all of these |
| `ContractsProofs` | `ProductNeverFallsHolds`, `RemovalTakesItsShareHolds` | the pool's action properties | pool types |
| | `SharesMatchSupplyHolds` | `SharesMatchSupply` | `PoolInv` |
| | `SqrtIsFloor` | `Sqrt` is the floor of the root | a loop invariant |
| | `LockedCoversPendingHolds`, `QuietRollbackHolds` | the vault's two properties | `VaultInv` |
| | `StatusTellsWhatRanHolds` | `StatusTellsWhatRan` | `SagaInv` |
| | `TypesHold` | `TypesOK` of the four contracts | all of these |
| `JobsProofs` | `RelayerInvariant`, `RowsAreBackedHolds` | `RowsAreBacked`, alone and in the sum | `IInv` |
| | `RecordedWasDoneHolds`, `RevivedOnlyByStaleSavesHolds` | billing, webhooks, notifications | `BillInv`, `HookInv`, `NoticeInv` |
| | `NothingSentTwiceUnlessBrokenHolds` | notifications and mails | `NoticeInv` |
| | `TypesHold` | `TypesOK` of the five parts | all of these |
| `RequestsProofs` | `SplitsHold` | `SplitsKeepBooks` | `SplitInv` |
| | `RefundsHold` | `RefundsKeepBooks` | `RefundBooksInv` |
| | `ConversionsHold` | `ConversionsKeepBooks` | `ConversionInv`, `VolumeInv` |
| | `BatchesHold` | `BatchesAreApproved` | `SettlementInv` |
| | `BillsHold` | `BillsFollowPlans` | `PlanInv`, `UsageInv` |
| | `PricesAreSoundHold` | `PricesAreSound` | `QuoteInv`, `OracleInv`, `RouteInv` |
| | `RequestTypesHold` | `TypesOK` of the nine parts | all of these |
| `EventsProofs` | `EventStoreInvariant` | `Inv` of the event store | itself |
| | `ConditionalAppendOnce`, `BatchesAreWhole` | `ExpectationMetOnce`, `BatchIsWhole` | `Inv` |
| | `VersionsLeadOn` | `VersionsFollow` | `FollowInv` with `Inv` |
| | `ReadersInvariant` | all of `MCEvents`' invariants at once | `SumInv` |
| | `ProjectionsFollowEventsHold` | `ProjectionsFollowEvents` | `CountsInv`, `MonInv` |
| | `SubscribersMissNothingHold` | `SubscribersMissNothing` | `SubInv` |
| | `ReplaysMissOnlyBehindBatchesHold` | `ReplaysMissOnlyBehindBatches` | `ReplayInv`, `FollowInv` |
| | `EventTypesHold` | `TypesOK` of the store and its readers | all of these |

- **Checkout.** `PaidIsBacked` is not inductive: the next write may come from a
  copy made long ago. `CopiesAreSound` says of *every* copy what `PaidIsBacked`
  says of the file, and that an unanswered request holds one record nobody was
  quoted yet. It uses that the ledger only grows and that a quoted amount never
  changes (ids are fresh). `CreditIsSound` and `MarkManualIsSound` are the two changes
  a copy can undergo.
- **Swaps.** `Consistent` relates the record of a swap, the secret revealed and
  the clock, and is inductive with the types. The refinement maps `status` to a phase
  and goes action by action; every administrative step is a stutter.
- **EVM bridge.** Each action moves `held` and `tokenBalances` by the same
  amount or moves `held` further up: `PayoutIsSound` and `ReceiptIsSound`. The refinement
  of `SwapPromise` goes as for `AtomicSwap`; the owner's operations are stutters.
- **Sums.** `OpenSwapsCovered`, `SharesMatchSupply` and `LockedCoversPending` add up a function over a finite set, by a fold. An induction over
  the set is out of the prover's reach, so `SumLemmas` argues by a smallest
  counterexample: if two ways to add up a subset differ, there is a smallest size at
  which they do, and taking one element out gives a smaller one. From this
  follow the facts the proofs use: a sum with one value changed, with one element
  more, the comparison of two sums point by point, and a sum of two functions times a
  factor each (`SumLinear`).
- **Liquidity pool.** The work is in the lemmas about truncated division: the output
  of a swap is at most `amount * out / (in + amount)` for any fee (`OutputBound`), so
  the product does not fall (`SwapProduct`); a removal leaves at least the remaining
  shares' part (`RemovalShare`). Newton's iteration never goes below the root
  when it starts above it, so where it stops falling it is the floor.
- **Vault and orchestration.** `VaultInv` adds to the types that a pending deposit was
  paid in (`PaidIn`), that the locked balance covers the pending deposits (`Covered`),
  and what a checkpoint tells of a merchant whom nothing disturbed since
  (`CheckpointsTell`). `SagaInv` says of every copy of a saga, stored or about to
  be, what `StatusTellsWhatRan` says of the stored one.
- **Relayer.** A row is saved from what its request did on the chain a while ago, so
  `RowsAreBacked` needs `SavesAreBacked`: what a request is about to save has
  happened. Both survive every step of every other request and of the parties
  because a settled swap keeps its status (`SettledStays`). The types of the chain
  are those `AtomicSwapProofs` proves, taken over by `INSTANCE`.
- **Billing, webhooks, notifications.** The same pattern: a copy read long ago must
  be as sound as the row. `BillInv` says of every handler which invoice, row and job it
  has made (`CallOK`) and that a job is active exactly while the processor runs it
  (`QueueOK`); `HookInv` that an attempt marked as delivered in any copy was answered;
  `NoticeInv` counts, for each delivery and mail, acceptances against the awaits
  that threw and the answers that were lost, with one more allowed while a worker is
  between sending and saving.
- **Splits, refunds, conversions, batches.** Every request carries a row it read.
  `SplitInv`, `RefundBooksInv` and `ConversionInv` state what each such copy may claim
  and that its claim stays true whatever the others save: confirmed distributions stay
  confirmed, hashes stay in the trail, transfers are only added. What overlaps break
  is named by ghost sets that only grow. `VolumeInv` keeps the length of the volume's
  text equal to the number of executions handed in on its day. `SettlementInv` ties the
  approvals to the last submission, the plan to the groups, and each text to the swaps
  whose amounts are in it: one swap's text is its number, two swaps' text none.
- **Plans and usage.** `PlanInv` says of every call under way that the amounts it holds
  are amounts its plan had, that what it is about to save is the row as it is stored
  as long as nothing overlapped (`AloneWithoutOverlap`), and it counts prorated
  invoices against changes of plan, saved or about to be (`InvoicesCounted`).
  `UsageInv`: where no client asked while another was about to record, a period has no
  record, one, or two of which the first is below the limit, and it has room for one
  while a client is about to record. What `MapThenSumSet` returns for so few records is
  shown by giving the function it chooses (`TotalOfTwo`).
- **Prices.** `QuoteInv` bounds the time since each fetch under way began, so that the
  cache of a slow fetch still ends in time; `OracleInv` puts the last successful fetch
  at most two periods before the next tick; `RouteInv` says of each quote where
  its number and score come from. For any quotes of any prices, an index has one price
  (`SortedIs`), the quartiles are among the quotes and the third is no lower than the first
  (`QuartilesAre`), so both are left and the code's median, meant for the case that none
  is, is never used (`InliersAre`). A sum of weighted prices lies between its bounds times
  the weights (`WorthIsBounded`), and since the lowest and the highest quote bound what is
  left, the average lies between them (`PricesLieWithin`). A lone quote is put in place by
  counting: all other prices are below it or none is (`WildCounts`), so that three, four
  and five quotes say which quartile it is (`WildSorted`).
- **Event store.** `ExpectationMetOnce` needs that a stored conditional append has
  the version its expectation leads to (`ConditionalVersion`) and that keys are
  unique among committed rows (`SingleKeys`), which in turn needs to know
  which rows an open transaction holds (`HeldIsOwn`, `LoopHasEvents`) and what a
  call that ended has stored (`RowsAreFinal`, `DoneIsStored`). `MaximaExist` replaces
  finiteness: the versions and positions that occur have a maximum, which is all
  that the queries use.
  `VersionsFollow` says of the rows what `Replay` takes for granted. `FollowInv` says it of
  the rows together with those that an open transaction holds, since the later events
  of a batch lead on from its earlier ones (`CallFollows`); a call counts on from 0 or
  from a stored version (`IsBase`); and the rows of two transactions have different keys,
  because an insert waits for an uncommitted row of its own (`Apart`).
- **Analytics.** Each kind of event is counted by itself, and `KindOK` is its
  invariant: bounds that always hold, equality with the number of creations while
  nothing overlapped, failed or was cut short, and an upper bound while no rebuild
  overlapped. A failed upsert is no lasting exception, since the next one writes the
  whole number. The attempt to prove `NeverTooMany` failed at a restart in the middle of
  a rebuild: with a third reload the total can be too high, which two reloads do not
  show. Such a rebuild has overlapped too; the ghost `missed` says so now.
- **Monitoring.** Between overlaps one thing is under way at a time: handling or
  rebuilding (`WorkPhase`), a start (`StartPhase`), a rebuild that has cleared
  (`ClearPhase`); within a phase, what a payment shows follows from its last event
  handled (`PaymentOK`). That unfinished payments keep their rows when events and
  rebuilds overlap rests on `IsShown`: each is in memory exactly when its row is there or
  will be, or a rebuild under way brings both, or the process is about to fall over the
  row. A process that has loaded started over an empty table, so all it shows it has
  handled itself.
- **Subscribers.** An event a subscriber has not got is still on its way to it
  (`IsAhead`: the loop of one call has yet to come to its place in the list), or
  somebody left the list while it went round or its append threw (`cut`), or the past
  still brings it. The same count
  gives the other two properties: the copies got, on their way and owed by the past are
  at most two with a past and one without (`OnceOK`), and an event on its way holds
  back the later ones of its append. It needs that a list holds each member once,
  that the records of a call are consecutive versions and that the batches of two calls
  are disjoint. `LeaveAhead` is where `splice` under the loop's index bites: the
  others move up by one.
- **Replays.** The properties speak of what was handled, and need the batch and what
  is still to be read: what a handler has seen comes before the batch, the batch
  before the number the replay goes on from (`InTurn`), and what the replay wants was seen, is
  in the batch, is still to come, or was skipped (`Complete`). The order is by number, and
  then by arrival; what a query with a limit returns are the events with fewer than
  that many before them (`Leading`), and since ranks grow along the order (`RankGrows`) a
  batch precedes everything it leaves out (`LeadingAre`). Versions are different
  (`Different`), so at most `v` events have one up to `v`, and a limit that is a version
  reaches far enough.
- **Withdrawals and orders.** `FormInv`: whenever a form can be sent the page shows the
  balance there is, and a form that is filled in and not sent is unpaid. `OrderInv`:
  the payments made or about to be made are at most the amounts typed.
- **Payment page and gateway.** Messages are on their way in order, so `LiveInv` says of
  each connection what it will watch once they have arrived (`Watches`): what the
  browser believes. Its other half is about fetches: one at a time unless two
  raced, so none with an older answer is left once the page shows an outcome. The attempt
  found two overlapping arms in a CASE of the model, whose choice TLA+ leaves
  open; they are disjoint now.
- **Lists.** Unless the history excuses it, something will still bring what the server
  has: an action that went well and will fetch, a fetch not answered yet, or one
  answered with the rows as they are (`ListFresh`). Filters agree (`FiltersAgree`), and two
  actions under way are on different rows, which are as they were clicked (`ClicksApart`).
  A click that was refused was an execution, another merchant's split, a retry or a
  creation (`Excused`), since no other action came between.
- **Dispute dialog.** An upload selects the dispute again as it was when it began, so
  `CountsFollow` bounds what every upload under way will show; `StepsFollow` is the
  case in which the user waits for each answer: one request under way, which finds the
  status that the dialog showed.
- **Keys and settings.** `KeyInv` says of each answer under way which keys it was made
  from, `SettingsInv` that what is being saved is the form but for later edits.
- **Network.** `NetInv` has a part for each search. Rings: the neighbours of what is in
  the component are in it or in the queue, and both lie in one cluster (`Frontier`);
  what is done is whole clusters, listed once each if they count (`Collected`). So with
  an empty queue the component is closed under neighbours and is its cluster. That
  four members are enough and three need eight connections is arithmetic on the
  average, every node having a connection (`NodesConnect`, `RiskTells`). Cycles: the calls
  under way are exactly the walks of their depth from every node (`CallsAt`), and found
  are the circles that are shorter (`CirclesBelow`); at `MaxLength` nothing is left.
  Similar entities share a neighbour in edges of which the ones are a prefix of the
  others, so no set without an edge out of it holds only one of them (`SimilarShare`).

Only model-checked: the liveness properties `PaidEventually` and `WorkEnds`
(fairness and ENABLED are beyond the prover); and, of the runs that expect a violation,
the counterexamples. Every other property that a run checks is
proved.

## 5. Disagreements between code and documentation

Each is a run with the status `violation`, and an entry of `findings`:

1. `frontend/watcher.js:71` loses payments created while it waits for Horizon
   (`docs/MVP_ARCHITECTURE.md:55`).
2. `EthereumBridge.sol:265` pays "accumulated fees" out of the swaps' principal.
3. `cross-chain-relayer.service.ts:157` marks as failed what has succeeded.
4. `event-store.service.ts:20` hands out global positions twice
   (`backend/src/event-sourcing/docs/ARCHITECTURE.md:16`).
5. `orchestration_contract/src/logic.rs:153` forgets the steps that ran before the
   rollback of `:249`, "completed steps in reverse order", looks for them.

Others have no run of their own, because they are plain once seen, or appear as
the exception that a property names:

- the oracle's price is 1 whatever its sources quote (`Oracle`, `AggregatePrices`);
- a replay leaves out events, of a stream or of all, and so the state it rebuilds is
  not theirs (`event-replay.service.ts:84`, `:155`; `Replay`, `NextFrom`);
- trials and pauses never end by themselves, as their processors are not
  registered (`subscription.processor.ts:47`, `:82`; `Billing`, `parked`);
- a cancelled or completed split goes back to EXECUTING when its failed
  distributions are retried (`payment-split.service.ts:433`);
- a webhook event is marked a success when its endpoint answered with an error
  (`webhook-queue.service.ts:77`; `Webhook`, `DeliverWebhook`);
- plan amounts compare as text, so that the invoice for a change of plan may
  have the wrong sign ("100" is less than "20"; `Plans`, `Prorated`);
- the Soroban payment registry overwrites a paid payment (`lib.rs:91`);
- the total of a batch and the amounts of a plan are texts put together
  (`unified-settlement.service.ts:71`, `:122`), where the test expects 3000 of
  numbers that no driver brings (`unified-settlement.service.spec.ts:97`; `Settlement`,
  `Strung`);
- the limit on a merchant's daily volume (`conversion-engine/README.md:249`) keeps
  nothing out once the day has its first conversion, since the sum it is compared with
  is such a text (`risk-management.service.ts:150`, `:243`; `Conversion`, `WithinLimit`);
- the projections cannot read back the rows they write
  (`realtime-monitoring-projection.service.ts:47`,
  `payment-analytics-projection.service.ts:35`,
  `subscription-analytics-projection.service.ts:44`, against `DECIMAL(20,8)` in
  `1700000000002-create-projection-tables.ts`): their queries fail, and a restarted process
  falls (`LoadThrows`). Amounts that came as numbers instead of bigints throw earlier, at the
  addition (`payment-analytics-projection.service.ts:82`); the modules have these throws
  among the failures. The rebuild service is offered to callers that the repository does not
  have yet;
- no projection handles `PaymentExpired`, which `EVENT_CATALOG.md:179` says two do
  (`Monitoring`, `Status`);
- the split page offers `Execute`, and the service refuses it always
  (`payment-splits/page.tsx:129`, `payment-split.service.ts:103`; `ListPages`, `Effects`);
- the refund controller takes `req.user.id` and `merchantId` (`refund.controller.ts`),
  which `jwt.strategy.ts:42` does not set, so that the audit entry without its author
  throws and a processed refund stays PROCESSING (`ListPages`, `ProcessThrows`);
- an event is stored and nobody is told, when the answer to its insert or commit is
  lost (`event-store.service.ts:97`, `:116`; `Subscribers`, `AnswerLost`).

## 6. Lesser hazards

Below the forty of `PROJECT.json`, and modelled: a completion after the time lock
(`atomic_swap_contract/src/lib.rs:232`), unvalidated amounts and fees (`:172`); a bridge
fee above 100 % (`EthereumBridge.sol:89`), recipients that refuse (`:297`), a pause that
stops completions and not refunds (`:173`); the relayer's retries that go by a
status read before (`cross-chain-relayer.service.ts:260`) and its one `catch` for two
failures (`:152`); the position counter counted back by a conflict
(`event-store.service.ts:92`), versions as text (`:50`); a removal of a negative number
of shares (`liquidity_pool_contract/src/lib.rs:276`), rounding (`:287`), a pool without
shares that still swaps (`:175`); a failing endpoint disabled while it is saved
(`webhook.processor.ts:105`); a job of a retried event that overlaps the job's own
attempts (`webhook-queue.service.ts:104`); retries of a completed or cancelled split; an upload that
overwrites a resolution (`refund.service.ts:377`); the daily volume counted at the end
(`conversion.service.ts:205`), and compared as text (`risk-management.service.ts:150`); an API key shown after it was revoked
(`api-keys/page.tsx:69`); a rollback of a completed orchestration
(`orchestration_contract/src/logic.rs:236`); a voided invoice retried
(`subscription-invoice.service.ts:190`); usage summed as text
(`usage-tracking.service.ts:103`). Not modelled: the owner of the bridge cannot add the
native asset again once it is removed (`EthereumBridge.sol:242`); prices that are no
number in a malformed answer (`price-discovery.service.ts:186`); the rapid
chains and fans of `detectMoneyLaundering` (`network-analysis.service.ts:141`), a count each
and no search. `Webhook` lets a
delivery go on whose row, by the entities, could not be stored for want of an event id
(`webhook-delivery.service.ts:32`): it does more than the code, and what holds of it
holds of the code.

## 7. What is not modelled, and why

`PROJECT.json` says of each component, in its note, what of it is left out. As a whole:

- *Escrow contract:* no call ever sets the status that `release_escrow_atomic` asks for.
- *Payment registry contract:* one record and a flag.
- *Refund, payment split and subscription contracts:* the checked-in crates do not
  compile, no contract calls another, and within a call nothing interleaves. The
  services of the same names, where requests do, are modelled instead.
- *Fraud detection contract:* counters that nothing reads.
- *CQRS buses and message queue:* maps from a name to a handler; the broker is a
  placeholder.
- *Dunning:* no caller creates a dunning record. *Risk scores:* the query joins a
  relation the entity does not have. *Behaviour analysis:* fails on its first event.
- *Authentication, ML service, scripts, static pages:* access control, numbers,
  I/O, presentation.
- *Stellar, Horizon, PostgreSQL, Bull, EVM, browsers:* external, modelled by how
  the code uses them.

## 8. Plan

What is left, most important first:

1. Snapshots, subscribers and projections composed with `EventStore` itself
   rather than with what each sees of it; `VersionsFollow` does so for the versions
   that replays read.

## 9. Running

```
tlc -workers 2 -config Checkout_safety.cfg Checkout
tlc -workers 2 -config Jobs.cfg MCJobs
tlapm EventsProofs.tla
```

`PROJECT.json` lists the module of each configuration. The longest run, `pages`,
takes three to four minutes.
