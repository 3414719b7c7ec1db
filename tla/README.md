# Formal model of income-bot

TLA+ modules for the parts of income-bot in which several processes, transactions, files or messages
must agree and for its money arithmetic, TLC configurations that check them on small instances, and
theorems checked by TLAPS for every instance. The program forecasts crypto prices, trades them **on
paper** (a virtual portfolio) and tells its owner about it in Telegram.

Paths below are relative to `src/src/income_tg/` unless they start with a capital letter
(the documents in `src/`).

## 1. Inventory

`compose.yaml` starts one PostgreSQL and these processes: `init`, `bot`, `collector-bybit`,
`collector-okx`, `features`, `scheduler`, `worker`, `health`. They share nothing but the database and
the directory of model files. `storage/database.py` gives each unit of work one transaction at READ
COMMITTED, which commits at its end and rolls back on an exception.

```
exchange -> collector -> PostgreSQL -> features -> PostgreSQL -> worker -> PostgreSQL -> bot -> owner
                                          |                         ^
                                          +-> scheduler -> files ---+
```

| Component | State | Operations | Hard behaviour | What makes it correct | Modules |
|---|---|---|---|---|---|
| Trading worker and paper ledger (`worker/`, `paper_trading/repository.py`) | orders, signals, predictions, positions, ledger events | poll, exit, predict, decide, reserve, execute, commit | a cycle reads at several moments and writes at one; repeated business events; aborted cycles; several workers | one signal and one booking per order; ledger and positions agree; funding once; openings are paid | TradingWorker, PaperAccount, PaperTrading |
| Paper execution (`paper_trading/engine.py`) | none | open, close, funding, exit levels | prices through stops, losses beyond the margin | money is conserved | PaperExecution |
| Manual portfolio ledger (`portfolio/`) | ledger events and entries | deposit, withdraw, buy, sell, reconcile | check then insert; redelivered, concurrent updates | recorded once; told "saved" only if it is; never negative; `/reconcile` leaves its snapshot | PortfolioLedger |
| Risk engine (`risk/`) | none | guard, size | rounding, limits one opening at a time | the loss of a position and of a day stay below their limits | RiskSizing, PaperTrading |
| Signals (`signals/`) | signals, outbox rows | decide, record | age of a signal; a decision that was evaluated elsewhere | a signal per decision; decides as evaluated | TradingWorker, PaperTrading |
| Outbox and delivery (`notifications/`) | outbox rows | enqueue, lock a batch, send, mark, commit | lost answers, crashes after sending, two senders | no repetition without a reason; final outcomes; no endless retry | NotificationOutbox |
| Job scheduler (`jobs/scheduler.py`, `jobs/store.py`) | job states in a JSON file | claim, succeed, fail, restart | leases, failures, crashes | no drift, no lost occurrence, no result twice | JobScheduler |
| Retraining and activation (`jobs/`, `models/registry.py`) | model files, `champion.json`, `training_runs`, `model_versions` | train, register, evaluate, activate, check, roll back, record | files and tables without a common transaction; two tasks; labels arrive meanwhile | the champion is always loadable and registered; tables agree; tests on unseen points | ModelActivation |
| Model training and evaluation (`models/`, `jobs/database_training.py`) | none shared | divide points, fit, choose a threshold, measure, admit | purging at the edges; rules written twice | admitted for the trades that will be made | Partitions, ModelSelection |
| Order-book stream (`market_data/orderbook.py`, `collector.py`, `transport.py`) | a local book, stored rows | snapshot, delta, gap, reconnect, restart | lost, late and one-sided updates | what is stored was published | OrderBookStream |
| Candles and backfill (`market_data/repository.py`, `backfill.py`) | market tables | stream, backfill, poll, upsert | late, repeated and half-formed candles | what says closed is final | MarketStore |
| Order-book retention (`jobs/retention.py`) | order-book rows | delete in batches | order of ids and times | nothing recent is deleted, nothing old kept | MarketStore |
| Features (`features/`) | feature vectors | read, build, store | several queries while rows change | final data of both exchanges, nothing later than itself | MarketStore |
| Operations (`operations/`) | heartbeats, readiness snapshot | beat, probe, publish | probes while rows age; outages of the database | ready means that all parts have been alive | Readiness |
| Backtest (`backtest/`) | local | walk forward, fill, liquidate | order of fills, liquidation with a debt | no look-ahead; the trades explain the curve | Backtest |
| Bot (`bot/`) | none | commands, status | concurrent updates | see the ledger | PortfolioLedger |
| Storage (`storage/`), configuration | schema | sessions | unique keys, row locks | the atomicity the modules use | all |

`PROJECT.json` lists the same components with their files and status, and the hazards with the line
where each one bites.

## 2. Plan

The modules were written in the order of the weight of what they model; all that were planned exist:
TradingWorker with PaperAccount, NotificationOutbox, PortfolioLedger, OrderBookStream, JobScheduler,
ModelActivation, then the amounts (PaperNumbers, RiskSizing, PaperExecution, PaperTrading), model
selection (Partitions, ModelSelection), MarketStore (candles, retention and features together, because
they share the tables), Readiness and Backtest. Which module uses which:

```
PaperNumbers <- RiskSizing ----+                       Partitions <- ModelSelection
             <- PaperExecution +-> PaperTrading <- ModelSelection
             <- Backtest                                Partitions <- ModelActivation
TradingWorker -- implements --> PaperAccount
```

What is left, in order: an abstract queue (at least once, given up after a bound) that NotificationOutbox
implements, and one atomic champion that ModelActivation implements up to the row that a crash may lose;
the pollers of metrics and exchange rates, several instruments in MarketStore; the worker's
commit as the producer of the outbox in one module; and theorems that the two refinements hold, step by step.
No module uses a RECURSIVE operator, so that all of them can be proved about.

## 3. Modules and their code

### TradingWorker, PaperAccount

`_run_cycle` (`worker/cli.py`) is one transaction that reads at different moments. A cycle is split where
other transactions can come between: `BeginCycle` (vector and balances), `ReadPositions` (count and rows,
accruing funding), the decision (`AutoExit`, `SkipEntry`, `Predict`, `Enter`, `Leave`, `Hold`), `ReserveOrder`
(INSERT ... ON CONFLICT DO NOTHING, which waits for an uncommitted row with the same key) and one of four
commits. `view[w]` is what the transaction has read, `order[w]` the order it places; every other variable is a
committed table. `Abort` is an exception, a lost connection or a crash anywhere. Left free: the forecast, which
exit level a candle has hit, the cost of a fill and the payout of a close (small sets; costs are compared with
the balance the cycle has read).

Funding rates have times of their own. `metrics` is the table of derivative metrics; metric m was observed after vector
m - 1 and not after vector m. `StoreMetric` stores any of them when it likes: there may be none, the same one may be the newest for
several vectors, one may come after newer ones or without a rate, and an update may take its rate away. Two metrics between
the vectors of two cycles are two with a vector between them on which no cycle runs. `FundingMetric` is the newest one not after the vector of
the cycle, if it has a rate; `Funded` charges it unless `last_funding_at` is as late. An opening leaves `last_funding_at` empty,
so that the first charge may be of a metric observed before it. The query for the metric and the one for the positions are one
step. What is charged is counted by metric (`funding`); amounts are PaperTrading's.

Left out: equity points, texts, LONG and SHORT as different things: those are PaperTrading's.

PaperAccount says what the paper portfolio promises: a position is opened once against one debit, closed at most
once against one credit, each booked under its own key. The refinement maps `held` to the OPEN rows, `settled` to
the CLOSED rows and `entries` to the ledger.

### PaperNumbers, RiskSizing, PaperExecution, PaperTrading

The same cycle with its amounts. A number is an integer of the smallest unit; rates are integers over
`Scale`; a product or quotient is rounded half-even where the code's Decimal arithmetic rounds, only on a coarser
grid (`PaperNumbers`). `RiskSizing` is `RiskEngine.assess`: guards, the reasons in their order, the sizing and the
assertions at its end. `PaperExecution` is `PaperExecutionEngine` for market orders of a linear perpetual: fills,
`RequiredCash`, `WithFunding`, exit levels with gaps (`Trigger`) and the liquidation price.

In `PaperTrading` a cycle of one worker is one step. `NewVector` fixes what cycles see (book, candle, funding rate);
any number of cycles may run on it. A cycle is `AutoExit`, `Bankrupt`, `NoOrder`, `Enter` or `Leave`. `due` says
that the newest metric is later than the position's `last_funding_at`, `ordered` that the vector's business key has an
order, `budget` is the `stop_loss_amount` the signal was recorded with; `today.regular` and `realised` are history for the
properties. `NewChampion` replaces the threshold with that of any candidate that ModelSelection promotes, `NewDay` is
midnight UTC.

### Partitions, ModelSelection

How labeled points are divided into fit, calibration, threshold and test, with the purge of `Horizon` points at each
cut (`models/dataset.py`, `models/training.py`), and how a threshold is chosen and a candidate measured and admitted
(`jobs/database_training.py`, `models/evaluation.py`). What a classifier predicts is data: points
`[up, down, no_trade, ret]`.

### ModelActivation

The two tasks of the scheduler process, `weekly` and `bootstrap`, run `PersistedRetrainingWorkflow` under its lock:
`Begin` or `Skip` (new labels since the last recorded run), `Train` (and register), `Reject` or `Accept`, `WriteFile`
once per file in the order of `FileModelActivator`, `Healthy` or `Unhealthy`, the files of the rollback, `Persist`.
`Fail` is an exception in any of these places, `Crash` the end of the process: both leave the files as they are.
`Look` is the bootstrap task's look at `champion.json` outside the lock. `Observe` adds a label at any time: the points are
counted, trained on and tested on at three moments, and `learned` remembers the last label a model has seen. Files of
a model that is never activated cannot be observed, so a half-registered model counts as not trained.

### NotificationOutbox

A sender's iteration is one transaction: `Fetch` locks due rows (FOR UPDATE SKIP LOCKED), `Accepted`, `MarkSent`
and `MarkFailed` handle them one by one in the order of priority and creation, `Commit` ends it, `RollBack` is a
crash or a failed commit; `Poll` finds nothing due. Telegram keeps what it has accepted: `delivered` counts it, and
`lost` is a history variable for messages whose row will not say so (a lost answer or a rollback). `FallDue` is the
passing of time, without clocks.

### PortfolioLedger

Each task handles one update: `Receive`, `ReadBalances` (or `Refuse`), `Lookup` of the idempotency key, `Insert`
with commit, `Acknowledge`; `Fail` is any exception before the commit or the end of the bot. An update may be
delivered again up to `MaxDeliveries` times. The five kinds of commands differ in the entries they make and in
the balances they require. `read` remembers the length of the ledger a command has read: with it the properties
tell races from errors.

### OrderBookStream

The exchange (external) publishes the best levels of a changing book: a snapshot to a new subscription, then deltas
in order, chained by `previous_sequence` (OKX) or not (Bybit). The collector drops late updates (`DropStale`),
applies snapshots and deltas, detects gaps, gives up crossed books, and stores the view; a book without both
sides raises and starts the stream over. `Disconnect` keeps the local book, as `stream_json` reconnects inside the
stream; `Restart` does not. `truth` and `dropped` are history: what the exchange had published when it sent the
message, and whether something was dropped since the snapshot. Prices are the levels; quantities are left out.

### MarketStore

The market tables of one instrument and everybody who writes or reads them: two collectors, the features process and
the retention job. Time is counted in bars. A candle is `[closed, final, stored]`: whether its row says closed, whether
its values are the ones the exchange ended the bar with, whether there is a row. A collector backfills the last day at its
start and the last quarter of an hour every five minutes, chunk by chunk: `Poll` starts a range, `Answer` is the exchange
answering a request, `Save` parses, normalises and upserts what the answer had, `FetchFails` gives up. The stream is `Publish`
(of an open candle or of the closed one), `Handle`, `Disconnect` (what is under way is lost) and `Restart`. `ReadPrimary` and
`Build` are the first and the later queries of `build_latest`: the rows may change in between. `StartSweep` and `DeleteBatch`
are the retention job; `InsertBook` stores a book with the exchange's time, which may be early or late. `Handle` and `InsertBook`
check the lateness of an event (`market_data/collector.py:116`) and store it in one step, whereas the code awaits a transaction in
between (`market_data/repository.py:152`, `:199`): the limits in `OldStaysClosed` and `ExpiredBounded` are exact up to the length
of one transaction. The constant `Deployments` lists which tasks run together; a deployment is chosen in the initial state.

### JobScheduler, Readiness

**JobScheduler**: `claim_due`, `succeed` and `fail` are atomic (lock of the store, then a replaced file), so file and memory
are one variable. `tick` goes through the jobs in their order (`turn`); `Skip`, `Claim`, `Succeed`, `Fail` and
`LoseLease` are its cases. Handlers last any time: `Pass` moves the clock. `Crash` restarts the process. Several
schedulers on a store are what the contract in `jobs/models.py:78` speaks of; compose.yaml starts one.

**Readiness**: the sidecar's check is `StartCheck` (its `now`), one `Probe` per component, each with the timeout, and
`Publish` or `CheckFails`. Time is kept as ages (`Second`), of heartbeats and of the check, that stop growing where larger
ones make no difference. `ProcessChanges`, `Beat` and `Outage` are the processes and the database. `check.beating` is
history: who had a young heartbeat when the report is dated.

### Backtest

`BacktestEngine.run` and `run_walk_forward` with the three baseline strategies. `ProcessBar` is one bar of the event loop
(pending decision at the open, liquidation, equity at the close, the strategy's next decision), with the final liquidation on the
last one; `NextFold` opens the next window. A quantity is at least a unit: a Decimal quotient keeps the
digits of the smallest one. An open less the slippage is assumed to be a price of the grid. Two runs go side by side on two markets that agree on their first `shared`
bars: looking ahead is a difference between them that comes too early.

## 4. Runs

All passing runs are exhaustive. Bounds are constants of the modules, or numbers of a module named as such.

| Run | Instance | Shows |
|---|---|---|
| `worker_single` | one worker, 3 vectors, 2 metrics, costs 1 and 2 of capital 3, payouts -1 and 2, one exit reason | the deployed worker: positions, funding and ledger agree, openings are paid; implements PaperAccount |
| `worker_duplicate` | two workers with the same arguments, 2 vectors, no metrics | reservation of the key leaves one signal and one booking |
| `outbox` | 2 senders, 2 notices, 2 attempts, 2 rollbacks, fair | repetitions accounted for, final outcomes, no endless retry |
| `ledger` | 2 tasks, deposit, buy, sell, reconcile, 2 deliveries each | recorded once, acknowledged truly, negative only by a race, snapshot taken |
| `orderbook` | 4 prices, depth 2, both kinds of feed, 4 updates, 3 under way | stored rows were published, complete where they can be, no false alarm |
| `jobs` | 2 schedulers, 2 jobs, time 0 to 5, 1 crash, fair | no drift, leases respected, results recorded once, due jobs claimed and repeated until they succeed |
| `activation` | 2 tasks, 4 models, 12 to 17 labels, 2 new ones per run, horizon 2 | champion loadable and registered, tables never contradict it, runs spaced, tests on unseen points |
| `trade` | 5 market scenes, funding 0 and 2 per mille, 4 forecasts, 4 candidates, 2 trades, 1 metric | cash explained to the unit, losses and days within their limits, sizing, trades as evaluated |
| `market` | bars 1 to 3, 2 collectors, 1 fault, 1 open update and 1 poll each, 2 books, two deployments | closed is final and stays so, vectors rest on final data, expired books go |
| `market_gap` | the same | *violation*: a vector is built over a gap (TECHNICAL_SPECIFICATION.md:406) |
| `readiness` | maximum age 2, timeout 1, fair | ready means beating; a death is noticed |
| `backtest` | every sequence of 6 bars of 4 shapes, windows of 2 and 3 bars, 4 strategies, 2 plans | no look-ahead, trades explain the cash, debts at most the slippage |

Why the bounds are enough:

* *worker*: three vectors let a position be opened, held and closed, and another one be opened; losses beyond the margin, a
  balance below zero and one between the two costs all occur. With two metrics a position can be charged for one from before its opening,
  hold that one over several vectors, be charged for a second one, find one that comes late or has lost its rate. Predictions are
  not counted there (`PredictionCap`); `worker_duplicate` counts them, and has no metrics, of which its properties do not speak.
* *outbox*: two notices of different priority and two attempts give a batch that fails in the middle; two rollbacks allow one
  before and one after a delivery. A batch holds both notices (`BatchLimit`): a notice that fails does not stop the other one of its
  batch, while a queue longer than a batch is not exercised.
* *ledger*: two deliveries with two tasks let both deliveries of one update race; deposits and purchases compete for one balance.
  A withdrawal differs from a purchase only in its entries and is not in the instance.
* *orderbook*: depth 2 with two or three published levels makes trimming and refilling happen; three messages under way span a
  dropped one, its successor and a new snapshot.
* *jobs*: intervals 2 and 5 with leases 2 and 3 in five units of time let leases expire, occurrences be skipped and retries cross them.
* *activation*: four models give a champion, its replacement, an interrupted activation and the run after it. From 12 labels on
  with horizon 2 all three divisions succeed; 17 labels let the three readings of one run differ.
* *trade*: the scenes are a calm market, a doubled price, a crash through stop and liquidation, a candle that
  hits stop and target, and a stale one. The candidates get different thresholds, one of them close to a third, and two are refused. Two trades let the second be sized after the loss of the first, on the same
  or on the next day. `Scale` 1000 keeps each rounding visible: the assertions at the end of `assess` do fail by a unit here
  (see section 7), and `SizingWithinAUnit` says by how much at most.
* *market*: a chunk of two bars and a backfill of four make an answer end in a bar that is being formed; one fault is a lost
  candle, a lost connection, a restart or a failed request at any moment. One deployment has the collectors and the features,
  the other the order-book stream and the scheduler: they share only the books, so that the product is not needed.
* *readiness*: an age of two with a timeout of one separates young, old and "young when the check began".
* *backtest*: three bars of test let a decision be made, executed and closed or liquidated, two windows a fold be followed by
  another. The shapes leave a position of three times the cash just solvent (one for each side), liquidate it within the bar, and open beyond
  what it can pay.

Deadlock is checked except in `ledger`, `market`, `market_gap` and `backtest`, where the instance ends: every delivery is used
up, the last bar has passed, or the last window is done.

The property of each run is broken by a mutant of a definition (the operators marked `(mutant)` beside the definition they
replace), which shows that the case it speaks of occurs in the instance. `TypeOK` of each module is a statement of the
types for the reader and for the proofs; it is not among the properties of the runs.

## 5. Fairness

* `outbox`: each sender keeps polling and Telegram answers or times out, so weak fairness of handling and of
  committing; `FallDue` is fair because time passes. Rollbacks are bounded by `MaxAborts`: nothing can be promised about a
  loop whose transactions fail for ever. Nothing is assumed about acceptance.
* `jobs`: weak fairness of each scheduler's `Tick`, because `serve` ticks until it is stopped and a handler ends.
  Whether a handler ends before its lease, succeeds or fails is left open, and time need not advance.
* `readiness`: time passes, and the sidecar goes on: compose.yaml restarts it, and each probe ends with its timeout. Nothing
  is assumed of heartbeats, processes or the database; `DeathNoticed` asks only that the database answers from some time on.
* The other modules are checked for safety only. Liveness that the code does not give is not
  assumed: nothing makes the exchange send a snapshot after a gap, or the features process a new vector.

## 6. Proofs

`TradingWorker_proofs` proves for every set of workers, instruments, horizons, exit reasons and amounts, and every
number of vectors and metrics, from the assumptions named in TradingWorker (arguments, exit reasons, bounds, amounts):

* `TypeCorrect`: `Spec => []TypeOK`. `TypeOK` is not inductive: a commit writes the row of the business key a
  transaction works on, which is a key only if its vector was published. `TypeInv` adds that (`OnVector`), and
  `TypeInvariant` proves it with one step per action (`CycleType`).
* `OrderInvariant`, with its consequences `OneSignal` (`OneSignalPerOrder`) and `BookedOnce` (`FillBookedOnce`). Both
  speak of committed tables; that a commit keeps them rests on what transactions hold before: a transaction places one order
  (`SingleOrder`), its key is not committed while it executes (`ClaimFresh`), and no two executing transactions hold
  the same key (`ClaimExclusive`). The last one is what the unique key of `paper_orders` gives, and `ReserveOrder` is the only
  action that has to establish it. `CycleClaims`, `CycleSignals` and `CycleBooks` are the three parts of the step. No
  assumption about which worker serves which instrument is needed.
* `FundingInvariant`, with its consequence `FundedOnce` (`FundingOncePerMetric`), for any number of workers: every row, in the table or
  read by a cycle in progress, has been charged each metric at most once and none later than its `last_funding_at` (`FundedCharged`). The charge
  is written several steps after it was computed, over a row that may have changed; `WrittenCharged` is that funding and
  `last_funding_at` are written together, so that they fit each other whichever worker wrote last. Of two workers on one instrument the
  later commit may undo the charge of the other; no charge is made twice.
* `AloneInvariant`, with its consequences `PositionsAgree` (`PositionMatchesLedger`) and `OnePosition`
  (`OnePositionPerInstrument`), under the hypothesis `OneWorkerPerInstrument`. It is stated in the theorems and not as an assumption of the module, because TradingWorker also describes the other case, in which
  these properties fail (section 7); compose.yaml starts one worker, for BTC. A cycle reads the positions several steps
  before it writes them: `ReadInv` says that what it has read of its instrument is still so, but for the charge of at most one
  metric not after its vector (`AsRead`), `PlacedInv` that the order it holds fits that. Only the worker of the instrument can disturb
  these, which is where the hypothesis is used; rows of other instruments are left alone by every commit. The keys of an opening and of
  the position are the same (`DebitsNamed`), so that a credit finds its debit.
* `AccountImplemented` (`ImplementsAccount`): `PaperAccount` is implemented under the same hypothesis. A commit that opens is its `Open`, one that
  closes its `Close`; every other step, a funding charge and the currency exchange of the first cycle included, leaves the mapped state as it is.
* `CashCovers` (`OpeningKeepsCash`), an action property, for a single worker (`SingleWorker`): with two of them, even on different instruments,
  both may spend the balance both have read. `BalanceInv` says that the balance a cycle has read is still the sum of the
  ledger. That booking an event adds its amount to the sum is `SumAfter`: the fold over a set picks its elements in an order of its own,
  so the lemmas show that any order gives the same sum (`AnyOrder`, `AddsUpAgree`).

`Bot_proofs` proves in its first part for any number of tasks, messages and deliveries and all amounts and assets all four properties of
the run `ledger`, from the assumption about commands and balances in PortfolioLedger:

* `RecordInvariant`, with its consequences `EveryUpdateOnce` (`RecordedOnce`) and `SavedIsTrue` (`SavedIsRecorded`): what is
  about to be answered "saved" is in the ledger (`Answered`) and stays there, as nothing is ever removed. The insert looks
  for the key again, under the unique index, so that it needs nothing of the lookup before it.
* `BalanceInvariant`, with `RaceOnly` (`NegativeOnlyByRace`) and `ReconciledToSnapshot` (`SnapshotTaken`): as long as the ledger has the length
  a task has read, the balances cover the entries of its command, or its entries are the difference to the snapshot (`CheckHolds`).
  `RequiredCovers` is the arithmetic: what `_require_balances` asks for is at least what the entries take, fees included, also when fee and trade are
  in one asset. `BalanceAppend` says what an event adds to the fold that defines a balance.

In its second part it proves for any number of senders, notices, attempts and rollbacks both safety properties of the run `outbox`, from
`Producers` and `Limits`:

* `LockInvariant`: a locked row is pending, due and locked by one sender, and what is not handled yet is as it was read. `OutcomesStay`
  (`OutcomeIsFinal`), an action property, follows: a commit overwrites only what it has locked, and that is not final.
* `NoOtherRepetition` (`DeliveriesAccounted`), by the same invariant: a message accepted by Telegram belongs to the first unsent row of one
  batch, which becomes a SENT row or one more of the lost ones. That the next unsent row is well defined is `FirstIs`: priority and number of
  creation order the rows totally (`TotalOrder`), since no two rows have one number (`Numbered`).

`PaperTrading_proofs` proves for every market, rate, limit, candidate and number of trades, from the assumptions of PaperTrading
and the modules it extends (what the configuration objects and the classifiers accept):

* `EvaluationTheorem` (`EvaluatedAsTraded`): policy and evaluation are written differently and agree only for a threshold
  of more than a third. The invariant is that the threshold in use is more than a third (`ThresholdKept`), because a chosen
  threshold is the confidence of a point whose direction is actionable (`SelectedIsThird`), such a confidence exceeds a third
  (`ActionableIsThird`), and only those are promoted (`PromotedIsThird`); `ThirdAgrees` is the arithmetic.
* `CashTheorem` (`CashExplained`): the cash is the initial capital plus the realised results less what the open position has
  taken. `SettledExplained` is the lemma behind it: the cash a close books and the net result it reports, computed apart in the
  code, differ by exactly what the opening has taken. The steps are `CloseStep`, `EnterStep`, `AccrueStep` (funding changes the
  position but not what it has taken) and `OutsideStep`; the types of the position are proved along the way (`TypeInv`).

* `SizingTheorem` (`SizingWithinAUnit`): margin and cash hold exactly, because the leverage is a rounded-up ratio (`CeilingEnough`,
  `MarginFits`), and the risk to within one unit, because the quantity is a ratio rounded to the nearest (`QuotientAtMost`).
* `LossTheorem` (`LossWithinBudget`), under the hypothesis `CostsCovered`: a position is sized with at least the fee and the slippage it is charged,
  and the funding allowance of a unit is worth the fee on the slippage and five units of rounding. The settings are checked apart, so that
  valid ones need not satisfy it (a funding allowance of zero does not), but the ones in the code do: `worker/cli.py:417-419` has the fee and the slippage
  that `ExecutionSettings` charges (`paper_trading/models.py:77-78`), and an allowance of 0.001 of the price against 0.00000011 of it for the fee on the
  slippage; five units are five of the last places of an amount. The invariant is that the budget covers a close at the stop (`BudgetInv`). It
  holds at the opening by `OfferCovered`, which adds up what the two fills lose (`FillsBound`, `ChargesBound`, `UnitCovers`), and a close that
  is no gap is not beyond the stop, where it brings no less (`ResultMonotone`, `SettledWithin`). The instance of the run has a scale so coarse
  that it does not satisfy `CostsCovered`; the two properties hold in it all the same.
* `DayTheorem` (`DayLossBounded`), under the same hypothesis: what the account keeps if the open position takes all of its budget stays above the
  floor of the day (`DayInv`). An opening is approved only above the daily limit, and its budget is a fraction of the equity, rounded to
  the nearest unit, which is the half unit in the property (`BudgetAboveFloor`); a close gives back what the budget had left.

`OrderBookStream_proofs` proves for any set of prices that is finite, any depth and feed, and any number of updates, lost connections, dropped
updates and restarts, from `Inputs`, all three properties of the run `orderbook`:

* `StreamInvariant`: the messages under way have consecutive numbers up to the newest, and each says what changed since the one before it
  (`WireInv`); a valid local book is that of the exchange at its number, and fits the message that would be applied to it (`LocalInv`), unless
  an update without a chain was dropped; as long as none was dropped, the next message is the one after the local book (`CaughtUp`).
  A delta applied to the book it was sent for gives the one it was sent with (`DeltaSays`, `MergedAgrees`), also when both are cut off at
  a depth (`BestOfBest`, where finiteness is needed).
* `StoredReal` (`StoredIsReal`), `StoredComplete` (`StoredIsComplete`) and `AlarmsAreReal` (`NoFalseAlarm`): what is stored is such a book, which
  is never crossed, as the book of the exchange is not (`InstallResult`), and a delta that does not fit follows one that was dropped (`GapIsReal`).

`ModelActivation_proofs` proves all four properties of the run `activation`, for every number of versions, labels and windows and
every horizon, from `Bounds` and `HorizonAssumption`:

* `ActivationTypes`: the types, and that at most one task is in a run (`TypeInv`); the latter is what the lock gives, and all that
  follows rests on it.
* `FileInvariant`, with its consequences `ChampionLoadable` (`PointerIsChampion`) and `TablesAgree` (`RecordsAgree`). The pointer
  names a champion at the moment only; that it still does after the next file rests on what is left to write. `Script` describes
  that: mark the target, switch the pointer to it, retire another version, or any end of this. An activation and a rollback are
  such scripts (`AcceptStep`, `UnhealthyStep`, whatever the pointer was before), writing a file leaves one (`OneFile`), and when
  nothing is left the pointer is on the target (`ScriptDone`). `RunInv` carries this with what a run knows (its version is registered and not
  recorded yet), `Numbered` says that the next version has a number that nothing refers to.
* `RunsSpaced` (`NewPointsBetweenRuns`): the run under way has counted enough labels after the last recorded one (`CountInv`), which nobody
  else can add to meanwhile.
* `NoLeakage` (`TestedOnUnseen`): no model has seen a label behind the cut of the points there are (`LearnedInv`). A model that
  could be trained at all has seen labels exactly up to the cut (`SeenBeforeTest`: the purge gives back what the horizon takes), and the cut
  moves forward only (`SplitMonotone`).

`Operations_proofs` proves in its first part for any number of schedulers and jobs, any intervals, retry delays and leases, and any number of crashes,
from `Definitions` and `Bounds`, all safety properties of the run `jobs`:

* `SchedulerTypes`: the types, and that nothing was claimed before its time: neither what a lease is for nor what the store has as last
  claimed lies after `now`, without which the next occurrence could lie before the one that has just been handled (`NextIsLater`).
* `LeaseInvariant`, with its consequence `OneHandler` (`OneHandlerPerLease`). The property does not mention the store; the invariant
  relates the two: each lease has a token of its own, the owner's lease says what the store says, and whoever is not the owner any
  more has let the lease expire, since only an expired lease can be claimed again.
* `RepeatedUntilSucceeded` (`ClaimedUntilSucceeded`), an action property that follows from the types.
* `EachOnce` (`SucceedsOnce`) and `NoDrift` (`OnSchedule`), both about what a job will complete next (`Coming`): what has succeeded
  lies before it (`DoneInv`), and it lies on the schedule (`Planned`). A claim and a failure leave it as it is (`ClaimComing`,
  `EndComing`); only a success moves it on, by whole intervals (`AddMultiple` is the arithmetic).

In its second part it proves for every maximum age and timeout of Readiness, from `ReadinessAssumption`, `FoundInOrder` (`OkIsReal`) by `CheckInvariant`:
a component that had no young enough heartbeat when the check began has, until its probe reads, a row that is too old by more
than the check has lasted, or one written since. A second that passes keeps that (`SecondStep`) because no probe outlives its
timeout and the age is counted far enough (`TooOld`).

`MarketStore_proofs` proves for every deployment, every lag, window, chunk, retention and batch, and every number of bars, polls, books and
faults, from `MarketAssumption`, all properties of the run `market`:

* `CandleInvariant`, with `FinalWhenClosed` (`ClosedIsFinal`) and `ClosedForGood` (`OldStaysClosed`, an action property). That an
  answer is final although Bybit's rows do not say so rests on the range asked for: it had ended when it was asked for, so it ends before the answer
  (`FetchInv`), and of the last chunk the bar at its end is left out (`SaveStores`). Events that say closed are sent after their bar (`EventsInv`).
* `VectorsAreReal` (`VectorIsReal`): what was read is final and past (`ReadInv`), and stays so in the reader's hands when a late event
  reopens the row; the row of the other exchange and the book are read when the vector is built (`BuildStep`).
* `ExpiredGone` (`ExpiredBounded`): the ids of books follow their times but for `BookAge + BookSkew` (`BooksInv`), so a run that stops because
  the smallest id is not expired leaves little behind, and a batch that is not full has found everything (`BatchComplete`). That deleting
  keeps the order of the rest is a fact about `FlattenSeq` (`KeptThinned`).

`Backtest_proofs` proves for any bars, strategies, windows, exposures and costs, from `ConfigAssumption` and `SizesAssumption`, all three properties
of the run `backtest`:

* `NoPeeking` (`NoLookAhead`): the two markets agree on what the window under way has shown (`FoldInv`), so the train part
  (`SameTrain`), the bar and what the strategy sees with it (`SameSeen`) are the same as long as the last bar processed is shared. No property
  of strategy or engine is used, but that they are functions of what they are shown.
* `ResultsExplained` (`TradesExplainCash`): closing and opening change cash and result alike (`ClosedAccount`, `OpenedAccount`), hence so do a
  decision, a bar and the end of a window (`TransitionAccount`, `BarAccount`, `EndAccount`); giving up waives a debt (`EndedAccount`). `RunInv` adds
  that a flat account has no entry, and that one that is given up is flat.
* `LiquidatedInTime` (`OwesAtMostSlippage`), under the hypothesis `FeeAtMostHalf` (the fee is a thousandth, `backtest/engine.py:26`; a configuration may have up to
  one): whoever is SHORT has cash (`OpenedCash`), so that a bar that crosses no liquidation price leaves a position that can be closed at
  its close (`NotLiquidated`), which is worth no less than nothing (`SolventWorth`) and loses only the slippage when it is closed (`ClosedExit`). The
  hypothesis is a matter of the grid: the smallest quantity is a unit, and with a fee above two thirds the proceeds of a SHORT can be
  rounded below the fee. `DebtInv` says it of every bar.

Sums are folds, over sets or sequences, and what they add up to is proved without an induction rule: if a sum were wrong there would be a
smallest set, or a shortest sequence, for which it is (`LeastNumber`, `SmallestSet`; `WFMin` of the library), and that one is wrong for
no reason.

Only model-checked: liveness under fairness, which is out of this prover's reach, that is the three properties of section 5
(`PendingEnds`, `DueIsClaimed`, `DeathNoticed`). `VectorContiguous` fails (section 7). What the folds of ModelSelection and the strategies of Backtest compute is not
stated by a theorem: `EvaluationTheorem` uses only where a threshold comes from, and the theorems about Backtest hold whatever a strategy decides.

## 7. Known divergences

`market_gap` is a run. The following were met while modelling and are described here, with the lines that differ; each is a fact
the code shows directly or one the models state positively.

* A cycle that ends without an order runs again on the same vector and stores its prediction again (`worker/cli.py:97`);
  DATABASE_DESIGN.md:561 asks to use the existing one.
* A notice is sent after the `valid_until` of its signal (`notifications/outbox.py:67`; IMPLEMENTATION_PLAN.md:172).
* A withdrawal that is recorded but not acknowledged is refused for lack of balance when it is delivered again
  (`portfolio/service.py:110`; DATABASE_DESIGN.md:551, ARCHITECTURE.md:25): the balances are read before the key.
* The first funding charge of a position may be for a time before its opening: the newest metric not after the vector is charged, and
  `record_open` leaves `last_funding_at` empty (`worker/cli.py:257-284`, `paper_trading/repository.py:151`). Every later row charges its rate
  once, the rate of eight hours, whichever exchange it is from: Bybit's rows come hourly, OKX's every five minutes. No document says how
  funding should accrue; `FundingOncePerMetric` says only that no row is charged twice.
* A missing Bybit update does not invalidate the book, because its updates carry no previous number
  (`market_data/orderbook.py:80`, `collector.py:148`; IMPLEMENTATION_PLAN.md:74).
* A crash between the files and the transaction leaves a champion without a row (`jobs/database_training.py:227`, against
  the comment at :190). `RecordsAgree` states what does hold: the row may be absent, it never says something else.
* Without the step and the minima of the venue, the assertions at `risk/engine.py:98-101` can fail by rounding of the quantity.
* OKX's backfill asks with exclusive boundaries (`market_data/adapters/okx.py:79`): the first bar of every chunk is not fetched.
* A Bybit metric is joined with the funding events of the window that was asked for (`market_data/adapters/bybit.py:264`) and
  replaces the stored row: a later poll over a shorter window can take its funding rate away.
* compose.yaml starts `collector-okx` without TON, while vectors need a candle of both exchanges: TON never gets one.
* A model without an actionable validation point gets the threshold 1; it is never admitted, having no trades, so that a
  policy with it is never built.
* Both collectors beat as one component: the death of one is not noticed while the other lives (`DeathNoticed` is about all of
  them). The snapshot also stays as it is while the database is down.
* Several workers, which compose.yaml does not start: on different instruments they may together exceed the limit of open
  positions or spend the same balance; for two horizons of one instrument they may close a position twice.

Two races of the bot are stated positively: `NegativeOnlyByRace` and `SnapshotTaken` hold unless another event comes
between the read and the insert, and fail without that condition.

## 8. Not modelled

* The classifiers, calibrators, explanations and diagnostics: numerical code, whose results are choices here.
* Trades and exchange rates: one upsert each, which nobody else contends for. The fetching of derivative metrics, whose rows are
  in TradingWorker. Raw events, plausibility checks of values.
* Limit orders and SPOT of the paper engine and the risk engine, which the worker never places.
* The metrics of a finished backtest (they only read) and several symbols in one call.
* Backup, restore, preflight checks and the diagnosis of recovery: they run other programs or only read.
* The bot's commands that only read, keyboards, presenters and texts: formatting.
* The schema and the migrations, except for the keys and locks the modules use; configuration, logging, bootstrap, scripts.
* `signals/deduplication.py`, `signals/urgent.py`, `FileModelRegistry.promote` and the `--run-once` mode of the scheduler, which the
  deployed processes do not use.
