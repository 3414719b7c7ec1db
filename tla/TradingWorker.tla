--------------------------- MODULE TradingWorker ---------------------------
(***************************************************************************)
(* The paper-trading worker (worker/cli.py, worker/engine.py) over the      *)
(* tables it shares through paper_trading/repository.py and                 *)
(* signals/service.py.                                                      *)
(*                                                                          *)
(* A worker repeats _run_cycle, and each cycle is ONE database transaction  *)
(* at READ COMMITTED: every SELECT sees what other transactions have        *)
(* committed by then, and its own writes become visible together when       *)
(* Database.session() commits, or not at all.  A cycle is therefore split   *)
(* at its reads (balances, then positions), at the claim of the order key   *)
(* and at the commit; other workers, new feature vectors and failures may   *)
(* come between any two of these steps.                                     *)
(*                                                                          *)
(* Prices are abstracted: the forecast, which exit level a candle has hit,  *)
(* what a close pays back and what a fill costs are chosen from small sets; *)
(* LONG and SHORT positions are handled alike and not told apart.           *)
(***************************************************************************)
EXTENDS Integers, FiniteSets, FiniteSetsExt

CONSTANTS
  Workers,           \* worker processes
  Instruments,       \* instruments a worker can be started for
  Horizons,          \* forecast horizons a worker can be started for
  Instrument,        \* [Workers -> Instruments], the --instrument argument
  Horizon,           \* [Workers -> Horizons], the --horizon argument
  ExitReasons,       \* exit levels a candle may have hit
  MaxVector,         \* bound: number of feature vectors published
  MaxMetric,         \* bound: number of derivative metrics of an instrument
  Capital,           \* USDT obtained for the initial RUB balance
  Costs,             \* margin plus commission an opening may take
  Payouts,           \* cash_delta a close may book
  MaxOpenPositions,  \* RiskLimits.max_open_positions
  PredictionCap      \* bound: prediction rows counted up to this number

ASSUME WorkerArguments ==
  /\ Instrument \in [Workers -> Instruments]
  /\ Horizon \in [Workers -> Horizons]
ASSUME Reasons == ExitReasons \subseteq {"LIQUIDATION", "STOP_LOSS", "TAKE_PROFIT"}
ASSUME Bounds ==
  /\ MaxVector \in Nat /\ MaxMetric \in Nat /\ PredictionCap \in Nat /\ MaxOpenPositions \in Nat
ASSUME Amounts ==
  /\ Capital \in Nat /\ Costs \subseteq Nat \ {0} /\ Payouts \subseteq Int

\* The number of a feature vector stands for its data_cutoff.
Vectors == 1 .. MaxVector

\* Derivative metrics come on their own: metric m is observed after vector m - 1 and not
\* after vector m, or there is none.  (Two of them between two vectors a cycle reads are
\* two metrics with a vector between them that no cycle reads.)
Metrics == 1 .. MaxMetric

\* derivatives_metrics.funding_rate: no row, a row without a rate, one with.
FundingRates == {"ABSENT", "NO_RATE", "RATE"}

\* TradingWorker.business_fingerprint; "position:" plus it names a position.
OpenKeys == [instrument : Instruments, horizon : Horizons, cutoff : Vectors]

\* "paper-auto-exit:{position_id}:{reason}"
ExitKeys == [position : OpenKeys, reason : ExitReasons]

Keys == OpenKeys \cup ExitKeys

VARIABLES
  vector,       \* newest feature vector, 0 before the first
  age,          \* its age: 0 tradable, 1 over two minutes, 2 over fifteen
  metrics,      \* committed derivatives_metrics rows of each instrument
  orders,       \* committed paper_orders.status by idempotency key
  signals,      \* committed signal rows (each with its outbox row) by order key
  predictions,  \* committed prediction rows by business key
  position,     \* committed paper_positions rows by the key that opened them
  ledger,       \* committed ledger events of the PAPER portfolio
  converted,    \* whether the initial RUB were exchanged
  pc,           \* where each worker is in its cycle
  view,         \* what each worker's transaction has read
  order         \* the order each worker's transaction is placing

vars == <<vector, age, metrics, orders, signals, predictions, position, ledger,
          converted, pc, view, order>>

market == <<vector, age, metrics>>
tables == <<orders, signals, predictions, position, ledger, converted>>

\* funding_pnl is what each metric has been charged; last_funding_at is 0 for None.
Rows == [status : {"NONE", "OPEN", "CLOSED"}, funding : [Metrics -> Nat],
         last_funding_at : 0 .. MaxMetric]
NoRow == [status |-> "NONE", funding |-> [m \in Metrics |-> 0], last_funding_at |-> 0]
NewRow == [NoRow EXCEPT !.status = "OPEN"]

Entries == [key : Keys, op : {"OPEN", "CLOSE"}, position : OpenKeys, amount : Int]

Orders == [key : Keys, op : {"OPEN", "CLOSE"}, position : OpenKeys]

\* PortfolioService.get_balances: the USDT balance is the sum of the ledger.
Cash == (IF converted THEN Capital ELSE 0)
          + MapThenSumSet(LAMBDA entry : entry.amount, ledger)

Transition(w, from, to) == pc[w] = from /\ pc' = [pc EXCEPT ![w] = to]

BusinessKey(w) == [instrument |-> Instrument[w], horizon |-> Horizon[w],
                   cutoff |-> view[w].cutoff]

OpenPositions == {p \in OpenKeys : position[p].status = "OPEN"}

\* (mutant) The position passed to the policy is always empty.
HeldForgotten(w) == {}

\* The OPEN positions of its instrument that the worker has read.
Held(w) == {p \in OpenKeys : view[w].rows[p].status # "NONE"}

\* The newest metric of the instrument observed not after the cutoff; 0 when there
\* is none or it has no funding rate.
FundingMetric(instrument, cutoff) ==
  LET row == metrics[instrument]
      observed == {m \in Metrics : m <= cutoff /\ row[m] # "ABSENT"}
      due == {m \in observed : row[m] = "RATE" /\ \A n \in observed : n <= m}
  IN  IF due = {} THEN 0 ELSE CHOOSE m \in due : TRUE

\* apply_funding
Charged(row, metric) ==
  [row EXCEPT !.funding[metric] = @ + 1, !.last_funding_at = metric]

\* (mutant) Without the comparison with last_funding_at.
FundedEveryCycle(row, metric) == IF metric > 0 THEN Charged(row, metric) ELSE row

\* The comparison of metric_at with last_funding_at, which an opening leaves None.
Funded(row, metric) ==
  IF metric > row.last_funding_at THEN Charged(row, metric) ELSE row
-----------------------------------------------------------------------------
\* (mutant) The commission is not counted.
CoveredWithoutFee(cash) == {cost \in Costs : cost - 1 <= cash}

\* Of the balance it has read, a cycle uses only which costs it covers.
Covered(cash) == {cost \in Costs : cost <= cash}

Views == [cutoff : 0 .. MaxVector, age : 0 .. 2, convert : BOOLEAN,
          covered : SUBSET Costs, below_limit : BOOLEAN,
          rows : [OpenKeys -> Rows], charged : SUBSET OpenKeys,
          predicted : BOOLEAN]
NoView == [cutoff |-> 0, age |-> 0, convert |-> FALSE,
           covered |-> {}, below_limit |-> FALSE,
           rows |-> [p \in OpenKeys |-> NoRow], charged |-> {},
           predicted |-> FALSE]

Init ==
  /\ vector = 0 /\ age = 0
  /\ metrics = [i \in Instruments |-> [m \in Metrics |-> "ABSENT"]]
  /\ orders = [k \in Keys |-> "ABSENT"]
  /\ signals = [k \in Keys |-> 0]
  /\ predictions = [k \in OpenKeys |-> 0]
  /\ position = [p \in OpenKeys |-> NoRow]
  /\ ledger = {}
  /\ converted = FALSE
  /\ pc = [w \in Workers |-> "idle"]
  /\ view = [w \in Workers |-> NoView]
  /\ order = [w \in Workers |-> {}]

\* The features process stores the vector of the next cutoff.
NewVector ==
  /\ vector < MaxVector
  /\ vector' = vector + 1 /\ age' = 0
  /\ UNCHANGED <<metrics, tables, pc, view, order>>

\* Time passes without a newer vector.
GrowOld ==
  /\ vector > 0 /\ age < 2
  /\ age' = age + 1
  /\ UNCHANGED <<vector, metrics, tables, pc, view, order>>

\* upsert_derivatives_metrics: a poll stores metrics it has observed, older ones too,
\* and writes the rate of a row it knows again, which may be gone by now.
StoreMetric ==
  /\ \E i \in Instruments, m \in Metrics, rate \in FundingRates \ {"ABSENT"} :
       /\ m <= vector + 1
       /\ metrics' = [metrics EXCEPT ![i][m] = rate]
  /\ UNCHANGED <<vector, age, tables, pc, view, order>>

\* The newest vector, then the balances; a worker that finds no USDT exchanges
\* the RUB under a fixed idempotency key.
BeginCycle(w) ==
  LET convert == ~converted /\ Cash <= 0
      cash == IF convert THEN Capital ELSE Cash
  IN  /\ vector > 0
      /\ Transition(w, "idle", "positions")
      /\ view' = [view EXCEPT ![w] =
                    [@ EXCEPT !.cutoff = vector, !.age = age, !.convert = convert,
                              !.covered = Covered(cash)]]
      /\ UNCHANGED <<market, tables, order>>

\* The OPEN positions are counted; those selected accrue funding.
ReadRows(w, selected) ==
  LET metric == FundingMetric(Instrument[w], view[w].cutoff)
      rows == [p \in OpenKeys |->
                 IF p \in selected THEN Funded(position[p], metric) ELSE NoRow]
  IN  /\ Transition(w, "positions", "exits")
      /\ view' = [view EXCEPT ![w] =
           [@ EXCEPT !.below_limit = Cardinality(OpenPositions) < MaxOpenPositions,
                     !.rows = rows,
                     !.charged = {p \in selected : rows[p] # position[p]}]]
      /\ UNCHANGED <<market, tables, order>>

\* (mutant) Without the filter on the status ...
ReadPositionsOfAnyStatus(w) ==
  ReadRows(w, {p \in OpenKeys : position[p].status # "NONE"
                                 /\ p.instrument = Instrument[w]})

ReadPositions(w) == ReadRows(w, {p \in OpenPositions : p.instrument = Instrument[w]})

\* evaluate_exit has triggered on a position: it is closed before anything else.
AutoExit(w) ==
  /\ Transition(w, "exits", "reserve")
  /\ \E p \in Held(w), reason \in ExitReasons :
       order' = [order EXCEPT ![w] =
                   {[key |-> [position |-> p, reason |-> reason], op |-> "CLOSE",
                     position |-> p]}]
  /\ UNCHANGED <<market, tables, view>>

\* Early returns of the cycle and of process(): bankrupt, no risk profile,
\* order known, observation stale.
SkipEntry(w) ==
  /\ Transition(w, "exits", "commit")
  /\ UNCHANGED <<market, tables, view, order>>

Predict(w) ==
  /\ Transition(w, "exits", "policy")
  /\ orders[BusinessKey(w)] = "ABSENT"  \* has_order
  /\ view[w].age = 0
  /\ view' = [view EXCEPT ![w].predicted = TRUE]
  /\ UNCHANGED <<market, tables, order>>

\* SignalPolicy without a position: a directional forecast that the risk engine
\* approves (position count and sizing against the balance read).
Enter(w) ==
  /\ Held(w) = {}
  /\ view[w].below_limit
  /\ view[w].covered # {}
  /\ Transition(w, "policy", "reserve")
  /\ order' = [order EXCEPT ![w] =
                 {[key |-> BusinessKey(w), op |-> "OPEN", position |-> BusinessKey(w)]}]
  /\ UNCHANGED <<market, tables, view>>

\* SignalPolicy with a position: the forecast has turned against it.
Leave(w) ==
  /\ Transition(w, "policy", "reserve")
  /\ \E p \in Held(w) :
       order' = [order EXCEPT ![w] =
                   {[key |-> BusinessKey(w), op |-> "CLOSE", position |-> p]}]
  /\ UNCHANGED <<market, tables, view>>

\* HOLD, or the risk engine has rejected the candidate.
Hold(w) ==
  /\ Transition(w, "policy", "commit")
  /\ UNCHANGED <<market, tables, view, order>>

\* (mutant) A lookup that does not wait for other transactions.
ClaimUnseen(w, k) == FALSE

\* Another transaction has inserted the key and not ended.
Claimed(w, k) ==
  \E v \in Workers \ {w} : pc[v] = "execute" /\ \E o \in order[v] : o.key = k

\* reserve_order: INSERT ... ON CONFLICT DO NOTHING.  It waits for a transaction
\* that has inserted the same key; if the key is committed the worker gives up
\* the order and only commits what the cycle has changed so far.
ReserveOrder(w) ==
  \E o \in order[w] :
    /\ ~Claimed(w, o.key)
    /\ \/ /\ orders[o.key] = "ABSENT"
          /\ Transition(w, "reserve", "execute")
          /\ UNCHANGED order
       \/ /\ orders[o.key] # "ABSENT"
          /\ Transition(w, "reserve", "commit")
          /\ order' = [order EXCEPT ![w] = {}]
    /\ UNCHANGED <<market, tables, view>>
-----------------------------------------------------------------------------
\* Writes every committing cycle makes: the exchange, the prediction, the
\* funding of the rows charged (an UPDATE of the changed columns by primary key).
CommitCycle(w) ==
  /\ ~(view[w].convert /\ converted)  \* otherwise the unique key makes it fail
  /\ converted' = (converted \/ view[w].convert)
  /\ \/ UNCHANGED predictions  \* not reached, or the model version has no row
     \/ /\ view[w].predicted /\ predictions[BusinessKey(w)] < PredictionCap
        /\ predictions' = [predictions EXCEPT ![BusinessKey(w)] = @ + 1]
  /\ view' = [view EXCEPT ![w] = NoView]
  /\ order' = [order EXCEPT ![w] = {}]
  /\ UNCHANGED market

FundedRows(w) ==
  [p \in OpenKeys |->
     IF p \in view[w].charged
       THEN [position[p] EXCEPT !.funding = view[w].rows[p].funding,
                                !.last_funding_at = view[w].rows[p].last_funding_at]
       ELSE position[p]]

\* (mutant) The key names the position instead of the order.
BookPerPosition(entry) ==
  ledger' = IF \E e \in ledger : e.position = entry.position THEN ledger
                                                              ELSE ledger \cup {entry}

\* _record_ledger: an event whose key exists is not written again.
Book(entry) ==
  ledger' = IF \E e \in ledger : e.key = entry.key THEN ledger
                                                    ELSE ledger \cup {entry}

CommitIdle(w) ==
  /\ Transition(w, "commit", "idle")
  /\ position' = FundedRows(w)
  /\ CommitCycle(w)
  /\ UNCHANGED <<orders, signals, ledger>>

\* SignalService.record, open_position and record_open, when the fill costs no
\* more than the balance read at the start of the cycle.
CommitOpen(w) ==
  /\ Transition(w, "execute", "idle")
  /\ \E o \in order[w], cost \in Costs :
       /\ o.op = "OPEN" /\ cost \in view[w].covered
       /\ orders' = [orders EXCEPT ![o.key] = "FILLED"]
       /\ signals' = [signals EXCEPT ![o.key] = @ + 1]
       /\ Book([key |-> o.key, op |-> "OPEN", position |-> o.position, amount |-> -cost])
       /\ position' = [FundedRows(w) EXCEPT ![o.position] = NewRow]
  /\ CommitCycle(w)

\* An opening whose fill costs more than the balance read: signal and order stay,
\* nothing is booked ("insufficient cash").
CommitRejected(w) ==
  /\ Transition(w, "execute", "idle")
  /\ \E o \in order[w], cost \in Costs :
       /\ o.op = "OPEN" /\ cost \notin view[w].covered
       /\ orders' = [orders EXCEPT ![o.key] = "REJECTED"]
       /\ signals' = [signals EXCEPT ![o.key] = @ + 1]
  /\ position' = FundedRows(w)
  /\ CommitCycle(w)
  /\ UNCHANGED ledger

\* SignalService.record, close_position or evaluate_exit, and record_close, which
\* books the cash whether or not the row is still OPEN.
CommitClose(w) ==
  /\ view[w].age < 2  \* "expired signal cannot be recorded"
  /\ Transition(w, "execute", "idle")
  /\ \E o \in order[w], paid \in Payouts :
       /\ o.op = "CLOSE"
       /\ orders' = [orders EXCEPT ![o.key] = "FILLED"]
       /\ signals' = [signals EXCEPT ![o.key] = @ + 1]
       /\ Book([key |-> o.key, op |-> "CLOSE", position |-> o.position, amount |-> paid])
       /\ position' = [FundedRows(w) EXCEPT ![o.position].status = "CLOSED"]
  /\ CommitCycle(w)

\* An exception, a lost connection or a crash: the transaction rolls back and the
\* loop of run() starts the next cycle.
Abort(w) ==
  /\ pc[w] # "idle"
  /\ pc' = [pc EXCEPT ![w] = "idle"]
  /\ view' = [view EXCEPT ![w] = NoView]
  /\ order' = [order EXCEPT ![w] = {}]
  /\ UNCHANGED <<market, tables>>

Cycle(w) ==
  \/ BeginCycle(w) \/ ReadPositions(w)
  \/ AutoExit(w) \/ SkipEntry(w) \/ Predict(w)
  \/ Enter(w) \/ Leave(w) \/ Hold(w)
  \/ ReserveOrder(w)
  \/ CommitIdle(w) \/ CommitOpen(w) \/ CommitRejected(w) \/ CommitClose(w)
  \/ Abort(w)

Next == NewVector \/ GrowOld \/ StoreMetric \/ \E w \in Workers : Cycle(w)

Spec == Init /\ [][Next]_vars
-----------------------------------------------------------------------------
TypeOK ==
  /\ vector \in 0 .. MaxVector /\ age \in 0 .. 2
  /\ metrics \in [Instruments -> [Metrics -> FundingRates]]
  /\ orders \in [Keys -> {"ABSENT", "FILLED", "REJECTED"}]
  /\ signals \in [Keys -> Nat]
  /\ predictions \in [OpenKeys -> 0 .. PredictionCap]
  /\ position \in [OpenKeys -> Rows]
  /\ ledger \subseteq Entries
  /\ converted \in BOOLEAN
  /\ pc \in [Workers -> {"idle", "positions", "exits", "policy", "reserve",
                         "execute", "commit"}]
  /\ view \in [Workers -> Views]
  /\ order \in [Workers -> SUBSET Orders]

\* Every claimed order has announced exactly one signal, and no signal exists
\* without its order: the claim, the signal with its outbox row and the outcome
\* of the order commit together (reserve_order before SignalService.record).
OneSignalPerOrder ==
  \A k \in Keys : signals[k] = IF orders[k] = "ABSENT" THEN 0 ELSE 1

\* Each fill is in the ledger exactly once: the filled orders are the keys booked,
\* and no key is booked twice, however often a business event is processed.
FillBookedOnce ==
  /\ \A k \in Keys : orders[k] = "FILLED" <=> \E e \in ledger : e.key = k
  /\ \A e, f \in ledger : e.key = f.key => e = f

\* The positions table agrees with the ledger: a position is OPEN after one debit
\* and CLOSED after one debit and one credit, and no position is credited twice.
PositionMatchesLedger ==
  /\ \A p \in OpenKeys :
       /\ position[p].status # "NONE" <=>
            \E e \in ledger : e.position = p /\ e.op = "OPEN"
       /\ position[p].status = "CLOSED" <=>
            \E e \in ledger : e.position = p /\ e.op = "CLOSE"
  /\ \A e, f \in ledger : e.position = f.position /\ e.op = f.op => e = f

\* A worker alone on its instrument holds at most one position there: the policy
\* never enters while positions[0] exists.
OnePositionPerInstrument ==
  \A p, q \in OpenKeys :
    /\ position[p].status = "OPEN" /\ position[q].status = "OPEN"
    /\ p.instrument = q.instrument
    => p = q

\* What a row has been charged: each metric at most once, the newest of them the one
\* that last_funding_at names, and none observed after the newest vector.
ChargedOnce(row) ==
  /\ row.last_funding_at <= vector
  /\ \A m \in Metrics :
       /\ row.funding[m] \in {0, 1}
       /\ m = row.last_funding_at => row.funding[m] = 1
       /\ m > row.last_funding_at => row.funding[m] = 0

\* No position is charged twice for one metric, although the metric stays the same over
\* several vectors, comes late or loses its rate, and although the charge is computed
\* when a cycle reads and written when it commits, aborted cycles and the one that
\* closes the position included.  (A metric from before the opening is charged, too.)
FundingOncePerMetric == \A p \in OpenKeys : ChargedOnce(position[p])

\* An opening is paid from the balance: whatever closes have cost, booking an
\* opening leaves the USDT balance nonnegative.
OpeningKeepsCash ==
  [][(\E e \in ledger' \ ledger : e.op = "OPEN") => Cash' >= 0]_vars

\* PaperAccount over the committed tables.
Account == INSTANCE PaperAccount WITH
  Positions <- OpenKeys, References <- Keys,
  Debits <- {-cost : cost \in Costs}, Credits <- Payouts,
  held <- OpenPositions,
  settled <- {p \in OpenKeys : position[p].status = "CLOSED"},
  entries <- ledger

\* The transactions implement the abstract lifecycle of PaperAccount.
ImplementsAccount == Account!Lifecycle
=============================================================================
