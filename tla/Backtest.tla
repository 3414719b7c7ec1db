------------------------------ MODULE Backtest ------------------------------
(***************************************************************************)
(* The backtest (backtest/): BacktestEngine.run observes a bar at its close *)
(* and executes at the next open; run_walk_forward runs it over the test    *)
(* part of every window, with the train part as history, for the baseline   *)
(* strategies.                                                              *)
(*                                                                          *)
(* The engine is run side by side on two markets whose first bars are the   *)
(* same: what differs later must not show in the run before it happens.     *)
(* Timestamps are positions in the market; several symbols and unordered    *)
(* bars, which raise, are left out, and so are the metrics, which only read.*)
(***************************************************************************)
EXTENDS PaperNumbers, Sequences, SequencesExt

CONSTANTS
  Bars,         \* [open, high, low, close]
  Changed(_),   \* the bar the second market has instead of one of the first
  Length,       \* bars of a market
  TrainSize, TestSize,  \* bars of a window
  Plans,        \* [step, expanding]: further arguments of walk_forward_windows
  Strategies,   \* baseline strategies, each with its parameters
  Capital, Fee, Slip,    \* BacktestConfig (rates over Scale)
  MaxExposure

ValidBar(bar) ==
  /\ {bar.open, bar.high, bar.low, bar.close} \subseteq Nat \ {0}
  /\ bar.low <= Lower(bar.open, bar.close) /\ bar.high >= Higher(bar.open, bar.close)

\* What BacktestConfig and the strategies accept.
ValidConfig ==
  /\ Capital \in Nat \ {0} /\ Fee \in 0 .. (Scale - 1) /\ Slip \in 0 .. (Scale - 1)
  /\ MaxExposure \in 1 .. 20

\* A larger exposure than the configured one is refused by _validate_signal.
ValidStrategy(s) ==
  /\ s.kind \in {"hold", "trend", "reversion"} /\ s.exposure \in 1 .. MaxExposure
  /\ s.kind = "trend" => 0 < s.short /\ s.short < s.long
  /\ s.kind = "reversion" => s.long >= 2 /\ 0 <= s.exit_z /\ s.exit_z < s.entry_z

\* The grid is fine enough for an open less the slippage to be a price.
ASSUME ConfigAssumption ==
  /\ ValidConfig /\ \A s \in Strategies : ValidStrategy(s)
  /\ \A bar \in Bars : /\ ValidBar(bar) /\ Times(bar.open, Scale - Slip) > 0
                       /\ Changed(bar) \in Bars
ASSUME SizesAssumption ==
  /\ TrainSize \in Nat \ {0} /\ TestSize \in Nat \ {0}
  /\ Length \in Nat /\ Length - TrainSize - TestSize \in Nat
  /\ Plans \subseteq [step : Nat \ {0}, expanding : BOOLEAN]

VARIABLES
  strategy,  \* what strategy_factory returned
  plan,
  markets,   \* the two markets
  shared,    \* they agree on so many bars
  fold,      \* the window under way
  done,      \* bars of its test part that are processed
  runs       \* the state of the engine on each market

vars == <<strategy, plan, markets, shared, fold, done, runs>>

Market == 1 .. 2
NoEntry == [price |-> 0, fee |-> 0]

FreshRun ==
  [cash |-> Capital, quantity |-> 0, target |-> 0, pending |-> {},
   entry |-> NoEntry, pnl |-> 0, executions |-> <<>>, curve |-> <<>>, over |-> FALSE]
-----------------------------------------------------------------------------
(* walk_forward_windows *)

TestStart(n) == TrainSize + (n - 1) * plan.step  \* bars before the test part of the n-th window
Windows == {n \in 1 .. Length : TestStart(n) + TestSize <= Length}

Train(market, n) ==
  SubSeq(market, IF plan.expanding THEN 1 ELSE TestStart(n) - TrainSize + 1, TestStart(n))

Test(market, n) == SubSeq(market, TestStart(n) + 1, TestStart(n) + TestSize)
-----------------------------------------------------------------------------
(* The strategies *)

Total(values) == FoldSeq(LAMBDA value, rest : value + rest, 0, values)
Newest(values, n) == SubSeq(values, Len(values) - n + 1, Len(values))

TrendTarget(closes) ==
  IF strategy.long * Total(Newest(closes, strategy.short))
       > strategy.short * Total(Newest(closes, strategy.long))
    THEN strategy.exposure ELSE 0

\* The z-score of the newest close is away / sqrt(spread); it is compared with z / 10.
ReversionTarget(closes, current) ==
  LET values == Newest(closes, strategy.long)
      away == strategy.long * values[strategy.long] - Total(values)
      spread == strategy.long * Total([k \in 1 .. strategy.long |-> values[k] * values[k]])
                  - Total(values) * Total(values)
      beyond(z) == 100 * away * away >= z * z * spread
      within(z) == 100 * away * away <= z * z * spread
  IN  CASE spread = 0 -> 0
        [] spread # 0 /\ away < 0 /\ beyond(strategy.entry_z) -> strategy.exposure
        [] spread # 0 /\ away > 0 /\ beyond(strategy.entry_z) -> -strategy.exposure
        [] spread # 0 /\ within(strategy.exit_z) -> 0
        [] OTHER -> current

\* on_bar: a target, or no change.
Signal(seen, current) ==
  LET closes == [k \in 1 .. Len(seen) |-> seen[k].close]
      target == CASE strategy.kind = "hold" -> strategy.exposure
                  [] Len(seen) < strategy.long -> current
                  [] strategy.kind = "trend" -> TrendTarget(closes)
                  [] strategy.kind = "reversion" -> ReversionTarget(closes, current)
  IN  {target} \ {current}
-----------------------------------------------------------------------------
(* The engine *)

FillPrice(reference, side) ==
  Times(reference, IF side = "BUY" THEN Scale + Slip ELSE Scale - Slip)

Executed(run, side, quantity, price, reference) ==
  Append(run.executions, [side |-> side, quantity |-> quantity, price |-> price,
                          reference |-> reference])

\* (mutant) The trade is charged for its exit only.
ClosedWithoutEntryFee(run, reference) ==
  LET side == IF run.quantity > 0 THEN "SELL" ELSE "BUY"
      price == FillPrice(reference, side)
      size == Distance(run.quantity, 0)
      fee == Times(size * price, Fee)
  IN  [run EXCEPT
        !.cash = @ + run.quantity * price - fee,
        !.quantity = 0, !.entry = NoEntry,
        !.pnl = @ + run.quantity * (price - run.entry.price) - fee,
        !.executions = Executed(run, side, size, price, reference)]

\* The position is closed, by a signal or by a liquidation.
Closed(run, reference) ==
  LET side == IF run.quantity > 0 THEN "SELL" ELSE "BUY"
      price == FillPrice(reference, side)
      size == Distance(run.quantity, 0)
      fee == Times(size * price, Fee)
  IN  [run EXCEPT
        !.cash = @ + run.quantity * price - fee,
        !.quantity = 0, !.entry = NoEntry,
        !.pnl = @ + run.quantity * (price - run.entry.price) - run.entry.fee - fee,
        !.executions = Executed(run, side, size, price, reference)]

\* A position of the target exposure, with what the fee leaves of the cash; it is at
\* least a unit, as a Decimal quotient keeps the digits of the smallest quantity.
Opened(run, reference, target) ==
  LET side == IF target > 0 THEN "BUY" ELSE "SELL"
      price == FillPrice(reference, side)
      notional == Quotient(run.cash * Distance(target, 0) * Scale, Scale + Fee)
      size == Higher(1, Quotient(notional, price))
      signed == IF target > 0 THEN size ELSE -size
      fee == Times(notional, Fee)
  IN  [run EXCEPT
        !.cash = @ - (signed * price + fee),
        !.quantity = signed, !.entry = [price |-> price, fee |-> fee],
        !.executions = Executed(run, side, size, price, reference)]

\* _transition
Transition(run, reference, target) ==
  LET flat == IF run.quantity # 0 THEN Closed(run, reference) ELSE run
  IN  IF target # 0 /\ flat.cash > 0 THEN Opened(flat, reference, target) ELSE flat

\* The pending decision is executed at the open.
AtOpen(run, bar) ==
  IF run.pending \subseteq {run.target}
    THEN [run EXCEPT !.pending = {}]
    ELSE LET target == CHOOSE target \in run.pending : TRUE
         IN  [Transition(run, bar.open, target) EXCEPT !.target = target, !.pending = {}]

\* (mutant) A short position is never liquidated.
LongLiquidation(run, bar) ==
  IF run.quantity > 0 /\ run.cash < 0
       /\ bar.low * run.quantity * (Scale - Fee) <= -run.cash * Scale
    THEN {Lower(Quotient(-run.cash * Scale, run.quantity * (Scale - Fee)), bar.open)}
    ELSE {}

\* _liquidation_reference: the price, crossed by this bar, at which closing with the
\* fee leaves no cash, or the open beyond it.
LiquidationReference(run, bar) ==
  CASE run.quantity > 0 /\ run.cash < 0
         /\ bar.low * run.quantity * (Scale - Fee) <= -run.cash * Scale ->
         {Lower(Quotient(-run.cash * Scale, run.quantity * (Scale - Fee)), bar.open)}
    [] run.quantity < 0 /\ run.cash > 0
         /\ bar.high * (-run.quantity) * (Scale + Fee) >= run.cash * Scale ->
         {Higher(Quotient(run.cash * Scale, (-run.quantity) * (Scale + Fee)), bar.open)}
    [] OTHER -> {}

\* The rest of the curve is flat and nothing more happens.
Ended(run, cash) ==
  [run EXCEPT !.cash = cash, !.target = 0, !.over = TRUE,
              !.curve = @ \o [k \in 1 .. (TestSize - done) |-> cash]]

\* (mutant) The strategy is shown the bar at whose open its decision is executed.
SeenWithNext(market) ==
  Train(market, fold) \o SubSeq(Test(market, fold), 1, Lower(done + 2, TestSize))

\* StrategyContext.bars of the bar under way.
Seen(market) == Train(market, fold) \o SubSeq(Test(market, fold), 1, done + 1)

\* One bar of the event loop.
OnBar(run, market) ==
  LET bar == Test(market, fold)[done + 1]
      opened == AtOpen(run, bar)
  IN  IF opened.quantity = 0 /\ opened.cash <= 0
        THEN Ended(opened, 0)
      ELSE IF LiquidationReference(opened, bar) # {}
        THEN LET liquidated == Closed(opened, CHOOSE p \in LiquidationReference(opened, bar) : TRUE)
             IN  Ended(liquidated, Higher(0, liquidated.cash))
      ELSE [opened EXCEPT !.curve = Append(@, opened.cash + opened.quantity * bar.close),
                          !.pending = Signal(Seen(market), opened.target)]

\* liquidate_at_end, at the last close.
AtEnd(run, market) ==
  IF run.quantity = 0 THEN run
  ELSE LET closed == Transition(run, Test(market, fold)[TestSize].close, 0)
       IN  [closed EXCEPT !.curve[TestSize] = closed.cash]

\* The decision on the history, the train part, comes before the first bar.
StartOf(n, market) == [FreshRun EXCEPT !.pending = Signal(Train(market, n), 0)]
-----------------------------------------------------------------------------
MarketsOf(market, agreed) ==
  <<market, [k \in 1 .. Length |-> IF k <= agreed THEN market[k] ELSE Changed(market[k])]>>

Init ==
  /\ strategy \in Strategies /\ plan \in Plans
  /\ shared \in TrainSize .. (Length - 1)
  /\ \E market \in [1 .. Length -> Bars] : markets = MarketsOf(market, shared)
  /\ fold = 1 /\ done = 0
  /\ runs = [m \in Market |-> StartOf(1, markets[m])]

ProcessBar ==
  /\ done < TestSize
  /\ runs' = [m \in Market |->
       LET next == IF runs[m].over THEN runs[m] ELSE OnBar(runs[m], markets[m])
       IN  IF done + 1 = TestSize THEN AtEnd(next, markets[m]) ELSE next]
  /\ done' = done + 1
  /\ UNCHANGED <<strategy, plan, markets, shared, fold>>

NextFold ==
  /\ done = TestSize /\ fold + 1 \in Windows
  /\ fold' = fold + 1 /\ done' = 0
  /\ runs' = [m \in Market |-> StartOf(fold + 1, markets[m])]
  /\ UNCHANGED <<strategy, plan, markets, shared>>

Next == ProcessBar \/ NextFold

Spec == Init /\ [][Next]_vars
-----------------------------------------------------------------------------
\* No look-ahead: as long as every bar processed, the train part included, is one the
\* two markets share, the runs are the same, decisions for the next open included.
NoLookAhead ==
  TestStart(fold) + done <= shared => runs[1] = runs[2]

\* The cash is the initial one with the results of the trades, less what the open
\* position has taken, unless the account ended in a debt that is waived.
TradesExplainCash ==
  \A m \in Market :
    LET run == runs[m]
        explained == Capital + run.pnl - run.quantity * run.entry.price - run.entry.fee
    IN  run.cash = explained \/ (run.over /\ run.cash = 0 /\ explained < 0)

\* However leveraged, the account never owes anything: every point of the curve is at
\* least zero, but for the last one, which the slippage of the final close (with its
\* fee and a unit of rounding) may take below.
OwesAtMostSlippage ==
  \A m \in Market :
    LET run == runs[m]
    IN  \A k \in 1 .. Len(run.curve) :
          \/ run.curve[k] >= 0
          \/ /\ k = TestSize /\ ~run.over
             /\ LET exit == Last(run.executions)
                    slipped == exit.quantity * Distance(exit.price, exit.reference)
                IN  -run.curve[k] <= slipped + Times(slipped, Fee) + 1
=============================================================================
