----------------------------- MODULE MCBacktest -----------------------------
(* Model values for Backtest: rates in hundredths, prices near 1000. *)
EXTENDS Backtest

Bar(open, high, low, close) == [open |-> open, high |-> high, low |-> low, close |-> close]

Rise == Bar(1000, 1300, 1000, 1290)   \* a SHORT of three times the cash is just solvent
Dip == Bar(1000, 1000, 600, 1000)     \* a LONG of three times the cash is liquidated
Slide == Bar(1000, 1010, 692, 694)    \* the same LONG is just solvent
Gap == Bar(2100, 2150, 2000, 2100)    \* the open is beyond what the SHORT can pay

Shapes == {Rise, Dip, Slide, Gap}

OtherShape(bar) == IF bar = Gap THEN Dip ELSE Gap

Baselines ==
  {[kind |-> "hold", exposure |-> 1], [kind |-> "hold", exposure |-> 3],
   [kind |-> "trend", short |-> 1, long |-> 2, exposure |-> 3],
   [kind |-> "reversion", long |-> 3, entry_z |-> 12, exit_z |-> 5, exposure |-> 3]}

BothPlans == [step : {1}, expanding : BOOLEAN]
=============================================================================
