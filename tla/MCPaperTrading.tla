--------------------------- MODULE MCPaperTrading ---------------------------
(* Model values for PaperTrading: rates in thousandths, prices near 1000. *)
EXTENDS PaperTrading

Seen(bid, ask, low, high, age) ==
  [bid |-> bid, ask |-> ask, low |-> low, high |-> high, age |-> age]

Scenes ==
  {Seen(999, 1001, 998, 1002, 0),     \* calm
   Seen(999, 1001, 975, 1030, 0),     \* both stops of a calm entry within the candle
   Seen(2100, 2102, 2090, 2110, 0),   \* doubled: a gap that costs a SHORT everything
   Seen(899, 901, 880, 905, 0),       \* a crash through the liquidation of a LONG
   Seen(988, 992, 984, 1003, 31)}     \* a dip no stop is in; stale, with a wide spread

Forecasts == {[up |-> 800, down |-> 100, no_trade |-> 100],
              [up |-> 100, down |-> 800, no_trade |-> 100],
              [up |-> 350, down |-> 300, no_trade |-> 350],
              [up |-> 325, down |-> 345, no_trade |-> 330]}

\* What a model foresees and what follows.
Rises(up, ret) == [up |-> up, down |-> 100, no_trade |-> 900 - up, ret |-> ret]
Falls(down, ret) == [up |-> 100, down |-> down, no_trade |-> 900 - down, ret |-> ret]
Unsure(up, ret) == [up |-> up, down |-> up - 5, no_trade |-> 1005 - 2 * up, ret |-> ret]

Steady == <<Rises(800, 20), Falls(750, -30), Rises(700, 10), Falls(720, 5), Rises(760, 30)>>

Trained ==
  {\* only the surest predictions are right
   [validation |-> <<Rises(500, -20), Rises(720, 20), Falls(550, 10), Falls(750, -20)>>,
    test |-> Steady, champion_return |-> -1000],
   \* the less sure ones are right too
   [validation |-> <<Rises(500, 20), Unsure(340, 30), Unsure(325, 30), Falls(750, -20)>>,
    test |-> Steady, champion_return |-> 30],
   \* does not beat the champion
   [validation |-> <<Rises(600, 20), Falls(620, -20)>>,
    test |-> Steady, champion_return |-> 300],
   \* never sure
   [validation |-> <<Unsure(325, 20), Unsure(320, 20)>>,
    test |-> Steady, champion_return |-> -1000]}

Rates == {0, 2}
=============================================================================
