---------------------------- MODULE PaperTrading ----------------------------
(***************************************************************************)
(* The money of a paper account: one worker alone on one instrument trades  *)
(* through SignalPolicy, RiskEngine and PaperExecutionEngine, with the      *)
(* amounts computed.  A cycle of worker/cli.py is one step here, its        *)
(* transaction; TradingWorker models what happens between such steps and    *)
(* when there are several workers.                                          *)
(*                                                                          *)
(* A feature vector fixes all that a cycle sees: the newest order book and  *)
(* closed candle not after it and the newest funding rate.  Several cycles  *)
(* may run on the same vector.                                              *)
(***************************************************************************)
EXTENDS RiskSizing, PaperExecution, ModelSelection

CONSTANTS
  Markets,        \* what a vector may show: bid, ask, age of the book, low, high
  FundingRates,   \* rates a derivative metric may carry, over Scale
  Predictions,    \* [up, down, no_trade], over Scale
  Candidates,     \* trained models: [validation, test, champion_return]
  StopDistance,   \* TradingWorker.stop_distance, over Scale
  RewardToRisk,   \* TradingWorker.reward_to_risk
  Capital,        \* USDT exchanged for the initial RUB
  MaxTrades,      \* bound: positions opened
  MaxMetrics      \* bound: derivative metrics observed

ASSUME TradingAssumption ==
  /\ \A seen \in Markets : ValidMarket(seen)
  /\ FundingRates \subseteq Int
  /\ StopDistance \in 1 .. Scale - 1 /\ RewardToRisk \in Nat \ {0}
  /\ \A p \in Predictions : ValidPrediction(p)
  /\ \A c \in Candidates : \A i \in DOMAIN c.validation : ValidPrediction(c.validation[i])
  /\ Capital \in Nat \ {0} /\ MaxTrades \in Nat /\ MaxMetrics \in Nat

VARIABLES
  min_confidence, \* the confidence_threshold of the champion, SignalPolicy.min_confidence
  market,    \* the market of the newest vector
  rate,      \* the funding rate of the newest metric
  due,       \* whether that metric is later than the position's last_funding_at
  ordered,   \* whether the vector's business key has an order
  cash,      \* USDT of the ledger
  position,  \* the OPEN position
  budget,    \* the stop_loss_amount its signal was recorded with
  realised,  \* sum of the realized_pnl of the CLOSED positions
  closed,    \* the newest CLOSED position
  peak,      \* highest equity point
  today,     \* first equity point of the day, and whether the day was regular
  trades,    \* positions opened
  metrics    \* metrics observed

vars == <<min_confidence, market, rate, due, ordered, cash, position, budget, realised, closed,
          peak, today, trades, metrics>>

NoPosition == [side |-> "NONE"]
NoTrade == [net_pnl |-> 0, funding_pnl |-> 0, stop_loss_amount |-> 0, gap |-> FALSE]
NoPoint == 0

Held == position # NoPosition

Reference == Quotient(market.bid + market.ask, 2)

\* The thresholds of the candidates that are promoted.
Promoted ==
  UNION {{t \in Selected(c.validation) : Admitted(c.test, t, c.champion_return)} :
           c \in Candidates}

Init ==
  /\ min_confidence \in Promoted
  /\ market \in Markets /\ rate \in FundingRates
  /\ due = FALSE /\ ordered = FALSE
  /\ cash = Capital
  /\ position = NoPosition /\ budget = 0
  /\ realised = 0 /\ closed = NoTrade
  /\ peak = NoPoint /\ today = [start |-> NoPoint, regular |-> TRUE]
  /\ trades = 0 /\ metrics = 0

\* The scheduler process activates another model, which the next cycle loads.
NewChampion ==
  /\ min_confidence' \in Promoted
  /\ UNCHANGED <<market, rate, due, ordered, cash, position, budget, realised, closed, peak,
                 today, trades, metrics>>

\* The features process stores a vector; the derivative metric may be the same.
NewVector ==
  /\ market' \in Markets
  /\ \/ /\ metrics < MaxMetrics
        /\ rate' \in FundingRates /\ due' = TRUE /\ metrics' = metrics + 1
     \/ UNCHANGED <<rate, due, metrics>>
  /\ ordered' = FALSE
  /\ UNCHANGED <<min_confidence, cash, position, budget, realised, closed, peak, today, trades>>

\* Midnight UTC: the first equity point after it is the day's start.  A position
\* carried over midnight makes the day irregular.
NewDay ==
  /\ today.start # NoPoint
  /\ today' = [start |-> NoPoint, regular |-> ~Held]
  /\ UNCHANGED <<min_confidence, market, rate, due, ordered, cash, position, budget, realised,
                 closed, peak, trades, metrics>>

\* The position a cycle works with.
Funded == IF due THEN WithFunding(position, rate, Reference) ELSE position

Exit == Trigger(Funded, market)

\* The book is beyond the stop or the candle beyond the liquidation: a market exit
\* cannot get the price the order was sized for.
Gapped ==
  IF position.side = "LONG"
    THEN market.bid < position.stop_loss \/ market.low <= position.liquidation_price
    ELSE market.ask > position.stop_loss \/ market.high >= position.liquidation_price

\* record_close
Close(settled) ==
  /\ cash' = cash + settled.cash_delta
  /\ realised' = realised + settled.net_pnl
  /\ closed' = [net_pnl |-> settled.net_pnl, funding_pnl |-> Funded.funding_pnl,
                stop_loss_amount |-> budget, gap |-> Gapped]
  /\ position' = NoPosition /\ budget' = 0
  /\ due' = FALSE
  /\ UNCHANGED <<min_confidence, market, rate, trades, metrics>>

\* Whatever else a day is made of, a gap or paid funding makes it irregular.
Regular == today.regular /\ (Held => ~Gapped /\ Funded.funding_pnl >= 0)

AutoExit ==
  /\ Held /\ Exit.reason # "NONE"
  /\ Close(ClosedByTrigger(Funded, Exit, market))
  /\ today' = [today EXCEPT !.regular = Regular]
  /\ UNCHANGED <<ordered, peak>>
-----------------------------------------------------------------------------
\* _equity: cash and the position of this instrument at the midpoint.
Equity ==
  cash + (IF Held
            THEN Funded.margin + Funded.funding_pnl
                   + (Reference - Funded.entry_price) * Funded.quantity * Sign(Funded.side)
            ELSE 0)

\* (mutant) The newest point before this one instead of the day's first.
DayStartIsNewest == Equity

DayStart == IF today.start = NoPoint THEN Equity ELSE today.start

Peak == Higher(peak, Equity)

\* A cycle without an exit and with equity left adds an equity point ...
AfterExits ==
  /\ Held => Exit.reason = "NONE"
  /\ Equity > 0
  /\ peak' = Peak
  /\ today' = [start |-> IF today.start = NoPoint THEN Equity ELSE today.start,
               regular |-> Regular]
  /\ UNCHANGED <<min_confidence, market, metrics>>

\* ... and accrues the funding due.
Accrue ==
  /\ position' = IF Held THEN Funded ELSE position
  /\ due' = (due /\ ~Held)
  /\ UNCHANGED rate

\* "BANKRUPT": only the funding is written.
Bankrupt ==
  /\ Held => Exit.reason = "NONE"
  /\ Equity <= 0
  /\ Accrue
  /\ UNCHANGED <<min_confidence, market, ordered, cash, budget, realised, closed, peak,
                 today, trades, metrics>>

\* No order: observation stale, order known, HOLD, or rejected by the risk engine.
NoOrder ==
  /\ AfterExits /\ Accrue
  /\ UNCHANGED <<ordered, cash, budget, realised, closed, trades>>
-----------------------------------------------------------------------------
Bullish(p) == p.up >= min_confidence /\ p.up > p.no_trade
Bearish(p) == p.down >= min_confidence /\ p.down > p.no_trade

EntryAction(p) == IF Bullish(p) THEN "LONG" ELSE IF Bearish(p) THEN "SHORT" ELSE "HOLD"

\* SignalPolicy._action
Action(p) ==
  CASE position.side = "LONG" -> IF Bearish(p) THEN "CLOSE" ELSE "HOLD"
    [] position.side = "SHORT" -> IF Bullish(p) THEN "CLOSE" ELSE "HOLD"
    [] OTHER -> EntryAction(p)

StopLoss(direction) ==
  Times(Reference, IF direction = "LONG" THEN Scale - StopDistance ELSE Scale + StopDistance)

TakeProfit(direction) ==
  LET reward == StopDistance * RewardToRisk
  IN  Times(Reference, IF direction = "LONG" THEN Scale + reward ELSE Scale - reward)

\* (mutant) The limits are measured from the newest equity point.
RequestFromNewestPoint(direction) ==
  [direction |-> direction, entry |-> Reference, stop |-> StopLoss(direction),
   market |-> market, equity |-> Equity, cash |-> cash,
   day_start |-> DayStartIsNewest, peak |-> Peak, open_positions |-> 0]

Request(direction) ==
  [direction |-> direction, entry |-> Reference, stop |-> StopLoss(direction),
   market |-> market, equity |-> Equity, cash |-> cash,
   day_start |-> DayStart, peak |-> Peak, open_positions |-> IF Held THEN 1 ELSE 0]

Candidate(direction) ==
  /\ ~Held /\ ~ordered
  /\ \E p \in Predictions : Action(p) = direction
  /\ Approved(Request(direction))

Offer(direction) ==
  Opened(direction, market, Sizing(Request(direction)), StopLoss(direction),
         TakeProfit(direction))

\* The order is placed; when the fill costs more than the cash ("insufficient
\* cash") it is REJECTED and nothing is booked.
Enter(direction) ==
  LET offer == Offer(direction)
      paid == RequiredCash(offer) <= cash
  IN  /\ trades < MaxTrades
      /\ AfterExits
      /\ Candidate(direction)
      /\ ValidExits(direction, offer.entry_price, offer.stop_loss, offer.take_profit)
      /\ position' = IF paid THEN offer ELSE NoPosition
      /\ budget' = IF paid THEN Sizing(Request(direction)).stop_loss_amount ELSE 0
      /\ cash' = IF paid THEN cash - RequiredCash(offer) ELSE cash
      /\ due' = paid  \* the new row has no last_funding_at
      /\ ordered' = TRUE /\ trades' = trades + 1
      /\ UNCHANGED <<rate, realised, closed>>

\* The forecast has turned against the position.
Leave ==
  /\ Held /\ ~ordered
  /\ \E p \in Predictions : Action(p) = "CLOSE"
  /\ AfterExits
  /\ Close(ClosedAtMarket(Funded, market))
  /\ ordered' = TRUE

Next ==
  \/ NewChampion \/ NewVector \/ NewDay
  \/ AutoExit \/ Bankrupt \/ NoOrder \/ Leave
  \/ \E direction \in Directions : Enter(direction)

Spec == Init /\ [][Next]_vars
-----------------------------------------------------------------------------
\* Every unit of cash is accounted for: what was exchanged at the start, plus the
\* realised result of the closed positions, less what the open one has taken.  The
\* cash a close books and the net result it reports are computed apart in _closed.
CashExplained ==
  cash = Capital + realised - (IF Held THEN RequiredCash(position) ELSE 0)

\* A position is sized before it is opened, at prices the fills do not get: still,
\* unless the market gaps, it never loses more than the stop_loss_amount the risk
\* engine approved, with the fees and the slippage of both fills (funding aside).
LossWithinBudget ==
  closed.gap \/ closed.net_pnl - closed.funding_pnl >= -closed.stop_loss_amount

\* In a day without gaps, paid funding and positions carried over midnight, the
\* account loses less than the daily limit and one risk budget together, however
\* many positions are opened and closed.  The budget is rounded to the nearest unit.
DayLossBounded ==
  ~Held /\ today.start # NoPoint /\ today.regular =>
    (2 * cash + 1) * Scale
      >= 2 * today.start * (Scale - MaxDailyLossFraction - MaxStopRiskFraction)

\* A request that passes the guards and the early returns is sized within the limits
\* of margin and cash, and beyond the risk budget by at most what rounding the
\* quantity to the nearest unit costs: the assertions at the end of assess can fail
\* for rounding only, never for the leverage that was chosen.
SizingWithinAUnit ==
  ~Held /\ Equity > 0 => \A direction \in Directions :
    LET request == Request(direction)
        sizing == Sizing(request)
    IN  Reasons(request) = {} =>
          /\ sizing.margin <= MarginLimit(request.equity)
          /\ sizing.margin + EntryFee(request) <= request.cash
          /\ 2 * (sizing.stop_loss_amount - RiskBudget(request.equity)) <= RiskPerUnit(request)

\* The policy enters exactly the trades the evaluation has counted when it admitted the
\* model.  The two are written differently: the evaluation compares the higher of the
\* probabilities with no_trade, the policy each of them, and they agree only because a
\* selected threshold is more than a third.
EvaluatedAsTraded ==
  \A p \in Predictions :
    LET counted == Counted(p, min_confidence)
    IN  EntryAction(p) = (IF counted = "NONE" THEN "HOLD" ELSE counted)
=============================================================================
