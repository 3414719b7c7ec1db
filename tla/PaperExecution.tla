--------------------------- MODULE PaperExecution ---------------------------
(***************************************************************************)
(* PaperExecutionEngine (paper_trading/engine.py) as the worker uses it:    *)
(* market orders of a linear perpetual.  SPOT positions and limit orders,   *)
(* which no running process creates, are left out.                          *)
(***************************************************************************)
EXTENDS PaperNumbers

CONSTANTS TakerFee, Slippage, MaintenanceMargin  \* ExecutionSettings

ValidSettings == {TakerFee, Slippage, MaintenanceMargin} \subseteq 0 .. (Scale - 1)
ASSUME SettingsAssumption == ValidSettings

Sign(side) == IF side = "SHORT" THEN -1 ELSE 1
OpeningOrder(side) == IF side = "SHORT" THEN "SELL" ELSE "BUY"
ClosingOrder(side) == IF side = "SHORT" THEN "BUY" ELSE "SELL"

QuoteFor(order, market) == IF order = "BUY" THEN market.ask ELSE market.bid

WithSlippage(price, order) ==
  Times(price, IF order = "BUY" THEN Scale + Slippage ELSE Scale - Slippage)

Commission(quantity, price) == Times(quantity * price, TakerFee)

LiquidationEstimate(entry, side, leverage) ==
  LET inverse == Quotient(Scale, leverage)
  IN  IF side = "LONG"
        THEN Higher(0, Times(entry, Scale - inverse + MaintenanceMargin))
        ELSE Times(entry, Scale + inverse - MaintenanceMargin)

\* _validate_exit_levels: otherwise open_position raises.
ValidExits(side, entry, stop_loss, take_profit) ==
  IF side = "LONG" THEN stop_loss < entry /\ entry < take_profit
                   ELSE take_profit < entry /\ entry < stop_loss

\* open_position with a market order.
Opened(side, market, sizing, stop_loss, take_profit) ==
  LET price == WithSlippage(QuoteFor(OpeningOrder(side), market), OpeningOrder(side))
  IN  [side |-> side, quantity |-> sizing.quantity, entry_price |-> price,
       leverage |-> sizing.leverage,
       margin |-> Quotient(sizing.quantity * price, sizing.leverage),
       stop_loss |-> stop_loss, take_profit |-> take_profit,
       opening_commission |-> Commission(sizing.quantity, price),
       funding_pnl |-> 0,
       liquidation_price |-> LiquidationEstimate(price, side, sizing.leverage)]

RequiredCash(position) == position.margin + position.opening_commission

\* apply_funding: accrued on the position, not posted to cash.
WithFunding(position, rate, mark) ==
  [position EXCEPT
     !.funding_pnl = @ - Sign(position.side) * Times(position.quantity * mark, rate)]

Untriggered == [reason |-> "NONE", price |-> 0]

\* _trigger: liquidation before the stop, the stop before the take profit.
Trigger(position, market) ==
  LET long == position.side = "LONG"
      reached(level, adverse) == IF long = adverse THEN market.low <= level
                                                   ELSE market.high >= level
  IN  CASE reached(position.liquidation_price, TRUE) ->
             [reason |-> "LIQUIDATION", price |-> position.liquidation_price]
        [] reached(position.stop_loss, TRUE) ->
             [reason |-> "STOP_LOSS", price |-> position.stop_loss]
        [] reached(position.take_profit, FALSE) ->
             [reason |-> "TAKE_PROFIT", price |-> position.take_profit]
        [] OTHER -> Untriggered

\* _gap_aware_exit_price: an adverse exit takes the worse of level and quote, a
\* take profit the better.
ExitReference(trigger, order, market) ==
  LET quote == QuoteFor(order, market)
      adverse == trigger.reason # "TAKE_PROFIT"
  IN  IF (order = "SELL") = adverse THEN Lower(trigger.price, quote)
                                    ELSE Higher(trigger.price, quote)

\* (mutant) The commission of the opening is taken from the cash once more.
SettledTwice(position, price) ==
  LET gross == (price - position.entry_price) * position.quantity * Sign(position.side)
      commission == Commission(position.quantity, price)
      net == gross + position.funding_pnl - position.opening_commission - commission
  IN  [net_pnl |-> net, cash_delta |-> position.margin + net]

\* _closed
Settled(position, price) ==
  LET gross == (price - position.entry_price) * position.quantity * Sign(position.side)
      commission == Commission(position.quantity, price)
  IN  [net_pnl |-> gross + position.funding_pnl - position.opening_commission - commission,
       cash_delta |-> position.margin + gross + position.funding_pnl - commission]

\* close_position
ClosedAtMarket(position, market) ==
  LET order == ClosingOrder(position.side)
  IN  Settled(position, WithSlippage(QuoteFor(order, market), order))

\* The close that evaluate_exit returns for a trigger.
ClosedByTrigger(position, trigger, market) ==
  LET order == ClosingOrder(position.side)
  IN  Settled(position, WithSlippage(ExitReference(trigger, order, market), order))
=============================================================================
