----------------------------- MODULE RiskSizing -----------------------------
(***************************************************************************)
(* RiskEngine.assess (risk/engine.py) as the trading worker calls it: a     *)
(* linear perpetual, LONG or SHORT, no requested risk fraction and no venue *)
(* step or minima, so the SPOT branches and the venue checks are left out.  *)
(***************************************************************************)
EXTENDS PaperNumbers

CONSTANTS
  \* RiskLimits (fractions over Scale)
  MaxMarginFraction, MaxStopRiskFraction, MaxDailyLossFraction,
  MaxDrawdownFraction, MaxOpenPositions, MaxLeverage, MaxMarketAge,
  MaxFutureSkew, MaxSpreadBps, MinNotional,
  \* ExecutionCosts
  FeeRate, SlippageRate, FundingBuffer

ValidLimits ==
  /\ \A fraction \in {MaxMarginFraction, MaxStopRiskFraction,
                      MaxDailyLossFraction, MaxDrawdownFraction} : fraction \in 1 .. Scale
  /\ MaxOpenPositions \in Nat \ {0} /\ MaxLeverage \in 1 .. 20 /\ MaxLeverage <= Scale
  /\ MaxMarketAge \in Nat /\ MaxFutureSkew \in Nat
  /\ MaxSpreadBps \in Nat /\ MinNotional \in Nat \ {0}
ValidCosts ==
  /\ FeeRate \in 0 .. (Scale - 1) /\ SlippageRate \in 0 .. (Scale - 1)
  /\ FundingBuffer \in 0 .. Scale
ASSUME LimitsAssumption == ValidLimits /\ ValidCosts

\* MarketGuard and MarketSnapshot
ValidMarket(market) ==
  /\ {market.bid, market.ask, market.low, market.high} \subseteq Nat \ {0}
  /\ market.bid <= market.ask /\ market.low <= market.high /\ market.age \in Int

Directions == {"LONG", "SHORT"}

EffectiveEntry(request) ==
  IF request.direction = "LONG" THEN Higher(request.entry, request.market.ask)
                                ELSE Lower(request.entry, request.market.bid)

\* day_start and peak are positive, so the fractions are compared multiplied out.
LostFraction(from, equity, limit) == (from - equity) * Scale >= limit * from

When(condition, reason) == IF condition THEN {reason} ELSE {}

InvalidStop(request) ==
  IF request.direction = "LONG" THEN request.stop >= EffectiveEntry(request)
                                ELSE request.stop <= EffectiveEntry(request)

\* _guard_reasons: all that apply are reported together.
GuardReasons(request) ==
  LET seen == request.market
      spread == seen.ask - seen.bid
  IN  UNION {When(seen.age > MaxMarketAge, "STALE_MARKET_DATA"),
             When(seen.age < -MaxFutureSkew, "FUTURE_MARKET_DATA"),
             When(2 * spread * 10000 > MaxSpreadBps * (seen.bid + seen.ask), "SPREAD_TOO_WIDE"),
             When(LostFraction(request.day_start, request.equity, MaxDailyLossFraction),
                  "DAILY_LOSS_LIMIT"),
             When(LostFraction(request.peak, request.equity, MaxDrawdownFraction),
                  "DRAWDOWN_LIMIT"),
             When(request.open_positions >= MaxOpenPositions, "OPEN_POSITION_LIMIT"),
             When(InvalidStop(request), "INVALID_STOP")}

\* (mutant) Only the spread is added to the distance of the stop.
SpreadBuffer(request) == request.market.ask - request.market.bid

\* cost_buffer of _risk_per_unit: fees and slippage of both fills, the spread and
\* an allowance for funding.
CostBuffer(request) ==
  LET both == EffectiveEntry(request) + request.stop
  IN  Times(both, FeeRate) + (request.market.ask - request.market.bid)
        + Times(both, SlippageRate) + Times(EffectiveEntry(request), FundingBuffer)

RiskPerUnit(request) ==
  Distance(EffectiveEntry(request), request.stop) + CostBuffer(request)

RiskBudget(equity) == Times(equity, MaxStopRiskFraction)
MarginLimit(equity) == Times(equity, MaxMarginFraction)

MaximumNotional(request) ==
  Lower(MarginLimit(request.equity) * MaxLeverage,
        Quotient(request.cash * Scale, Quotient(Scale, MaxLeverage) + FeeRate))

Quantity(request) ==
  Lower(Quotient(RiskBudget(request.equity), RiskPerUnit(request)),
        Quotient(MaximumNotional(request), EffectiveEntry(request)))

Notional(request) == Quantity(request) * EffectiveEntry(request)

EntryFee(request) == Times(Notional(request), FeeRate)

\* (mutant) The leverage is rounded to the nearest integer.
LeverageNearest(request) ==
  LET notional == Notional(request)
      fee == Times(notional, FeeRate)
  IN  Higher(Higher(1, Quotient(notional, MarginLimit(request.equity))),
             Quotient(notional, request.cash - fee))

\* The least leverage at which the margin fits the limit and the cash.
Leverage(request) ==
  LET notional == Notional(request)
      fee == Times(notional, FeeRate)
  IN  Higher(Higher(1, CeilingOf(notional, MarginLimit(request.equity))),
             CeilingOf(notional, request.cash - fee))

\* The early returns after the guards, in their order.
SizingReasons(request) ==
  LET quantity == Quantity(request)
      notional == quantity * EffectiveEntry(request)
  IN  CASE MarginLimit(request.equity) <= 0 \/ request.cash <= 0 -> {"INSUFFICIENT_CASH"}
        [] quantity <= 0 -> {"BELOW_MIN_QUANTITY"}
        [] notional < MinNotional -> {"BELOW_MIN_NOTIONAL"}
        [] request.cash <= Times(notional, FeeRate) -> {"INSUFFICIENT_CASH"}
        [] Leverage(request) > MaxLeverage -> {"INSUFFICIENT_CASH"}
        [] OTHER -> {}

Reasons(request) ==
  LET guarded == GuardReasons(request)
  IN  IF guarded # {} THEN guarded ELSE SizingReasons(request)

Sizing(request) ==
  LET quantity == Quantity(request)
      leverage == Leverage(request)
  IN  [quantity |-> quantity,
       leverage |-> leverage,
       margin |-> Quotient(quantity * EffectiveEntry(request), leverage),
       stop_loss_amount |-> quantity * RiskPerUnit(request)]

\* The two AssertionErrors before an approval.
WithinLimits(request) ==
  LET sizing == Sizing(request)
  IN  /\ sizing.stop_loss_amount <= RiskBudget(request.equity)
      /\ sizing.margin <= MarginLimit(request.equity)
      /\ sizing.margin + EntryFee(request) <= request.cash

\* RiskDecision.approved; where only the assertions fail, the exception ends the cycle.
Approved(request) == Reasons(request) = {} /\ WithinLimits(request)
=============================================================================
