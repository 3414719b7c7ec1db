------------------------ MODULE PaperTrading_proofs ------------------------
(***************************************************************************)
(* Theorems about PaperTrading for every market, funding rate, model and    *)
(* forecast, every capital, and all limits, rates and costs that the        *)
(* constructors of the code accept.                                         *)
(***************************************************************************)
EXTENDS PaperTrading, TLAPS

Third(confidence) == confidence \in Int /\ 3 * confidence > Scale

\* The confidence of a prediction whose direction is actionable is more than a third:
\* it is more than no_trade, and not less than the other direction.
LEMMA ActionableIsThird ==
  ASSUME NEW p, ValidPrediction(p), DirectionIsActionable(p)
  PROVE  Third(Confidence(p))
  BY ScaleAssumption DEF ValidPrediction, DirectionIsActionable, Confidence, Higher, Third

\* A selected threshold is the confidence of such a prediction, or 1.
LEMMA SelectedIsThird ==
  ASSUME NEW points, NEW threshold \in Selected(points),
         \A i \in DOMAIN points : ValidPrediction(points[i])
  PROVE  Third(threshold)
<1>1. CASE ActionableIndex(points) = {}
  BY <1>1, ScaleAssumption DEF Selected, Third
<1>2. CASE ActionableIndex(points) # {}
  <2>1. threshold \in CandidateThresholds(points)
    BY <1>2 DEF Selected, Pool, Eligible
  <2>2. PICK i \in ActionableIndex(points) : threshold = Confidence(points[i])
    BY <2>1 DEF CandidateThresholds
  <2>3. QED
    BY <2>2, ActionableIsThird DEF ActionableIndex
<1>3. QED
  BY <1>1, <1>2

\* Every champion has such a threshold.
LEMMA PromotedIsThird ==
  ASSUME NEW threshold \in Promoted
  PROVE  Third(threshold)
<1>1. PICK c \in Candidates : threshold \in Selected(c.validation)
  BY DEF Promoted
<1>2. QED
  BY <1>1, SelectedIsThird, TradingAssumption DEF TradingAssumption

\* Above a third the policy and the evaluation agree: an up that reaches the threshold
\* but not no_trade would leave less than a third for a down above no_trade.
LEMMA ThirdAgrees ==
  ASSUME Third(min_confidence), NEW p \in Predictions
  PROVE  EntryAction(p) = (IF Counted(p, min_confidence) = "NONE"
                             THEN "HOLD" ELSE Counted(p, min_confidence))
<1>1. ValidPrediction(p)
  BY TradingAssumption DEF TradingAssumption
<1>2. QED
  BY <1>1, ScaleAssumption
     DEF ValidPrediction, Third, EntryAction, Bullish, Bearish, Counted,
         DirectionIsActionable, Confidence, Higher

\* No step but an activation changes the threshold.
LEMMA ThresholdKept ==
  ASSUME [Next]_vars
  PROVE  min_confidence' = min_confidence \/ min_confidence' \in Promoted
  BY DEF Next, vars, NewChampion, NewVector, NewDay, AutoExit, Bankrupt, NoOrder, Leave,
         Enter, Close, AfterExits

\* The policy enters exactly the trades that the evaluation has counted, whatever the
\* models, the validation and test data and the forecasts are.
THEOREM EvaluationTheorem == Spec => []EvaluatedAsTraded
<1>1. Init => Third(min_confidence)
  BY PromotedIsThird DEF Init
<1>2. Third(min_confidence) /\ [Next]_vars => Third(min_confidence)'
  BY ThresholdKept, PromotedIsThird DEF Third
<1>3. Third(min_confidence) => EvaluatedAsTraded
  BY ThirdAgrees DEF EvaluatedAsTraded
<1>4. QED
  BY <1>1, <1>2, <1>3, PTL DEF Spec
-----------------------------------------------------------------------------
\* A rounded quotient is an integer, and not below zero or one where the exact one is not.
LEMMA QuotientType ==
  ASSUME NEW a \in Int, NEW b \in Nat \ {0}
  PROVE  /\ Quotient(a, b) \in Int
         /\ a >= 0 => Quotient(a, b) >= 0
         /\ a >= b => Quotient(a, b) >= 1
<1>1. a \div b \in Int /\ (a >= 0 => a \div b >= 0) /\ (a >= b => a \div b >= 1)
  OBVIOUS
<1>2. Quotient(a, b) \in {a \div b, a \div b + 1}
  BY DEF Quotient
<1>3. QED
  BY <1>1, <1>2

\* So is an amount times a rate.
LEMMA TimesType ==
  ASSUME NEW amount \in Int, NEW ratio \in Int
  PROVE  Times(amount, ratio) \in Int /\ (amount >= 0 /\ ratio >= 0 => Times(amount, ratio) >= 0)
<1>1. amount * ratio \in Int /\ (amount >= 0 /\ ratio >= 0 => amount * ratio >= 0)
  OBVIOUS
<1>2. QED
  BY <1>1, QuotientType, ScaleAssumption DEF Times

\* Rounding up gives an integer too.
LEMMA CeilingType ==
  ASSUME NEW a \in Int, NEW b \in Nat \ {0}
  PROVE  CeilingOf(a, b) \in Int
  BY DEF CeilingOf

\* The midpoint of a market is a price.
LEMMA ReferenceType ==
  ASSUME market \in Markets
  PROVE  Reference \in Nat \ {0}
<1>1. market.bid + market.ask \in Int /\ market.bid + market.ask >= 2
  BY TradingAssumption DEF TradingAssumption, ValidMarket
<1>2. QED
  BY <1>1, QuotientType DEF Reference
-----------------------------------------------------------------------------
\* What the worker asks the risk engine about.
EntryRequest(request) ==
  /\ request.direction \in Directions
  /\ request.entry \in Nat \ {0} /\ request.stop \in Nat
  /\ request.equity \in Int /\ request.cash \in Int
  /\ ValidMarket(request.market)

\* An entry has a price.
LEMMA EffectiveEntryType ==
  ASSUME NEW request, EntryRequest(request)
  PROVE  EffectiveEntry(request) \in Nat \ {0}
  BY DEF EntryRequest, ValidMarket, EffectiveEntry, Higher, Lower

\* The costs are never negative.
LEMMA CostBufferType ==
  ASSUME NEW request, EntryRequest(request)
  PROVE  CostBuffer(request) \in Nat
<1> DEFINE both == EffectiveEntry(request) + request.stop
           spread == request.market.ask - request.market.bid
<1>1. both \in Nat /\ EffectiveEntry(request) \in Nat
  BY EffectiveEntryType DEF EntryRequest
<1>2. spread \in Nat
  BY DEF EntryRequest, ValidMarket
<1>3. FeeRate \in Nat /\ SlippageRate \in Nat /\ FundingBuffer \in Nat
  BY LimitsAssumption, ScaleAssumption DEF ValidCosts
<1>4. /\ Times(both, FeeRate) \in Nat /\ Times(both, SlippageRate) \in Nat
      /\ Times(EffectiveEntry(request), FundingBuffer) \in Nat
  <2>1. \A amount, ratio \in Nat : Times(amount, ratio) \in Nat
    BY TimesType
  <2> HIDE DEF both
  <2>2. QED
    BY <1>1, <1>3, <2>1
<1>5. CostBuffer(request) = Times(both, FeeRate) + spread + Times(both, SlippageRate)
                              + Times(EffectiveEntry(request), FundingBuffer)
  BY DEF CostBuffer
<1> HIDE DEF both, spread
<1>6. QED
  BY <1>2, <1>4, <1>5

\* A request that passes the guards risks something with every unit: its stop is not at
\* the entry, so that the risk budget can be divided by what a unit risks.
LEMMA RiskPerUnitType ==
  ASSUME NEW request, EntryRequest(request), GuardReasons(request) = {}
  PROVE  RiskPerUnit(request) \in Nat \ {0}
<1>1. EffectiveEntry(request) # request.stop
  <2>1. ~InvalidStop(request)
    BY DEF GuardReasons, When
  <2>2. QED
    BY <2>1, EffectiveEntryType DEF InvalidStop
<1>2. Distance(EffectiveEntry(request), request.stop) \in Nat \ {0}
  BY <1>1, EffectiveEntryType DEF Distance, EntryRequest
<1>3. QED
  BY <1>2, CostBufferType DEF RiskPerUnit

\* The amounts such a request is sized by are integers, and so is the quantity: nothing
\* is divided by zero.
LEMMA QuantityType ==
  ASSUME NEW request, EntryRequest(request), GuardReasons(request) = {}
  PROVE  /\ MarginLimit(request.equity) \in Int /\ RiskBudget(request.equity) \in Int
         /\ MaximumNotional(request) \in Int
         /\ Quantity(request) \in Int
<1>1. MarginLimit(request.equity) \in Int /\ RiskBudget(request.equity) \in Int
  <2>1. MaxMarginFraction \in Int /\ MaxStopRiskFraction \in Int
    BY LimitsAssumption, ScaleAssumption DEF ValidLimits
  <2>2. request.equity \in Int
    BY DEF EntryRequest
  <2>3. QED
    BY <2>1, <2>2, TimesType DEF MarginLimit, RiskBudget
<1>2. Quotient(Scale, MaxLeverage) \in Nat \ {0}
  <2>1. MaxLeverage \in Nat \ {0} /\ Scale \in Int /\ Scale >= MaxLeverage /\ Scale >= 0
    BY LimitsAssumption, ScaleAssumption DEF ValidLimits
  <2>2. QED
    BY <2>1, QuotientType
<1>3. MaximumNotional(request) \in Int
  <2>1. Quotient(Scale, MaxLeverage) + FeeRate \in Nat \ {0}
    BY <1>2, LimitsAssumption, ScaleAssumption DEF ValidCosts
  <2>2. Quotient(request.cash * Scale, Quotient(Scale, MaxLeverage) + FeeRate) \in Int
    <3>1. request.cash * Scale \in Int
      BY ScaleAssumption DEF EntryRequest
    <3>2. QED
      BY <2>1, <3>1, QuotientType
  <2>3. MarginLimit(request.equity) * MaxLeverage \in Int
    BY <1>1, LimitsAssumption DEF ValidLimits
  <2>4. QED
    BY <2>2, <2>3 DEF MaximumNotional, Lower
<1>4. QED
  BY <1>1, <1>3, QuotientType, RiskPerUnitType, EffectiveEntryType DEF Quantity, Lower

\* An approved sizing has a leverage of at least one.
LEMMA SizingType ==
  ASSUME NEW request, EntryRequest(request), Approved(request)
  PROVE  /\ Sizing(request).quantity \in Int
         /\ Sizing(request).leverage \in Nat \ {0}
<1> DEFINE notional == Quantity(request) * EffectiveEntry(request)
<1>1. GuardReasons(request) = {} /\ SizingReasons(request) = {}
  BY DEF Approved, Reasons
<1>2. Quantity(request) \in Int /\ notional \in Int
  BY <1>1, QuantityType, EffectiveEntryType
<1>3. MarginLimit(request.equity) \in Nat \ {0}
  <2>1. MarginLimit(request.equity) \in Int
    BY <1>1, QuantityType
  <2>2. ~(MarginLimit(request.equity) <= 0)
    BY <1>1 DEF SizingReasons
  <2>3. QED
    BY <2>1, <2>2
<1>4. request.cash - EntryFee(request) \in Nat \ {0}
  <2>1. EntryFee(request) \in Int
    BY <1>2, TimesType, LimitsAssumption, ScaleAssumption DEF EntryFee, Notional, ValidCosts
  <2>2. ~(request.cash <= EntryFee(request))
    BY <1>1 DEF SizingReasons, EntryFee, Notional
  <2>3. QED
    BY <2>1, <2>2 DEF EntryRequest
<1>5. /\ CeilingOf(notional, MarginLimit(request.equity)) \in Int
      /\ CeilingOf(notional, request.cash - EntryFee(request)) \in Int
  <2> HIDE DEF notional
  <2>1. QED
    BY <1>2, <1>3, <1>4, CeilingType
<1>6. Leverage(request) \in Nat \ {0}
  BY <1>5 DEF Leverage, EntryFee, Notional, Higher
<1>7. QED
  BY <1>2, <1>6 DEF Sizing
-----------------------------------------------------------------------------
Positions ==
  [side : Directions, quantity : Int, entry_price : Int, leverage : Int, margin : Int,
   stop_loss : Int, take_profit : Int, opening_commission : Int, funding_pnl : Int,
   liquidation_price : Int]

TypeInv ==
  /\ market \in Markets /\ rate \in FundingRates
  /\ cash \in Int /\ realised \in Int
  /\ Held => position \in Positions

\* The price of a fill is an integer.
LEMMA SlippageType ==
  ASSUME NEW price \in Int, NEW order
  PROVE  WithSlippage(price, order) \in Int
<1>1. Scale + Slippage \in Int /\ Scale - Slippage \in Int
  BY ScaleAssumption, SettingsAssumption DEF ValidSettings
<1>2. QED
  BY <1>1, TimesType DEF WithSlippage

\* So is the side of the book it is filled at.
LEMMA QuoteType ==
  ASSUME market \in Markets, NEW order
  PROVE  QuoteFor(order, market) \in Int
  BY TradingAssumption DEF TradingAssumption, ValidMarket, QuoteFor

\* So is the commission of a fill.
LEMMA CommissionType ==
  ASSUME NEW quantity \in Int, NEW price \in Int
  PROVE  Commission(quantity, price) \in Int
<1>1. quantity * price \in Int /\ TakerFee \in Int
  BY ScaleAssumption, SettingsAssumption DEF ValidSettings
<1>2. QED
  BY <1>1, TimesType DEF Commission

\* So is the liquidation price.
LEMMA LiquidationType ==
  ASSUME NEW entry \in Int, NEW side, NEW leverage \in Nat \ {0}
  PROVE  LiquidationEstimate(entry, side, leverage) \in Int
<1> DEFINE inverse == Quotient(Scale, leverage)
<1>1. inverse \in Int
  BY QuotientType, ScaleAssumption
<1>2. /\ Scale - inverse + MaintenanceMargin \in Int
      /\ Scale + inverse - MaintenanceMargin \in Int
  BY <1>1, ScaleAssumption, SettingsAssumption DEF ValidSettings
<1>3. /\ Times(entry, Scale - inverse + MaintenanceMargin) \in Int
      /\ Times(entry, Scale + inverse - MaintenanceMargin) \in Int
  <2> HIDE DEF inverse
  <2>1. QED
    BY <1>2, TimesType
<1>4. QED
  BY <1>3 DEF LiquidationEstimate, Higher

\* What the worker asks for on an entry is a request of that kind.
LEMMA RequestType ==
  ASSUME TypeInv, ~Held, NEW direction \in Directions
  PROVE  EntryRequest(Request(direction))
<1>1. market.bid \in Int /\ ValidMarket(market) /\ Reference \in Nat \ {0}
  BY ReferenceType, TradingAssumption DEF TypeInv, TradingAssumption, ValidMarket
<1>2. StopLoss(direction) \in Nat
  <2>1. Scale - StopDistance \in Nat /\ Scale + StopDistance \in Nat
    BY ScaleAssumption, TradingAssumption DEF TradingAssumption
  <2>2. \A amount, ratio \in Nat : Times(amount, ratio) \in Nat
    BY TimesType
  <2>3. QED
    BY <1>1, <2>1, <2>2 DEF StopLoss
<1>3. Equity \in Int
  BY DEF TypeInv, Equity
<1>4. QED
  BY <1>1, <1>2, <1>3 DEF Request, EntryRequest, TypeInv

\* An approved entry opens a position of the right type.
LEMMA OfferType ==
  ASSUME TypeInv, NEW direction \in Directions, Candidate(direction)
  PROVE  Offer(direction) \in Positions
<1> DEFINE sizing == Sizing(Request(direction))
           order == OpeningOrder(direction)
           price == WithSlippage(QuoteFor(order, market), order)
<1>1. EntryRequest(Request(direction)) /\ Approved(Request(direction))
  BY RequestType DEF Candidate
<1>2. sizing.quantity \in Int /\ sizing.leverage \in Nat \ {0}
  BY <1>1, SizingType
<1>3. price \in Int
  BY SlippageType, QuoteType DEF TypeInv
<1>4. Reference \in Int
  BY ReferenceType DEF TypeInv
<1>5. StopLoss(direction) \in Int
  BY <1>1 DEF EntryRequest, Request
<1>6. TakeProfit(direction) \in Int
  <2> DEFINE reward == StopDistance * RewardToRisk
  <2>1. Scale + reward \in Int /\ Scale - reward \in Int
    BY ScaleAssumption, TradingAssumption DEF TradingAssumption
  <2>2. Times(Reference, Scale + reward) \in Int /\ Times(Reference, Scale - reward) \in Int
    <3> HIDE DEF reward
    <3>1. QED
      BY <1>4, <2>1, TimesType
  <2>3. QED
    BY <2>2 DEF TakeProfit
<1> HIDE DEF sizing, price
<1>7. sizing.quantity * price \in Int
  BY <1>2, <1>3
<1>8. Quotient(sizing.quantity * price, sizing.leverage) \in Int
  BY <1>2, <1>7, QuotientType
<1>9. /\ Commission(sizing.quantity, price) \in Int
      /\ LiquidationEstimate(price, direction, sizing.leverage) \in Int
  BY <1>2, <1>3, CommissionType, LiquidationType
<1>10. Offer(direction) =
        [side |-> direction, quantity |-> sizing.quantity, entry_price |-> price,
         leverage |-> sizing.leverage,
         margin |-> Quotient(sizing.quantity * price, sizing.leverage),
         stop_loss |-> StopLoss(direction), take_profit |-> TakeProfit(direction),
         opening_commission |-> Commission(sizing.quantity, price),
         funding_pnl |-> 0,
         liquidation_price |-> LiquidationEstimate(price, direction, sizing.leverage)]
  BY DEF Offer, Opened, sizing, price
<1>11. QED
  BY <1>2, <1>3, <1>5, <1>6, <1>8, <1>9, <1>10 DEF Positions
-----------------------------------------------------------------------------
\* Funding leaves a position a position, and what it has taken from the cash.
LEMMA FundedType ==
  ASSUME TypeInv, Held
  PROVE  Funded \in Positions /\ RequiredCash(Funded) = RequiredCash(position)
<1>1. position \in Positions
  BY DEF TypeInv
<1>2. position.quantity * Reference \in Int
  BY <1>1, ReferenceType DEF TypeInv, Positions
<1>3. rate \in Int
  BY TradingAssumption DEF TypeInv, TradingAssumption
<1>4. Times(position.quantity * Reference, rate) \in Int
  BY <1>2, <1>3, TimesType
<1>5. position.funding_pnl - Sign(position.side) * Times(position.quantity * Reference, rate) \in Int
  BY <1>1, <1>4 DEF Positions, Sign
<1>6. \A paid \in Int : LET p == [position EXCEPT !.funding_pnl = paid]
                        IN  p \in Positions /\ RequiredCash(p) = RequiredCash(position)
  BY <1>1 DEF Positions, RequiredCash
<1>7. WithFunding(position, rate, Reference) =
        [position EXCEPT !.funding_pnl =
           position.funding_pnl
             - Sign(position.side) * Times(position.quantity * Reference, rate)]
  BY <1>1 DEF WithFunding, Positions
<1>8. QED
  BY <1>1, <1>5, <1>6, <1>7 DEF Funded

\* The cash that a close books is its net result and what the position had taken: the
\* commission of the opening is in both, and was paid once.
LEMMA SettledExplained ==
  ASSUME NEW p \in Positions, NEW price \in Int
  PROVE  LET settled == Settled(p, price)
         IN  /\ settled.net_pnl \in Int /\ settled.cash_delta \in Int
             /\ settled.cash_delta = settled.net_pnl + RequiredCash(p)
<1> DEFINE gross == (price - p.entry_price) * p.quantity * Sign(p.side)
           commission == Commission(p.quantity, price)
<1>1. gross \in Int
  <2>1. (price - p.entry_price) * p.quantity \in Int
    BY DEF Positions
  <2>2. QED
    BY <2>1 DEF Sign
<1>2. commission \in Int
  BY CommissionType DEF Positions
<1>3. Settled(p, price) =
        [net_pnl |-> gross + p.funding_pnl - p.opening_commission - commission,
         cash_delta |-> p.margin + gross + p.funding_pnl - commission]
  BY DEF Settled
<1> HIDE DEF gross, commission
<1>4. QED
  BY <1>1, <1>2, <1>3 DEF Positions, RequiredCash

\* The level that triggers an exit is a price.
LEMMA TriggerType ==
  ASSUME NEW p \in Positions, NEW seen
  PROVE  Trigger(p, seen).price \in Int
  BY DEF Trigger, Untriggered, Positions

\* Both ways of leaving a position settle it at a price.
LEMMA CloseExplained ==
  ASSUME TypeInv, Held
  PROVE  /\ \E price \in Int : ClosedByTrigger(Funded, Exit, market) = Settled(Funded, price)
         /\ \E price \in Int : ClosedAtMarket(Funded, market) = Settled(Funded, price)
<1> DEFINE order == ClosingOrder(Funded.side)
<1>1. QuoteFor(order, market) \in Int
  BY QuoteType DEF TypeInv
<1>2. Exit.price \in Int
  BY FundedType, TriggerType DEF Exit
<1>3. ExitReference(Exit, order, market) \in Int
  BY <1>1, <1>2 DEF ExitReference, Lower, Higher
<1>4. /\ WithSlippage(ExitReference(Exit, order, market), order) \in Int
      /\ WithSlippage(QuoteFor(order, market), order) \in Int
  BY <1>1, <1>3, SlippageType
<1>5. QED
  BY <1>4 DEF ClosedByTrigger, ClosedAtMarket

CashInv == TypeInv /\ CashExplained

\* A close at any price keeps the account explained.
LEMMA CloseStep ==
  ASSUME CashInv, Held, NEW price \in Int, Close(Settled(Funded, price))
  PROVE  CashInv'
<1> DEFINE settled == Settled(Funded, price)
<1>1. /\ settled.net_pnl \in Int /\ settled.cash_delta \in Int
      /\ settled.cash_delta = settled.net_pnl + RequiredCash(position)
  BY SettledExplained, FundedType DEF CashInv
<1>2. RequiredCash(position) \in Int
  BY DEF CashInv, TypeInv, Positions, RequiredCash
<1>3. cash = Capital + realised - RequiredCash(position)
  BY DEF CashInv, CashExplained
<1>4. /\ cash' = cash + settled.cash_delta /\ realised' = realised + settled.net_pnl
      /\ market' = market /\ rate' = rate /\ ~Held'
  BY DEF Close, Held
<1> HIDE DEF settled
<1>5. cash' \in Int /\ realised' \in Int
  BY <1>1, <1>4 DEF CashInv, TypeInv
<1>6. cash' = Capital + realised' - 0
  BY <1>1, <1>2, <1>3, <1>4, TradingAssumption DEF CashInv, TypeInv, TradingAssumption
<1>7. QED
  BY <1>4, <1>5, <1>6 DEF CashInv, TypeInv, CashExplained

\* An order opens a position, or is rejected and changes nothing.
LEMMA EnterStep ==
  ASSUME CashInv, NEW direction \in Directions, Enter(direction)
  PROVE  CashInv'
<1>1. /\ Candidate(direction) /\ ~Held
      /\ market' = market /\ rate' = rate /\ realised' = realised
  BY DEF Enter, AfterExits, Candidate
<1>2. Offer(direction) \in Positions
  BY <1>1, OfferType DEF CashInv
<1>3. RequiredCash(Offer(direction)) \in Int
  BY <1>2 DEF Positions, RequiredCash
<1>4. cash \in Int /\ realised \in Int /\ Capital \in Int /\ cash = Capital + realised
  <2>1. cash \in Int /\ realised \in Int /\ Capital \in Int
    BY TradingAssumption DEF CashInv, TypeInv, TradingAssumption
  <2>2. cash = Capital + realised - 0
    BY <1>1 DEF CashInv, CashExplained
  <2>3. QED
    BY <2>1, <2>2
<1>5. CASE RequiredCash(Offer(direction)) <= cash
  <2>1. position' = Offer(direction) /\ cash' = cash - RequiredCash(Offer(direction))
    BY <1>5 DEF Enter
  <2>2. Held'
    BY <1>2, <2>1 DEF Held, NoPosition, Positions, Directions
  <2>3. cash' \in Int /\ cash' = Capital + realised' - RequiredCash(position')
    BY <1>1, <1>3, <1>4, <2>1
  <2>4. QED
    BY <1>1, <1>2, <1>4, <2>1, <2>2, <2>3 DEF CashInv, TypeInv, CashExplained
<1>6. CASE ~(RequiredCash(Offer(direction)) <= cash)
  <2>1. position' = NoPosition /\ cash' = cash
    BY <1>6 DEF Enter
  <2>2. ~Held'
    BY <2>1 DEF Held
  <2>3. cash' = Capital + realised' - 0
    BY <1>1, <1>4, <2>1
  <2>4. QED
    BY <1>1, <1>4, <2>1, <2>2, <2>3 DEF CashInv, TypeInv, CashExplained
<1>7. QED
  BY <1>5, <1>6

\* A cycle that only accrues funding moves no cash.
LEMMA AccrueStep ==
  ASSUME CashInv, Accrue, market' = market, UNCHANGED <<cash, realised>>
  PROVE  CashInv'
<1>1. CASE Held
  <2>1. position' = Funded /\ Funded \in Positions /\ RequiredCash(position') = RequiredCash(position)
    BY <1>1, FundedType DEF Accrue, CashInv
  <2>2. Held'
    BY <2>1 DEF Held, NoPosition, Positions, Directions
  <2>3. QED
    BY <1>1, <2>1, <2>2 DEF Accrue, CashInv, TypeInv, CashExplained
<1>2. CASE ~Held
  BY <1>2 DEF Accrue, CashInv, TypeInv, CashExplained, Held
<1>3. QED
  BY <1>1, <1>2

\* Vectors, days, models and the clock move no cash.
LEMMA OutsideStep ==
  ASSUME CashInv, UNCHANGED <<cash, realised, position>>,
         market' \in Markets, rate' \in FundingRates
  PROVE  CashInv'
  BY DEF CashInv, TypeInv, CashExplained, Held

\* The types of the state, without which nothing can be said of the amounts, and the
\* account of the cash hold together: each close needs the types of the position.
THEOREM CashInvariant == Spec => []CashInv
<1>1. Init => CashInv
  BY TradingAssumption
     DEF Init, CashInv, TypeInv, CashExplained, Held, NoPosition, TradingAssumption
<1>2. CashInv /\ [Next]_vars => CashInv'
  <2> SUFFICES ASSUME CashInv, [Next]_vars PROVE CashInv'
    OBVIOUS
  <2>0. market \in Markets /\ rate \in FundingRates
    BY DEF CashInv, TypeInv
  <2>1. CASE NewChampion
    BY <2>0, <2>1, OutsideStep DEF NewChampion
  <2>2. CASE NewVector
    BY <2>0, <2>2, OutsideStep DEF NewVector
  <2>3. CASE NewDay
    BY <2>0, <2>3, OutsideStep DEF NewDay
  <2>4. CASE AutoExit
    BY <2>4, CloseExplained, CloseStep DEF AutoExit, CashInv
  <2>5. CASE Bankrupt
    BY <2>5, AccrueStep DEF Bankrupt
  <2>6. CASE NoOrder
    BY <2>6, AccrueStep DEF NoOrder, AfterExits
  <2>7. CASE Leave
    BY <2>7, CloseExplained, CloseStep DEF Leave, CashInv
  <2>8. CASE \E direction \in Directions : Enter(direction)
    BY <2>8, EnterStep
  <2>9. CASE UNCHANGED vars
    BY <2>0, <2>9, OutsideStep DEF vars
  <2>10. QED
    BY <2>1, <2>2, <2>3, <2>4, <2>5, <2>6, <2>7, <2>8, <2>9 DEF Next
<1>3. QED
  BY <1>1, <1>2, PTL DEF Spec

\* Every unit of cash is accounted for, whatever the market, the rates, the models, the
\* fees and the limits are.
THEOREM CashTheorem == Spec => []CashExplained
<1>1. CashInv => CashExplained
  BY DEF CashInv
<1>2. QED
  BY <1>1, CashInvariant, PTL
-----------------------------------------------------------------------------
\* A rounded quotient is within half a divisor of the exact one.
LEMMA QuotientBound ==
  ASSUME NEW a \in Int, NEW b \in Nat \ {0}
  PROVE  2 * a - b <= 2 * (Quotient(a, b) * b) /\ 2 * (Quotient(a, b) * b) <= 2 * a + b
<1> DEFINE floor == a \div b
           rest == a % b
<1>1. floor \in Int /\ rest \in 0 .. (b - 1) /\ a = b * floor + rest
  OBVIOUS
<1>2. \/ Quotient(a, b) = floor /\ 2 * rest <= b
      \/ Quotient(a, b) = floor + 1 /\ 2 * rest >= b
  BY <1>1 DEF Quotient
<1> HIDE DEF floor, rest
<1>3. floor * b = a - rest /\ (floor + 1) * b = a - rest + b
  BY <1>1
<1>4. QED
  BY <1>1, <1>2, <1>3

\* So it does not exceed an integer that the exact one does not exceed.
LEMMA QuotientAtMost ==
  ASSUME NEW a \in Int, NEW b \in Nat \ {0}, NEW c \in Int, a <= c * b
  PROVE  Quotient(a, b) <= c
<1> DEFINE q == Quotient(a, b)
<1>1. q \in Int /\ 2 * (q * b) <= 2 * a + b
  BY QuotientType, QuotientBound
<1> HIDE DEF q
<1>2. 2 * ((q - c) * b) <= b
  BY <1>1
<1>3. ~(q - c >= 1)
  <2>1. q - c >= 1 => (q - c) * b >= b
    BY <1>1
  <2>2. QED
    BY <1>1, <1>2, <2>1
<1>4. q <= c
  BY <1>1, <1>3
<1>5. QED
  BY <1>4 DEF q

\* What is rounded up is enough.
LEMMA CeilingEnough ==
  ASSUME NEW a \in Int, NEW b \in Nat \ {0}
  PROVE  a <= CeilingOf(a, b) * b
<1> DEFINE floor == (- a) \div b
<1>1. floor \in Int /\ b * floor <= - a
  OBVIOUS
<1> HIDE DEF floor
<1>2. a <= (- floor) * b
  BY <1>1
<1>3. QED
  BY <1>2 DEF CeilingOf, floor

\* A leverage not below the rounded-up ratio of the notional to an amount makes the
\* margin fit that amount.
LEMMA MarginFits ==
  ASSUME NEW notional \in Int, NEW amount \in Nat \ {0}, NEW leverage \in Nat \ {0},
         leverage >= CeilingOf(notional, amount)
  PROVE  Quotient(notional, leverage) <= amount
<1> DEFINE least == CeilingOf(notional, amount)
<1>1. least \in Int /\ notional <= least * amount
  BY CeilingType, CeilingEnough
<1> HIDE DEF least
<1>2. least <= leverage
  BY DEF least
<1>3. least * amount <= amount * leverage
  BY <1>1, <1>2
<1>4. amount * leverage \in Int /\ least * amount \in Int
  BY <1>1
<1>5. notional <= amount * leverage
  BY <1>1, <1>3, <1>4
<1>6. QED
  BY <1>5, QuotientAtMost

\* A request that passes the guards and the early returns is sized within the margin and
\* the cash, and over the risk budget by half of what a unit risks at most.
LEMMA SizedWithinAUnit ==
  ASSUME NEW request, EntryRequest(request), Reasons(request) = {}
  PROVE  LET sizing == Sizing(request)
         IN  /\ sizing.margin <= MarginLimit(request.equity)
             /\ sizing.margin + EntryFee(request) <= request.cash
             /\ 2 * (sizing.stop_loss_amount - RiskBudget(request.equity))
                  <= RiskPerUnit(request)
<1> DEFINE notional == Quantity(request) * EffectiveEntry(request)
           limit == MarginLimit(request.equity)
           left == request.cash - EntryFee(request)
           leverage == Leverage(request)
           unit == RiskPerUnit(request)
           bound == RiskBudget(request.equity)
<1>1. GuardReasons(request) = {} /\ SizingReasons(request) = {}
  BY DEF Reasons
<1>2. Quantity(request) \in Int /\ notional \in Int
  BY <1>1, QuantityType, EffectiveEntryType
<1>3. limit \in Nat \ {0} /\ bound \in Int
  <2>1. limit \in Int /\ bound \in Int
    BY <1>1, QuantityType
  <2>2. ~(limit <= 0)
    BY <1>1 DEF SizingReasons
  <2>3. QED
    BY <2>1, <2>2
<1>4. EntryFee(request) \in Int /\ request.cash \in Int /\ left \in Nat \ {0}
  <2>1. EntryFee(request) \in Int
    BY <1>2, TimesType, LimitsAssumption, ScaleAssumption DEF EntryFee, Notional, ValidCosts
  <2>2. ~(request.cash <= EntryFee(request))
    BY <1>1 DEF SizingReasons, EntryFee, Notional
  <2>3. QED
    BY <2>1, <2>2 DEF EntryRequest
<1>5. /\ leverage \in Nat \ {0}
      /\ leverage >= CeilingOf(notional, limit) /\ leverage >= CeilingOf(notional, left)
  <2>1. leverage = Higher(Higher(1, CeilingOf(notional, limit)), CeilingOf(notional, left))
    BY DEF Leverage, EntryFee, Notional
  <2> HIDE DEF notional, limit, left, leverage
  <2>2. CeilingOf(notional, limit) \in Int /\ CeilingOf(notional, left) \in Int
    BY <1>2, <1>3, <1>4, CeilingType
  <2>3. QED
    BY <2>1, <2>2 DEF Higher
<1>6. /\ Sizing(request).margin = Quotient(notional, leverage)
      /\ Sizing(request).stop_loss_amount = Quantity(request) * unit
  BY DEF Sizing
<1>7. /\ Sizing(request).margin \in Int
      /\ Sizing(request).margin <= limit /\ Sizing(request).margin <= left
  <2> HIDE DEF notional, limit, left, leverage
  <2>1. Quotient(notional, leverage) <= limit /\ Quotient(notional, leverage) <= left
    BY <1>2, <1>3, <1>4, <1>5, MarginFits
  <2>2. Quotient(notional, leverage) \in Int
    BY <1>2, <1>5, QuotientType
  <2>3. QED
    BY <1>6, <2>1, <2>2
<1>8. unit \in Nat \ {0}
  BY <1>1, RiskPerUnitType
<1>9. 2 * (Quantity(request) * unit - bound) <= unit
  <2> DEFINE most == Quotient(bound, unit)
           affordable == Quotient(MaximumNotional(request), EffectiveEntry(request))
  <2>1. Quantity(request) <= most
    <3>1. most \in Int /\ affordable \in Int
      BY <1>1, <1>3, <1>8, QuantityType, EffectiveEntryType, QuotientType
    <3>2. Quantity(request) = Lower(most, affordable)
      BY DEF Quantity
    <3> HIDE DEF most, affordable
    <3>3. QED
      BY <3>1, <3>2 DEF Lower
  <2> DEFINE quantity == Quantity(request)
  <2> HIDE DEF unit, bound
  <2>2. most \in Int /\ 2 * (most * unit) <= 2 * bound + unit
    BY <1>3, <1>8, QuotientType, QuotientBound
  <2> HIDE DEF most, quantity
  <2>3. quantity \in Int /\ quantity <= most
    BY <1>2, <2>1 DEF quantity
  <2>4. quantity * unit <= most * unit /\ quantity * unit \in Int /\ most * unit \in Int
    BY <1>8, <2>2, <2>3
  <2>5. 2 * (quantity * unit - bound) <= unit
    BY <1>3, <1>8, <2>2, <2>4
  <2>6. QED
    BY <2>5 DEF quantity
<1>10. Sizing(request).margin + EntryFee(request) <= request.cash
  BY <1>4, <1>7
<1>11. QED
  BY <1>6, <1>7, <1>9, <1>10

\* The two assertions at the end of assess about margin and cash never fail, and the one
\* about the risk budget fails for the rounding of the quantity only, whatever the market,
\* the equity, the limits and the costs are.
THEOREM SizingTheorem == Spec => []SizingWithinAUnit
<1>1. CashInv => SizingWithinAUnit
  BY RequestType, SizedWithinAUnit DEF CashInv, SizingWithinAUnit
<1>2. QED
  BY <1>1, CashInvariant, PTL
-----------------------------------------------------------------------------
\* Rounding keeps the order.
LEMMA QuotientMonotone ==
  ASSUME NEW a \in Int, NEW b \in Int, a <= b, NEW c \in Nat \ {0}
  PROVE  Quotient(a, c) <= Quotient(b, c)
<1> DEFINE floorA == a \div c
           floorB == b \div c
           restA == a % c
           restB == b % c
<1>1. /\ floorA \in Int /\ restA \in 0 .. (c - 1) /\ a = c * floorA + restA
      /\ floorB \in Int /\ restB \in 0 .. (c - 1) /\ b = c * floorB + restB
  OBVIOUS
<1>2. /\ Quotient(a, c) = IF 2 * restA > c \/ (2 * restA = c /\ floorA % 2 = 1)
                            THEN floorA + 1 ELSE floorA
      /\ Quotient(b, c) = IF 2 * restB > c \/ (2 * restB = c /\ floorB % 2 = 1)
                            THEN floorB + 1 ELSE floorB
  BY DEF Quotient
<1> HIDE DEF floorA, floorB, restA, restB
<1>3. floorA <= floorB
  <2>1. c * (floorA - floorB) < c
    BY <1>1
  <2>2. floorA - floorB >= 1 => c * (floorA - floorB) >= c
    BY <1>1
  <2>3. QED
    BY <1>1, <2>1, <2>2
<1>4. CASE floorA < floorB
  BY <1>1, <1>2, <1>4
<1>5. CASE floorA = floorB
  <2>1. restA <= restB
    BY <1>1, <1>5
  <2>2. QED
    BY <1>1, <1>2, <1>5, <2>1
<1>6. QED
  BY <1>1, <1>3, <1>4, <1>5

\* An amount times a rate is within half a unit of the exact product.
LEMMA TimesBound ==
  ASSUME NEW amount \in Int, NEW ratio \in Int
  PROVE  /\ Times(amount, ratio) \in Int
         /\ 2 * (amount * ratio) - Scale <= 2 * (Times(amount, ratio) * Scale)
         /\ 2 * (Times(amount, ratio) * Scale) <= 2 * (amount * ratio) + Scale
<1> DEFINE product == amount * ratio
<1>1. product \in Int /\ Times(amount, ratio) = Quotient(product, Scale)
  BY DEF Times
<1> HIDE DEF product
<1>2. /\ 2 * product - Scale <= 2 * (Quotient(product, Scale) * Scale)
      /\ 2 * (Quotient(product, Scale) * Scale) <= 2 * product + Scale
  BY <1>1, QuotientBound, ScaleAssumption
<1>3. QED
  BY <1>1, <1>2, TimesType DEF product

\* It grows with the amount.
LEMMA TimesMonotone ==
  ASSUME NEW a \in Int, NEW b \in Int, a <= b, NEW ratio \in Nat
  PROVE  Times(a, ratio) <= Times(b, ratio)
<1>1. a * ratio \in Int /\ b * ratio \in Int /\ a * ratio <= b * ratio
  OBVIOUS
<1>2. QED
  BY <1>1, QuotientMonotone, ScaleAssumption DEF Times

\* The commission of a quantity grows with the price, but by less than the value does.
LEMMA CommissionGrowth ==
  ASSUME NEW quantity \in Nat \ {0}, NEW low \in Int, NEW high \in Int, low <= high
  PROVE  /\ Commission(quantity, low) <= Commission(quantity, high)
         /\ Commission(quantity, high) <= Commission(quantity, low) + quantity * (high - low)
<1> DEFINE x == quantity * low
           y == quantity * high
           a == Times(x, TakerFee)
           b == Times(y, TakerFee)
<1>1. x \in Int /\ y \in Int /\ x <= y /\ y - x = quantity * (high - low)
  BY DEF x, y
<1>2. TakerFee \in Nat /\ TakerFee < Scale /\ Scale \in Nat \ {0}
  BY ScaleAssumption, SettingsAssumption DEF ValidSettings
<1> HIDE DEF x, y
<1>3. a <= b /\ a \in Int /\ b \in Int
  BY <1>1, <1>2, TimesMonotone, TimesType
<1>4. /\ 2 * (x * TakerFee) - Scale <= 2 * (a * Scale)
      /\ 2 * (b * Scale) <= 2 * (y * TakerFee) + Scale
  BY <1>1, <1>2, TimesBound
<1> HIDE DEF a, b
<1>5. b - a <= y - x
  <2>1. CASE x = y
    BY <1>1, <1>3, <2>1 DEF a, b
  <2>2. CASE x < y
    <3>1. (y - x) * TakerFee <= (y - x) * Scale - (y - x)
      <4>1. (y - x) * TakerFee <= (y - x) * (Scale - 1)
        BY <1>1, <1>2
      <4>2. QED
        BY <1>1, <1>2, <4>1
    <3>2. 2 * ((b - a) * Scale) <= 2 * ((y - x) * TakerFee) + 2 * Scale
      BY <1>1, <1>2, <1>3, <1>4
    <3>3. ((b - a) - (y - x)) * Scale < Scale
      BY <1>1, <1>2, <1>3, <2>2, <3>1, <3>2
    <3>4. (b - a) - (y - x) >= 1 => ((b - a) - (y - x)) * Scale >= Scale
      BY <1>1, <1>2, <1>3
    <3>5. QED
      BY <1>1, <1>2, <1>3, <3>3, <3>4
  <2>3. QED
    BY <1>1, <2>1, <2>2
<1>6. Commission(quantity, low) = a /\ Commission(quantity, high) = b
  BY DEF Commission, a, b, x, y
<1>7. QED
  BY <1>1, <1>3, <1>5, <1>6
-----------------------------------------------------------------------------
\* The costs the positions are sized with are those they are charged, and the funding
\* allowance of a unit is worth the fee on the slippage and five units of rounding.  So
\* it is with the rates TradingWorker is built with: 0.001 of the price against
\* 0.00055 times 0.0002 of it.
CostsCovered ==
  /\ TakerFee <= FeeRate /\ Slippage <= SlippageRate
  /\ \A seen \in Markets :
       5 * (Scale * Scale) + 2 * (FeeRate * SlippageRate * seen.ask)
         <= FundingBuffer * Scale * seen.bid

\* The rates are numbers.
LEMMA RateTypes ==
  /\ Scale \in Nat \ {0}
  /\ FeeRate \in Nat /\ FeeRate < Scale /\ SlippageRate \in Nat /\ FundingBuffer \in Nat
  /\ TakerFee \in Nat /\ TakerFee < Scale /\ Slippage \in Nat /\ Slippage < Scale
  BY LimitsAssumption, ScaleAssumption, SettingsAssumption DEF ValidCosts, ValidSettings

\* What a unit was sized with covers what it costs: the difference of the fills and both
\* commissions.
LEMMA UnitCovers ==
  ASSUME NEW distance \in Nat, NEW both \in Nat, NEW entry \in Nat, NEW spread \in Nat,
         NEW lost \in Int, NEW sum \in Int, NEW charged \in Int, NEW quantity \in Nat \ {0},
         NEW fees \in Int, NEW slips \in Int, NEW allowance \in Int,
         lost * Scale <= distance * Scale + both * SlippageRate + Scale,
         sum * Scale <= both * Scale + distance * SlippageRate + Scale,
         charged * Scale <= quantity * (sum * FeeRate) + Scale,
         2 * (both * FeeRate) - Scale <= 2 * (fees * Scale),
         2 * (both * SlippageRate) - Scale <= 2 * (slips * Scale),
         2 * (entry * FundingBuffer) - Scale <= 2 * (allowance * Scale),
         5 * (Scale * Scale) + FeeRate * (distance * SlippageRate)
           <= (entry * FundingBuffer) * Scale
  PROVE  lost * quantity + charged
           <= quantity * (distance + fees + spread + slips + allowance)
<1> DEFINE left == distance + fees + slips + allowance - lost
           slipped == distance * SlippageRate
           paid == sum * FeeRate
           bothFee == both * FeeRate
           entryFunding == entry * FundingBuffer
<1>1. /\ left \in Int /\ slipped \in Int /\ paid \in Int /\ bothFee \in Int
      /\ entryFunding \in Int
  BY RateTypes
<1>2. 2 * (left * Scale) >= 2 * bothFee + 2 * entryFunding - 5 * Scale
  <2> DEFINE bothSlip == both * SlippageRate
  <2>1. bothSlip \in Int
    BY RateTypes
  <2>2. /\ lost * Scale <= distance * Scale + bothSlip + Scale
        /\ 2 * bothFee - Scale <= 2 * (fees * Scale)
        /\ 2 * bothSlip - Scale <= 2 * (slips * Scale)
        /\ 2 * entryFunding - Scale <= 2 * (allowance * Scale)
    OBVIOUS
  <2>3. left * Scale = distance * Scale + fees * Scale + slips * Scale
                         + allowance * Scale - lost * Scale
    BY RateTypes
  <2>4. /\ lost * Scale \in Int /\ distance * Scale \in Int /\ fees * Scale \in Int
        /\ slips * Scale \in Int /\ allowance * Scale \in Int
    BY RateTypes
  <2> HIDE DEF left, bothSlip, bothFee, entryFunding
  <2>5. QED
    BY <1>1, <2>1, <2>2, <2>3, <2>4, RateTypes
<1>3. paid * Scale <= bothFee * Scale + FeeRate * slipped + Scale * Scale
  <2>1. sum * Scale <= both * Scale + slipped + Scale
    OBVIOUS
  <2> HIDE DEF slipped
  <2>2. FeeRate * (sum * Scale) <= FeeRate * (both * Scale + slipped + Scale)
    <3> DEFINE a == sum * Scale
               b == both * Scale + slipped + Scale
    <3>1. a \in Int /\ b \in Int /\ a <= b
      BY <1>1, <2>1, RateTypes
    <3> HIDE DEF a, b
    <3>2. FeeRate * a <= FeeRate * b
      BY <3>1, RateTypes
    <3>3. QED
      BY <3>2 DEF a, b
  <2>3. FeeRate * Scale <= Scale * Scale
    BY RateTypes
  <2>4. FeeRate * (sum * Scale) = paid * Scale
    BY RateTypes
  <2>5. FeeRate * (both * Scale + slipped + Scale)
          = bothFee * Scale + FeeRate * slipped + FeeRate * Scale
    BY <1>1, RateTypes
  <2>6. /\ paid * Scale \in Int /\ bothFee * Scale \in Int /\ FeeRate * slipped \in Int
        /\ FeeRate * Scale \in Int /\ Scale * Scale \in Int
    BY <1>1, RateTypes
  <2> HIDE DEF paid, bothFee
  <2>7. QED
    BY <2>2, <2>3, <2>4, <2>5, <2>6
<1>4. 2 * (left * Scale) >= 2 * paid + 3 * Scale
  <2> DEFINE slack == 2 * (left * Scale) - 2 * paid - 3 * Scale
             twice == 2 * bothFee + 2 * entryFunding - 5 * Scale
  <2>1. 5 * (Scale * Scale) + FeeRate * slipped <= entryFunding * Scale
    OBVIOUS
  <2> HIDE DEF left, slipped, paid, bothFee, entryFunding
  <2>2. left * Scale \in Int /\ slack \in Int
    BY <1>1, RateTypes
  <2>3. slack * Scale >= (twice - 2 * paid - 3 * Scale) * Scale
    <3>1. slack >= twice - 2 * paid - 3 * Scale
      BY <1>1, <1>2, <2>2, RateTypes
    <3>2. twice - 2 * paid - 3 * Scale \in Int
      BY <1>1, RateTypes
    <3> HIDE DEF slack, twice
    <3> DEFINE other == twice - 2 * paid - 3 * Scale
    <3>3. other \in Int /\ slack >= other
      BY <3>1, <3>2
    <3> HIDE DEF other
    <3>4. slack * Scale >= other * Scale
      BY <2>2, <3>3, RateTypes
    <3>5. QED
      BY <3>4 DEF other
  <2>4. (twice - 2 * paid - 3 * Scale) * Scale
          = 2 * (bothFee * Scale) + 2 * (entryFunding * Scale) - 2 * (paid * Scale)
              - 8 * (Scale * Scale)
    BY <1>1, RateTypes
  <2>5. slack * Scale >= 0
    <3>1. /\ paid * Scale \in Int /\ bothFee * Scale \in Int /\ FeeRate * slipped \in Int
          /\ entryFunding * Scale \in Int /\ Scale * Scale \in Int /\ slack * Scale \in Int
      BY <1>1, <2>2, RateTypes
    <3> HIDE DEF slack, twice
    <3>2. QED
      BY <1>3, <2>1, <2>3, <2>4, <3>1
  <2> HIDE DEF slack
  <2>6. slack >= 0
    BY <2>2, <2>5, RateTypes
  <2>7. QED
    BY <1>1, <2>2, <2>6, RateTypes DEF slack
<1>5. charged <= left * quantity
  <2>1. charged * Scale <= quantity * paid + Scale
    OBVIOUS
  <2> HIDE DEF left, paid
  <2> DEFINE unit == left * Scale
  <2>2. unit \in Int /\ 2 * unit >= 2 * paid + 3 * Scale
    BY <1>1, <1>4, RateTypes
  <2>3. quantity * (2 * unit) >= quantity * (2 * paid + 3 * Scale)
    <3> DEFINE a == 2 * unit
               b == 2 * paid + 3 * Scale
    <3>1. a \in Int /\ b \in Int /\ a >= b
      BY <1>1, <2>2, RateTypes
    <3> HIDE DEF a, b
    <3>2. quantity * a >= quantity * b
      BY <3>1
    <3>3. QED
      BY <3>2 DEF a, b
  <2>4. /\ quantity * (2 * unit) = 2 * ((left * quantity) * Scale)
        /\ quantity * (2 * paid + 3 * Scale) = 2 * (quantity * paid) + 3 * (quantity * Scale)
    BY <1>1, RateTypes
  <2>5. quantity * Scale >= Scale
    BY RateTypes
  <2>6. 2 * ((left * quantity) * Scale) >= 2 * (charged * Scale)
    <3>1. /\ quantity * paid \in Int /\ quantity * Scale \in Int /\ charged * Scale \in Int
          /\ (left * quantity) * Scale \in Int
      BY <1>1, RateTypes
    <3> HIDE DEF unit
    <3>2. QED
      BY <2>1, <2>3, <2>4, <2>5, <3>1, RateTypes
  <2> DEFINE all == left * quantity
  <2>7. all \in Int /\ (all - charged) * Scale >= 0
    BY <1>1, <2>6, RateTypes
  <2> HIDE DEF all
  <2>8. all >= charged
    BY <2>7, RateTypes
  <2>9. QED
    BY <2>8 DEF all
<1>6. quantity * (distance + fees + spread + slips + allowance)
        = left * quantity + lost * quantity + spread * quantity
  OBVIOUS
<1>7. spread * quantity >= 0 /\ spread * quantity \in Int /\ lost * quantity \in Int
  OBVIOUS
<1>8. left * quantity \in Int
  BY <1>1
<1> HIDE DEF left
<1>9. QED
  BY <1>5, <1>6, <1>7, <1>8

\* The result of closing a position at a price, funding aside, and the price its stop
\* is filled at.
ResultAt(p, price) ==
  (price - p.entry_price) * p.quantity * Sign(p.side) - p.opening_commission
    - Commission(p.quantity, price)

StopPrice(p) == WithSlippage(p.stop_loss, ClosingOrder(p.side))

\* The midpoint is between bid and ask, so the risk engine takes the entry for the quote
\* the order is filled at.
LEMMA EntryIsQuote ==
  ASSUME market \in Markets, NEW direction \in Directions
  PROVE  /\ EffectiveEntry(Request(direction)) = QuoteFor(OpeningOrder(direction), market)
         /\ Reference <= market.ask
<1> DEFINE sum == market.bid + market.ask
<1>1. market.bid \in Nat /\ market.ask \in Nat /\ market.bid <= market.ask
  BY TradingAssumption DEF TradingAssumption, ValidMarket
<1>2. Reference \in Nat
  BY ReferenceType
<1>3. Reference = Quotient(sum, 2) /\ sum \in Int
  BY <1>1 DEF Reference
<1>4. market.bid <= Reference /\ Reference <= market.ask
  <2> HIDE DEF sum
  <2>1. 2 * sum - 2 <= 2 * (Reference * 2) /\ 2 * (Reference * 2) <= 2 * sum + 2
    BY <1>3, QuotientBound
  <2>2. QED
    BY <1>1, <1>2, <2>1 DEF sum
<1>5. Request(direction).entry = Reference /\ Request(direction).direction = direction
      /\ Request(direction).market = market
  BY DEF Request
<1>6. QED
  BY <1>1, <1>2, <1>4, <1>5
     DEF EffectiveEntry, Higher, Lower, QuoteFor, OpeningOrder, Directions

\* What both fills lose to the slippage, and what they add up to, from an entry to a
\* stop on its wrong side.
LEMMA FillsBound ==
  ASSUME CostsCovered, NEW direction \in Directions, NEW entry \in Nat, NEW stop \in Nat,
         IF direction = "LONG" THEN stop <= entry ELSE entry <= stop
  PROVE  LET filled == WithSlippage(entry, OpeningOrder(direction))
             left == WithSlippage(stop, ClosingOrder(direction))
             both == entry + stop
         IN  /\ filled \in Nat /\ left \in Nat
             /\ ((filled - left) * Sign(direction)) * Scale
                  <= Distance(entry, stop) * Scale + both * SlippageRate + Scale
             /\ (filled + left) * Scale
                  <= both * Scale + Distance(entry, stop) * SlippageRate + Scale
<1> DEFINE filled == WithSlippage(entry, OpeningOrder(direction))
           left == WithSlippage(stop, ClosingOrder(direction))
<1>1. /\ Scale + Slippage \in Nat /\ Scale - Slippage \in Nat
      /\ Slippage <= SlippageRate
  BY RateTypes DEF CostsCovered
<1>2. filled \in Nat /\ left \in Nat
  <2>1. \A amount, ratio \in Nat : Times(amount, ratio) \in Nat
    BY TimesType
  <2>2. QED
    BY <1>1, <2>1 DEF WithSlippage
<1>3. Distance(entry, stop) = (entry - stop) * Sign(direction) /\ Distance(entry, stop) \in Nat
  BY DEF Distance, Sign, Directions
<1>4. /\ (entry + stop) * Slippage <= (entry + stop) * SlippageRate
      /\ Distance(entry, stop) * Slippage <= Distance(entry, stop) * SlippageRate
  BY <1>1, <1>3, RateTypes
<1>5. CASE direction = "LONG"
  <2>1. /\ filled = Times(entry, Scale + Slippage) /\ left = Times(stop, Scale - Slippage)
        /\ Sign(direction) = 1 /\ Distance(entry, stop) = entry - stop
    BY <1>3, <1>5 DEF WithSlippage, OpeningOrder, ClosingOrder, Sign
  <2> HIDE DEF filled, left
  <2>2. /\ 2 * (filled * Scale) <= 2 * (entry * (Scale + Slippage)) + Scale
        /\ 2 * (stop * (Scale - Slippage)) - Scale <= 2 * (left * Scale)
        /\ 2 * (left * Scale) <= 2 * (stop * (Scale - Slippage)) + Scale
    <3> DEFINE more == Scale + Slippage
               less == Scale - Slippage
    <3>1. more \in Int /\ less \in Int /\ entry \in Int /\ stop \in Int
      BY <1>1
    <3>2. filled = Times(entry, more) /\ left = Times(stop, less)
      BY <2>1
    <3> HIDE DEF more, less
    <3>3. /\ 2 * (Times(entry, more) * Scale) <= 2 * (entry * more) + Scale
          /\ 2 * (stop * less) - Scale <= 2 * (Times(stop, less) * Scale)
          /\ 2 * (Times(stop, less) * Scale) <= 2 * (stop * less) + Scale
      BY <3>1, TimesBound
    <3>4. QED
      BY <3>2, <3>3 DEF more, less
  <2>3. /\ (filled - left) * Scale <= (entry - stop) * Scale + (entry + stop) * Slippage + Scale
        /\ (filled + left) * Scale <= (entry + stop) * Scale + (entry - stop) * Slippage + Scale
    <3> DEFINE es == entry * Scale
               ts == stop * Scale
               el == entry * Slippage
               tl == stop * Slippage
               fs == filled * Scale
               ls == left * Scale
    <3>1. /\ es \in Int /\ ts \in Int /\ el \in Int /\ tl \in Int /\ fs \in Int /\ ls \in Int
          /\ entry * (Scale + Slippage) = es + el /\ stop * (Scale - Slippage) = ts - tl
          /\ (filled - left) * Scale = fs - ls /\ (filled + left) * Scale = fs + ls
          /\ (entry - stop) * Scale = es - ts /\ (entry + stop) * Scale = es + ts
          /\ (entry + stop) * Slippage = el + tl /\ (entry - stop) * Slippage = el - tl
      BY <1>2, RateTypes
    <3>2. 2 * fs <= 2 * (es + el) + Scale /\ 2 * (ts - tl) - Scale <= 2 * ls
          /\ 2 * ls <= 2 * (ts - tl) + Scale
      BY <2>2, <3>1
    <3> HIDE DEF es, ts, el, tl, fs, ls
    <3>3. QED
      BY <3>1, <3>2, RateTypes
  <2>4. /\ (filled - left) * Scale \in Int /\ (entry - stop) * Scale \in Int
        /\ (entry + stop) * Slippage \in Int /\ (entry + stop) * SlippageRate \in Int
        /\ (filled + left) * Scale \in Int /\ (entry + stop) * Scale \in Int
        /\ (entry - stop) * Slippage \in Int /\ (entry - stop) * SlippageRate \in Int
    BY <1>2, RateTypes
  <2>5. /\ (filled - left) * Scale
             <= (entry - stop) * Scale + (entry + stop) * SlippageRate + Scale
        /\ (filled + left) * Scale
             <= (entry + stop) * Scale + (entry - stop) * SlippageRate + Scale
    BY <1>4, <2>1, <2>3, <2>4, RateTypes
  <2>6. (filled - left) * Sign(direction) = filled - left
    BY <1>2, <2>1
  <2>7. QED
    BY <1>2, <2>1, <2>5, <2>6 DEF filled, left
<1>6. CASE direction = "SHORT"
  <2>1. /\ filled = Times(entry, Scale - Slippage) /\ left = Times(stop, Scale + Slippage)
        /\ Sign(direction) = -1 /\ Distance(entry, stop) = stop - entry
    BY <1>3, <1>6 DEF WithSlippage, OpeningOrder, ClosingOrder, Sign
  <2> HIDE DEF filled, left
  <2>2. /\ 2 * (left * Scale) <= 2 * (stop * (Scale + Slippage)) + Scale
        /\ 2 * (entry * (Scale - Slippage)) - Scale <= 2 * (filled * Scale)
        /\ 2 * (filled * Scale) <= 2 * (entry * (Scale - Slippage)) + Scale
    <3> DEFINE more == Scale + Slippage
               less == Scale - Slippage
    <3>1. more \in Int /\ less \in Int /\ entry \in Int /\ stop \in Int
      BY <1>1
    <3>2. left = Times(stop, more) /\ filled = Times(entry, less)
      BY <2>1
    <3> HIDE DEF more, less
    <3>3. /\ 2 * (Times(stop, more) * Scale) <= 2 * (stop * more) + Scale
          /\ 2 * (entry * less) - Scale <= 2 * (Times(entry, less) * Scale)
          /\ 2 * (Times(entry, less) * Scale) <= 2 * (entry * less) + Scale
      BY <3>1, TimesBound
    <3>4. QED
      BY <3>2, <3>3 DEF more, less
  <2>3. /\ (left - filled) * Scale <= (stop - entry) * Scale + (entry + stop) * Slippage + Scale
        /\ (filled + left) * Scale <= (entry + stop) * Scale + (stop - entry) * Slippage + Scale
    <3> DEFINE es == entry * Scale
               ts == stop * Scale
               el == entry * Slippage
               tl == stop * Slippage
               fs == filled * Scale
               ls == left * Scale
    <3>1. /\ es \in Int /\ ts \in Int /\ el \in Int /\ tl \in Int /\ fs \in Int /\ ls \in Int
          /\ stop * (Scale + Slippage) = ts + tl /\ entry * (Scale - Slippage) = es - el
          /\ (left - filled) * Scale = ls - fs /\ (filled + left) * Scale = fs + ls
          /\ (stop - entry) * Scale = ts - es /\ (entry + stop) * Scale = es + ts
          /\ (entry + stop) * Slippage = el + tl /\ (stop - entry) * Slippage = tl - el
      BY <1>2, RateTypes
    <3>2. 2 * ls <= 2 * (ts + tl) + Scale /\ 2 * (es - el) - Scale <= 2 * fs
          /\ 2 * fs <= 2 * (es - el) + Scale
      BY <2>2, <3>1
    <3> HIDE DEF es, ts, el, tl, fs, ls
    <3>3. QED
      BY <3>1, <3>2, RateTypes
  <2>4. /\ (left - filled) * Scale \in Int /\ (stop - entry) * Scale \in Int
        /\ (entry + stop) * Slippage \in Int /\ (entry + stop) * SlippageRate \in Int
        /\ (filled + left) * Scale \in Int /\ (entry + stop) * Scale \in Int
        /\ (stop - entry) * Slippage \in Int /\ (stop - entry) * SlippageRate \in Int
    BY <1>2, RateTypes
  <2>5. /\ (left - filled) * Scale
             <= (stop - entry) * Scale + (entry + stop) * SlippageRate + Scale
        /\ (filled + left) * Scale
             <= (entry + stop) * Scale + (stop - entry) * SlippageRate + Scale
    BY <1>4, <2>1, <2>3, <2>4, RateTypes
  <2>6. (filled - left) * Sign(direction) = left - filled
    BY <1>2, <2>1
  <2>7. QED
    BY <1>2, <2>1, <2>5, <2>6 DEF filled, left
<1>7. QED
  BY <1>5, <1>6 DEF Directions

\* What the commissions of two fills come to.
LEMMA ChargesBound ==
  ASSUME CostsCovered, NEW quantity \in Nat \ {0}, NEW a \in Nat, NEW b \in Nat
  PROVE  (Commission(quantity, a) + Commission(quantity, b)) * Scale
           <= quantity * ((a + b) * FeeRate) + Scale
<1> DEFINE x == quantity * a
           y == quantity * b
           c == Times(x, TakerFee)
           d == Times(y, TakerFee)
<1>1. x \in Nat /\ y \in Nat /\ x + y = quantity * (a + b)
  OBVIOUS
<1>2. quantity * ((a + b) * FeeRate) = (x + y) * FeeRate
  BY RateTypes
<1>3. Commission(quantity, a) = c /\ Commission(quantity, b) = d
  BY DEF Commission
<1> HIDE DEF x, y
<1>4. /\ c \in Int /\ 2 * (c * Scale) <= 2 * (x * TakerFee) + Scale
      /\ d \in Int /\ 2 * (d * Scale) <= 2 * (y * TakerFee) + Scale
  BY <1>1, TimesBound, RateTypes
<1>5. (x + y) * TakerFee <= (x + y) * FeeRate
  BY <1>1, RateTypes DEF CostsCovered
<1> HIDE DEF c, d
<1>6. /\ (c + d) * Scale = c * Scale + d * Scale
      /\ (x + y) * TakerFee = x * TakerFee + y * TakerFee
      /\ c * Scale \in Int /\ d * Scale \in Int /\ x * TakerFee \in Int /\ y * TakerFee \in Int
      /\ (x + y) * FeeRate \in Int
  BY <1>1, <1>4, RateTypes
<1>7. (c + d) * Scale <= (x + y) * FeeRate + Scale
  BY <1>4, <1>5, <1>6, RateTypes
<1>8. QED
  BY <1>2, <1>3, <1>7

\* The stop of an entry is on its wrong side and no further from it than twice the price,
\* so the funding allowance of the entry is worth the fee on the slippage.
LEMMA StopNear ==
  ASSUME CostsCovered, TypeInv, ~Held, NEW direction \in Directions,
         GuardReasons(Request(direction)) = {}
  PROVE  LET entry == EffectiveEntry(Request(direction))
             stop == StopLoss(direction)
         IN  /\ entry \in Nat \ {0} /\ stop \in Nat
             /\ entry = QuoteFor(OpeningOrder(direction), market)
             /\ IF direction = "LONG" THEN stop <= entry ELSE entry <= stop
             /\ 5 * (Scale * Scale) + FeeRate * (Distance(entry, stop) * SlippageRate)
                  <= (entry * FundingBuffer) * Scale
<1> DEFINE entry == EffectiveEntry(Request(direction))
           stop == StopLoss(direction)
<1>1. entry \in Nat \ {0} /\ stop \in Nat
  BY RequestType, EffectiveEntryType DEF EntryRequest, Request
<1>2. /\ market \in Markets /\ market.bid \in Nat /\ market.ask \in Nat
      /\ market.bid <= market.ask
  BY TradingAssumption DEF TypeInv, TradingAssumption, ValidMarket
<1>3. entry = QuoteFor(OpeningOrder(direction), market) /\ Reference <= market.ask
  BY <1>2, EntryIsQuote
<1>4. IF direction = "LONG" THEN stop < entry ELSE entry < stop
  <2>1. ~InvalidStop(Request(direction))
    BY DEF GuardReasons, When
  <2>2. Request(direction).stop = stop /\ Request(direction).direction = direction
    BY DEF Request
  <2> HIDE DEF entry, stop
  <2>3. IF direction = "LONG" THEN ~(stop >= entry) ELSE ~(stop <= entry)
    BY <2>1, <2>2 DEF InvalidStop, entry
  <2>4. QED
    BY <1>1, <2>3
<1>5. market.bid <= entry
  BY <1>2, <1>3 DEF QuoteFor
<1>6. Distance(entry, stop) \in Nat /\ Distance(entry, stop) <= 2 * market.ask
  <2>1. CASE direction = "LONG"
    <3>1. entry = market.ask
      BY <1>3, <2>1 DEF QuoteFor, OpeningOrder
    <3> HIDE DEF entry, stop
    <3>2. QED
      BY <1>1, <1>2, <1>4, <2>1, <3>1 DEF Distance
  <2>2. CASE direction # "LONG"
    <3> DEFINE ratio == Scale + StopDistance
    <3>1. ratio \in Nat /\ ratio <= 2 * Scale
      BY RateTypes, TradingAssumption DEF TradingAssumption
    <3>2. Reference \in Nat
      BY <1>2, ReferenceType
    <3>3. stop = Quotient(Reference * ratio, Scale)
      BY <2>2 DEF StopLoss, Times
    <3> HIDE DEF ratio, entry, stop
    <3>4. Reference * ratio \in Int /\ Reference * ratio <= (2 * market.ask) * Scale
      <4>1. Reference * ratio <= Reference * (2 * Scale)
        BY <3>1, <3>2, RateTypes
      <4>2. Reference * (2 * Scale) <= market.ask * (2 * Scale)
        BY <1>2, <1>3, <3>2, RateTypes
      <4>3. market.ask * (2 * Scale) = (2 * market.ask) * Scale
        BY <1>2, RateTypes
      <4>4. Reference * ratio \in Int /\ Reference * (2 * Scale) \in Int
        BY <3>1, <3>2, RateTypes
      <4>5. (2 * market.ask) * Scale \in Int
        BY <1>2, RateTypes
      <4>6. QED
        BY <4>1, <4>2, <4>3, <4>4, <4>5
    <3>5. stop <= 2 * market.ask
      <4> DEFINE most == 2 * market.ask
      <4>1. most \in Int /\ Reference * ratio <= most * Scale
        BY <1>2, <3>4
      <4> HIDE DEF most
      <4>2. stop <= most
        BY <3>3, <3>4, <4>1, QuotientAtMost, RateTypes
      <4>3. QED
        BY <4>2 DEF most
    <3>6. QED
      BY <1>1, <1>2, <1>4, <2>2, <3>5 DEF Distance
  <2>3. QED
    BY <2>1, <2>2
<1>7. 5 * (Scale * Scale) + FeeRate * (Distance(entry, stop) * SlippageRate)
        <= (entry * FundingBuffer) * Scale
  <2> DEFINE distance == Distance(entry, stop)
             factor == FeeRate * SlippageRate
  <2>1. 5 * (Scale * Scale) + 2 * (factor * market.ask) <= FundingBuffer * Scale * market.bid
    BY <1>2 DEF CostsCovered
  <2>2. distance \in Nat /\ distance <= 2 * market.ask
    BY <1>6
  <2>3. FeeRate * (distance * SlippageRate) = factor * distance
    BY <1>6, RateTypes
  <2> HIDE DEF distance, entry
  <2>4. factor \in Nat
    BY RateTypes
  <2> HIDE DEF factor
  <2>5. factor * distance <= factor * (2 * market.ask)
    BY <1>2, <2>2, <2>4
  <2>6. factor * (2 * market.ask) = 2 * (factor * market.ask)
    BY <1>2, <2>4
  <2>7. FundingBuffer * Scale * market.bid <= (entry * FundingBuffer) * Scale
    <3> DEFINE weight == FundingBuffer * Scale
    <3>1. weight \in Nat
      BY RateTypes
    <3>2. (entry * FundingBuffer) * Scale = weight * entry
      BY <1>1, RateTypes
    <3> HIDE DEF weight
    <3>3. weight * market.bid <= weight * entry
      BY <1>1, <1>2, <1>5, <3>1
    <3>4. QED
      BY <3>2, <3>3 DEF weight
  <2>8. /\ factor * distance \in Int /\ factor * market.ask \in Int /\ Scale * Scale \in Int
        /\ FundingBuffer * Scale * market.bid \in Int /\ (entry * FundingBuffer) * Scale \in Int
    BY <1>1, <1>2, <2>2, <2>4, RateTypes
  <2>9. 5 * (Scale * Scale) + factor * distance <= (entry * FundingBuffer) * Scale
    BY <2>1, <2>5, <2>6, <2>7, <2>8
  <2>10. QED
    BY <2>3, <2>9 DEF distance
<1>8. IF direction = "LONG" THEN stop <= entry ELSE entry <= stop
  <2> HIDE DEF entry, stop
  <2>1. QED
    BY <1>1, <1>4
<1>9. QED
  BY <1>1, <1>3, <1>7, <1>8

\* A position is opened with a budget that covers its close at the stop.
LEMMA OfferCovered ==
  ASSUME CostsCovered, TypeInv, ~Held, NEW direction \in Directions,
         Approved(Request(direction))
  PROVE  LET offer == Offer(direction)
             approved == Sizing(Request(direction)).stop_loss_amount
         IN  /\ offer.quantity \in Nat \ {0} /\ approved \in Int
             /\ ResultAt(offer, StopPrice(offer)) >= -approved
<1> DEFINE request == Request(direction)
           quantity == Quantity(request)
           entry == EffectiveEntry(request)
           stop == StopLoss(direction)
           both == entry + stop
           distance == Distance(entry, stop)
           spread == market.ask - market.bid
           filled == WithSlippage(entry, OpeningOrder(direction))
           left == WithSlippage(stop, ClosingOrder(direction))
           charged == Commission(quantity, filled) + Commission(quantity, left)
           fees == Times(both, FeeRate)
           slips == Times(both, SlippageRate)
           allowance == Times(entry, FundingBuffer)
           lost == (filled - left) * Sign(direction)
<1>1. EntryRequest(request) /\ GuardReasons(request) = {} /\ SizingReasons(request) = {}
  BY RequestType DEF Approved, Reasons
<1>2. quantity \in Nat \ {0}
  <2>1. quantity \in Int
    BY <1>1, QuantityType
  <2>2. ~(quantity <= 0)
    BY <1>1 DEF SizingReasons
  <2>3. QED
    BY <2>1, <2>2
<1>3. /\ entry \in Nat \ {0} /\ stop \in Nat
      /\ entry = QuoteFor(OpeningOrder(direction), market)
      /\ IF direction = "LONG" THEN stop <= entry ELSE entry <= stop
      /\ 5 * (Scale * Scale) + FeeRate * (distance * SlippageRate)
           <= (entry * FundingBuffer) * Scale
  BY <1>1, StopNear
<1>4. both \in Nat /\ distance \in Nat
  <2> HIDE DEF entry, stop
  <2>1. QED
    BY <1>3 DEF Distance
<1>5. spread \in Nat
  BY TradingAssumption DEF TypeInv, TradingAssumption, ValidMarket
<1>6. /\ filled \in Nat /\ left \in Nat
      /\ lost * Scale <= distance * Scale + both * SlippageRate + Scale
      /\ (filled + left) * Scale <= both * Scale + distance * SlippageRate + Scale
  <2> HIDE DEF entry, stop
  <2>1. QED
    BY <1>3, FillsBound
<1>7. charged * Scale <= quantity * ((filled + left) * FeeRate) + Scale
  <2> HIDE DEF filled, left, quantity
  <2>1. QED
    BY <1>2, <1>6, ChargesBound
<1>8. /\ fees \in Int /\ 2 * (both * FeeRate) - Scale <= 2 * (fees * Scale)
      /\ slips \in Int /\ 2 * (both * SlippageRate) - Scale <= 2 * (slips * Scale)
      /\ allowance \in Int /\ 2 * (entry * FundingBuffer) - Scale <= 2 * (allowance * Scale)
  <2>1. both \in Int /\ entry \in Int
    BY <1>3, <1>4
  <2>2. FeeRate \in Int /\ SlippageRate \in Int /\ FundingBuffer \in Int
    BY RateTypes
  <2> HIDE DEF both, entry
  <2>3. QED
    BY <2>1, <2>2, TimesBound
<1>9. /\ Commission(quantity, filled) \in Int /\ Commission(quantity, left) \in Int
      /\ lost \in Int /\ charged \in Int /\ filled + left \in Int
  <2>1. Commission(quantity, filled) \in Int /\ Commission(quantity, left) \in Int
    <3>1. filled \in Int /\ left \in Int /\ quantity \in Int
      BY <1>2, <1>6
    <3> HIDE DEF filled, left, quantity
    <3>2. QED
      BY <3>1, CommissionType
  <2> HIDE DEF filled, left
  <2>2. QED
    BY <1>6, <2>1 DEF Sign
<1>10. lost * quantity + charged
         <= quantity * (distance + fees + spread + slips + allowance)
  <2> DEFINE sum == filled + left
  <2>1. /\ sum \in Int /\ sum * Scale <= both * Scale + distance * SlippageRate + Scale
        /\ charged * Scale <= quantity * (sum * FeeRate) + Scale
    BY <1>6, <1>7, <1>9
  <2>2. entry \in Nat
    BY <1>3
  <2> HIDE DEF quantity, entry, both, distance, spread, charged, fees, slips, allowance, lost, sum
  <2>3. QED
    BY <1>2, <1>3, <1>4, <1>5, <1>6, <1>8, <1>9, <2>1, <2>2, UnitCovers
<1>11. Sizing(request).stop_loss_amount
         = quantity * (distance + fees + spread + slips + allowance)
  <2>1. request.stop = stop /\ request.market = market
    BY DEF Request
  <2>2. CostBuffer(request) = fees + spread + slips + allowance
    BY <2>1 DEF CostBuffer
  <2>3. RiskPerUnit(request) = distance + (fees + spread + slips + allowance)
    BY <2>1, <2>2 DEF RiskPerUnit
  <2>4. distance + (fees + spread + slips + allowance)
          = distance + fees + spread + slips + allowance
    <3> HIDE DEF distance, fees, spread, slips, allowance
    <3>1. QED
      BY <1>4, <1>5, <1>8
  <2>5. Sizing(request).stop_loss_amount = quantity * RiskPerUnit(request)
    BY DEF Sizing
  <2> HIDE DEF distance, fees, spread, slips, allowance, quantity, request
  <2>6. QED
    BY <2>3, <2>4, <2>5
<1>12. /\ Offer(direction).quantity = quantity /\ Offer(direction).side = direction
       /\ Offer(direction).entry_price = filled /\ Offer(direction).stop_loss = stop
       /\ Offer(direction).opening_commission = Commission(quantity, filled)
  <2>1. Sizing(request).quantity = quantity
    BY DEF Sizing
  <2>2. WithSlippage(QuoteFor(OpeningOrder(direction), market), OpeningOrder(direction)) = filled
    BY <1>3
  <2> HIDE DEF filled, quantity
  <2>3. QED
    BY <2>1, <2>2 DEF Offer, Opened
<1>13. StopPrice(Offer(direction)) = left
  BY <1>12 DEF StopPrice
<1>14. ResultAt(Offer(direction), left)
         = (left - filled) * quantity * Sign(direction) - Commission(quantity, filled)
             - Commission(quantity, left)
  BY <1>12 DEF ResultAt
<1>15. ResultAt(Offer(direction), left) = -(lost * quantity + charged)
  <2>1. Commission(quantity, filled) \in Int /\ Commission(quantity, left) \in Int
    BY <1>9
  <2>2. Sign(direction) \in {1, -1}
    BY DEF Sign
  <2> HIDE DEF filled, left, quantity
  <2>3. (left - filled) * quantity * Sign(direction) = -(lost * quantity)
    BY <1>2, <1>6, <2>2
  <2>4. (left - filled) * quantity * Sign(direction) \in Int
    BY <1>2, <1>6, <2>2
  <2>5. lost * quantity \in Int
    BY <1>2, <1>9
  <2> HIDE DEF lost
  <2>6. QED
    BY <1>14, <2>1, <2>3, <2>4, <2>5 DEF charged
<1>16. Sizing(request).stop_loss_amount \in Int
  <2> HIDE DEF distance, fees, spread, slips, allowance, quantity
  <2>1. QED
    BY <1>2, <1>4, <1>5, <1>8, <1>11
<1>17. ResultAt(Offer(direction), left) >= -Sizing(request).stop_loss_amount
  <2> DEFINE worst == lost * quantity + charged
  <2>1. worst \in Int /\ worst <= Sizing(request).stop_loss_amount
    <3>1. lost * quantity \in Int
      BY <1>2, <1>9
    <3> HIDE DEF lost, quantity, charged, distance, fees, spread, slips, allowance
    <3>2. QED
      BY <1>9, <1>10, <1>11, <3>1
  <2>2. ResultAt(Offer(direction), left) = -worst
    BY <1>15
  <2> HIDE DEF worst, left
  <2>3. QED
    BY <1>16, <2>1, <2>2
<1>18. QED
  BY <1>2, <1>12, <1>13, <1>16, <1>17
-----------------------------------------------------------------------------
\* A closer look at the position: its budget covers a close at its stop.
BudgetInv ==
  /\ budget \in Int
  /\ Held => /\ position.quantity \in Nat \ {0}
             /\ ResultAt(position, StopPrice(position)) >= -budget

\* On the right side of the stop
NotBeyondStop(p, price) ==
  IF p.side = "LONG" THEN StopPrice(p) <= price ELSE price <= StopPrice(p)

\* Funding changes neither what a close brings nor the stop.
LEMMA FundedResult ==
  ASSUME TypeInv, Held
  PROVE  /\ \A price : ResultAt(Funded, price) = ResultAt(position, price)
         /\ StopPrice(Funded) = StopPrice(position)
         /\ Funded.side = position.side /\ Funded.stop_loss = position.stop_loss
         /\ Funded.liquidation_price = position.liquidation_price
         /\ Funded.quantity = position.quantity
<1>1. position \in Positions
  BY DEF TypeInv
<1>2. \/ Funded = position
      \/ \E paid : Funded = [position EXCEPT !.funding_pnl = paid]
  BY DEF Funded, WithFunding
<1>3. /\ Funded.side = position.side /\ Funded.stop_loss = position.stop_loss
      /\ Funded.liquidation_price = position.liquidation_price
      /\ Funded.quantity = position.quantity /\ Funded.entry_price = position.entry_price
      /\ Funded.opening_commission = position.opening_commission
  BY <1>1, <1>2 DEF Positions
<1>4. QED
  BY <1>3 DEF ResultAt, StopPrice

\* A better price brings a better result, commission and all.
LEMMA ResultMonotone ==
  ASSUME NEW p \in Positions, p.quantity \in Nat \ {0}, NEW price \in Int,
         NotBeyondStop(p, price)
  PROVE  ResultAt(p, StopPrice(p)) <= ResultAt(p, price)
<1> DEFINE quantity == p.quantity
           stop == StopPrice(p)
           entry == p.entry_price
           fee == p.opening_commission
<1>1. /\ stop \in Int /\ entry \in Int /\ fee \in Int /\ quantity \in Nat \ {0}
      /\ p.side \in Directions
  BY SlippageType DEF Positions, StopPrice
<1>2. /\ ResultAt(p, stop) = (stop - entry) * quantity * Sign(p.side) - fee
                               - Commission(quantity, stop)
      /\ ResultAt(p, price) = (price - entry) * quantity * Sign(p.side) - fee
                               - Commission(quantity, price)
  BY DEF ResultAt
<1>3. IF p.side = "LONG" THEN stop <= price ELSE price <= stop
  BY DEF NotBeyondStop
<1> HIDE DEF quantity, stop, entry, fee
<1>4. /\ Commission(quantity, stop) \in Int /\ Commission(quantity, price) \in Int
  <2>1. quantity \in Int
    BY <1>1
  <2>2. QED
    BY <1>1, <2>1, CommissionType
<1>5. CASE p.side = "LONG"
  <2>1. Commission(quantity, price) <= Commission(quantity, stop) + quantity * (price - stop)
    BY <1>1, <1>3, <1>5, CommissionGrowth
  <2>2. (price - entry) * quantity * Sign(p.side)
          = (stop - entry) * quantity * Sign(p.side) + quantity * (price - stop)
    BY <1>1, <1>5 DEF Sign
  <2>3. /\ (stop - entry) * quantity * Sign(p.side) \in Int
        /\ (price - entry) * quantity * Sign(p.side) \in Int
        /\ quantity * (price - stop) \in Int
    BY <1>1, <1>5 DEF Sign
  <2> DEFINE atStop == (stop - entry) * quantity * Sign(p.side)
             atPrice == (price - entry) * quantity * Sign(p.side)
             better == quantity * (price - stop)
  <2>4. /\ ResultAt(p, stop) = atStop - fee - Commission(quantity, stop)
        /\ ResultAt(p, price) = atPrice - fee - Commission(quantity, price)
        /\ atPrice = atStop + better /\ atStop \in Int /\ better \in Int
        /\ Commission(quantity, price) <= Commission(quantity, stop) + better
    BY <1>2, <2>1, <2>2, <2>3
  <2> HIDE DEF atStop, atPrice, better
  <2>5. ResultAt(p, stop) <= ResultAt(p, price)
    BY <1>1, <1>4, <2>4
  <2>6. QED
    BY <2>5 DEF stop
<1>6. CASE p.side = "SHORT"
  <2>1. Commission(quantity, price) <= Commission(quantity, stop)
    BY <1>1, <1>3, <1>6, CommissionGrowth
  <2>2. (price - entry) * quantity * Sign(p.side)
          = (stop - entry) * quantity * Sign(p.side) + quantity * (stop - price)
    BY <1>1, <1>6 DEF Sign
  <2>3. /\ (stop - entry) * quantity * Sign(p.side) \in Int
        /\ (price - entry) * quantity * Sign(p.side) \in Int
        /\ quantity * (stop - price) \in Int /\ quantity * (stop - price) >= 0
    BY <1>1, <1>3, <1>6 DEF Sign
  <2> DEFINE atStop == (stop - entry) * quantity * Sign(p.side)
             atPrice == (price - entry) * quantity * Sign(p.side)
             better == quantity * (stop - price)
  <2>4. /\ ResultAt(p, stop) = atStop - fee - Commission(quantity, stop)
        /\ ResultAt(p, price) = atPrice - fee - Commission(quantity, price)
        /\ atPrice = atStop + better /\ atStop \in Int /\ better \in Int /\ better >= 0
    BY <1>2, <2>2, <2>3
  <2> HIDE DEF atStop, atPrice, better
  <2>5. ResultAt(p, stop) <= ResultAt(p, price)
    BY <1>1, <1>4, <2>1, <2>4
  <2>6. QED
    BY <2>5 DEF stop
<1>7. QED
  BY <1>1, <1>5, <1>6 DEF stop, Directions

\* A fill keeps the order of the prices, so one at or before the stop is not beyond it.
LEMMA FilledBeforeStop ==
  ASSUME NEW p \in Positions, NEW price \in Int,
         IF p.side = "LONG" THEN p.stop_loss <= price ELSE price <= p.stop_loss
  PROVE  NotBeyondStop(p, WithSlippage(price, ClosingOrder(p.side)))
<1> DEFINE more == Scale + Slippage
           less == Scale - Slippage
<1>1. more \in Nat /\ less \in Nat
  BY RateTypes
<1>2. p.stop_loss \in Int
  BY DEF Positions
<1>3. /\ StopPrice(p) = Times(p.stop_loss, IF p.side = "SHORT" THEN more ELSE less)
      /\ WithSlippage(price, ClosingOrder(p.side))
           = Times(price, IF p.side = "SHORT" THEN more ELSE less)
  BY DEF StopPrice, WithSlippage, ClosingOrder
<1> HIDE DEF more, less
<1>4. CASE p.side = "LONG"
  <2>1. Times(p.stop_loss, less) <= Times(price, less)
    BY <1>1, <1>2, <1>4, TimesMonotone
  <2>2. QED
    BY <1>3, <1>4, <2>1 DEF NotBeyondStop
<1>5. CASE p.side = "SHORT"
  <2>1. Times(price, more) <= Times(p.stop_loss, more)
    BY <1>1, <1>2, <1>5, TimesMonotone
  <2>2. QED
    BY <1>3, <1>5, <2>1 DEF NotBeyondStop
<1>6. QED
  BY <1>4, <1>5 DEF Positions, Directions

\* Without a gap neither way of leaving a position fills beyond the stop: the liquidation
\* is not reached, and the quote is not worse than the stop.
LEMMA NoGapFill ==
  ASSUME TypeInv, Held, ~Gapped
  PROVE  LET order == ClosingOrder(Funded.side)
         IN  /\ NotBeyondStop(Funded, WithSlippage(QuoteFor(order, market), order))
             /\ Exit.reason # "NONE" =>
                  NotBeyondStop(Funded, WithSlippage(ExitReference(Exit, order, market), order))
<1> DEFINE order == ClosingOrder(Funded.side)
           quote == QuoteFor(order, market)
           exit == ExitReference(Exit, order, market)
           stop == Funded.stop_loss
<1>1. Funded \in Positions /\ Funded.side \in Directions /\ stop \in Int
  BY FundedType DEF Positions
<1>2. /\ market.bid \in Int /\ market.ask \in Int /\ market.low \in Int /\ market.high \in Int
  BY TradingAssumption DEF TypeInv, TradingAssumption, ValidMarket
<1>3. /\ Funded.liquidation_price \in Int /\ Funded.take_profit \in Int
      /\ Funded.side = position.side /\ stop = position.stop_loss
      /\ Funded.liquidation_price = position.liquidation_price
  BY <1>1, FundedResult DEF Positions
<1>4. IF Funded.side = "LONG"
        THEN stop <= market.bid /\ ~(market.low <= Funded.liquidation_price)
        ELSE market.ask <= stop /\ ~(market.high >= Funded.liquidation_price)
  BY <1>1, <1>2, <1>3 DEF Gapped
<1>5. quote \in Int /\ (IF Funded.side = "LONG" THEN stop <= quote ELSE quote <= stop)
  BY <1>1, <1>2, <1>4 DEF QuoteFor, ClosingOrder, Directions
<1>6. ASSUME Exit.reason # "NONE"
      PROVE  exit \in Int /\ (IF Funded.side = "LONG" THEN stop <= exit ELSE exit <= stop)
  <2>1. \/ Exit = [reason |-> "STOP_LOSS", price |-> stop]
        \/ Exit = [reason |-> "TAKE_PROFIT", price |-> Funded.take_profit]
    BY <1>1, <1>4, <1>6 DEF Exit, Trigger, Untriggered, Directions
  <2>2. order = IF Funded.side = "LONG" THEN "SELL" ELSE "BUY"
    BY <1>1 DEF ClosingOrder, Directions
  <2>3. CASE Exit = [reason |-> "STOP_LOSS", price |-> stop]
    <3>1. exit = IF Funded.side = "LONG" THEN Lower(stop, quote) ELSE Higher(stop, quote)
      BY <2>2, <2>3 DEF ExitReference
    <3> HIDE DEF exit, quote, stop
    <3>2. QED
      BY <1>1, <1>5, <3>1 DEF Lower, Higher
  <2>4. CASE Exit = [reason |-> "TAKE_PROFIT", price |-> Funded.take_profit]
    <3>1. exit = IF Funded.side = "LONG" THEN Higher(Funded.take_profit, quote)
                                         ELSE Lower(Funded.take_profit, quote)
      BY <2>2, <2>4 DEF ExitReference
    <3> HIDE DEF exit, quote, stop
    <3>2. QED
      BY <1>1, <1>3, <1>5, <3>1 DEF Lower, Higher
  <2>5. QED
    BY <2>1, <2>3, <2>4
<1>7. NotBeyondStop(Funded, WithSlippage(quote, order))
  BY <1>1, <1>5, FilledBeforeStop
<1>8. Exit.reason # "NONE" => NotBeyondStop(Funded, WithSlippage(exit, order))
  BY <1>1, <1>6, FilledBeforeStop
<1>9. QED
  BY <1>7, <1>8

\* What a close of the position books: its result at the price of the fill, the funding
\* and what it had taken, and the result is within the budget unless the market gaps.
CloseWithin(settled) ==
  /\ settled.net_pnl \in Int /\ settled.cash_delta \in Int /\ Funded.funding_pnl \in Int
  /\ settled.cash_delta = settled.net_pnl + RequiredCash(position)
  /\ Gapped \/ settled.net_pnl - Funded.funding_pnl >= -budget

\* A close at a price that is not beyond the stop is.
LEMMA SettledWithin ==
  ASSUME TypeInv, BudgetInv, Held, NEW price \in Int,
         Gapped \/ NotBeyondStop(Funded, price)
  PROVE  CloseWithin(Settled(Funded, price))
<1> DEFINE settled == Settled(Funded, price)
<1>1. Funded \in Positions /\ RequiredCash(Funded) = RequiredCash(position)
  BY FundedType
<1>2. /\ settled.net_pnl \in Int /\ settled.cash_delta \in Int /\ Funded.funding_pnl \in Int
      /\ settled.cash_delta = settled.net_pnl + RequiredCash(position)
  BY <1>1, SettledExplained DEF Positions
<1>3. settled.net_pnl - Funded.funding_pnl = ResultAt(Funded, price)
  <2> DEFINE gross == (price - Funded.entry_price) * Funded.quantity * Sign(Funded.side)
             commission == Commission(Funded.quantity, price)
  <2>1. gross \in Int /\ commission \in Int /\ Funded.opening_commission \in Int
    <3>1. Funded.entry_price \in Int /\ Funded.quantity \in Int
      BY <1>1 DEF Positions
    <3>2. (price - Funded.entry_price) * Funded.quantity \in Int
      BY <3>1
    <3>3. gross \in Int
      BY <3>2 DEF Sign
    <3>4. commission \in Int
      BY <3>1, CommissionType
    <3>5. QED
      BY <1>1, <3>3, <3>4 DEF Positions
  <2>2. /\ settled.net_pnl = gross + Funded.funding_pnl - Funded.opening_commission - commission
        /\ ResultAt(Funded, price) = gross - Funded.opening_commission - commission
    BY DEF Settled, ResultAt
  <2> HIDE DEF gross, commission, settled
  <2>3. QED
    BY <1>2, <2>1, <2>2
<1>4. ASSUME ~Gapped PROVE settled.net_pnl - Funded.funding_pnl >= -budget
  <2>1. ResultAt(Funded, StopPrice(Funded)) <= ResultAt(Funded, price)
    BY <1>1, <1>4, FundedResult, ResultMonotone DEF BudgetInv
  <2>2. ResultAt(Funded, StopPrice(Funded)) >= -budget /\ budget \in Int
    BY FundedResult DEF BudgetInv
  <2>3. ResultAt(Funded, StopPrice(Funded)) \in Int
    <3>1. StopPrice(Funded) \in Int /\ Funded.quantity \in Int /\ Funded.entry_price \in Int
          /\ Funded.opening_commission \in Int
      BY <1>1, SlippageType DEF StopPrice, Positions
    <3> DEFINE stop == StopPrice(Funded)
    <3> HIDE DEF stop
    <3>2. Commission(Funded.quantity, stop) \in Int /\ stop \in Int
      BY <3>1, CommissionType DEF stop
    <3>3. (stop - Funded.entry_price) * Funded.quantity \in Int
      BY <3>1, <3>2
    <3>4. (stop - Funded.entry_price) * Funded.quantity * Sign(Funded.side) \in Int
      BY <3>3 DEF Sign
    <3> DEFINE gross == (stop - Funded.entry_price) * Funded.quantity * Sign(Funded.side)
    <3>5. ResultAt(Funded, stop)
            = gross - Funded.opening_commission - Commission(Funded.quantity, stop)
      BY DEF ResultAt
    <3> HIDE DEF gross
    <3>6. ResultAt(Funded, stop) \in Int
      BY <3>1, <3>2, <3>4, <3>5 DEF gross
    <3>7. QED
      BY <3>6 DEF stop
  <2> HIDE DEF settled
  <2>4. settled.net_pnl - Funded.funding_pnl \in Int
    BY <1>2
  <2>5. QED
    BY <1>3, <2>1, <2>2, <2>3, <2>4
<1>5. QED
  BY <1>2, <1>4 DEF CloseWithin

\* Both ways of leaving a position are such closes.
LEMMA ClosesWithin ==
  ASSUME TypeInv, BudgetInv, Held
  PROVE  /\ CloseWithin(ClosedAtMarket(Funded, market))
         /\ Exit.reason # "NONE" => CloseWithin(ClosedByTrigger(Funded, Exit, market))
<1> DEFINE order == ClosingOrder(Funded.side)
<1>1. QuoteFor(order, market) \in Int
  BY QuoteType DEF TypeInv
<1>2. Exit.price \in Int
  BY FundedType, TriggerType DEF Exit
<1>3. ExitReference(Exit, order, market) \in Int
  BY <1>1, <1>2 DEF ExitReference, Lower, Higher
<1>4. /\ WithSlippage(ExitReference(Exit, order, market), order) \in Int
      /\ WithSlippage(QuoteFor(order, market), order) \in Int
  BY <1>1, <1>3, SlippageType
<1>5. CloseWithin(Settled(Funded, WithSlippage(QuoteFor(order, market), order)))
  BY <1>4, NoGapFill, SettledWithin
<1>6. Exit.reason # "NONE" =>
        CloseWithin(Settled(Funded, WithSlippage(ExitReference(Exit, order, market), order)))
  BY <1>4, NoGapFill, SettledWithin
<1>7. QED
  BY <1>5, <1>6 DEF ClosedAtMarket, ClosedByTrigger

LossInv == BudgetInv /\ LossWithinBudget

\* A close leaves no budget behind, and books a loss within it.
LEMMA CloseLoss ==
  ASSUME LossInv, NEW settled, CloseWithin(settled), Close(settled)
  PROVE  LossInv'
<1>1. budget' = 0 /\ ~Held'
  BY DEF Close, Held
<1>2. /\ closed'.net_pnl = settled.net_pnl /\ closed'.funding_pnl = Funded.funding_pnl
      /\ closed'.stop_loss_amount = budget /\ closed'.gap = Gapped
  BY DEF Close
<1>3. Gapped \/ settled.net_pnl - Funded.funding_pnl >= -budget
  BY DEF CloseWithin
<1>4. LossWithinBudget'
  <2>1. CASE Gapped
    BY <1>2, <2>1, Zenon DEF LossWithinBudget
  <2>2. CASE ~Gapped
    BY <1>2, <1>3, <2>2 DEF LossWithinBudget
  <2>3. QED
    BY <2>1, <2>2
<1>5. QED
  BY <1>1, <1>4 DEF LossInv, BudgetInv

\* An entry is booked with the budget it was approved with.
LEMMA EnterLoss ==
  ASSUME CostsCovered, TypeInv, LossInv, NEW direction \in Directions, Enter(direction)
  PROVE  LossInv'
<1> DEFINE approved == Sizing(Request(direction)).stop_loss_amount
<1>1. ~Held /\ Approved(Request(direction)) /\ closed' = closed
  BY DEF Enter, Candidate
<1>2. /\ Offer(direction).quantity \in Nat \ {0} /\ approved \in Int
      /\ ResultAt(Offer(direction), StopPrice(Offer(direction))) >= -approved
  BY <1>1, OfferCovered
<1>3. LossWithinBudget'
  BY <1>1 DEF LossInv, LossWithinBudget
<1>4. CASE RequiredCash(Offer(direction)) <= cash
  <2>1. position' = Offer(direction) /\ budget' = approved
    BY <1>4 DEF Enter
  <2> HIDE DEF approved
  <2>2. QED
    BY <1>2, <1>3, <2>1 DEF LossInv, BudgetInv
<1>5. CASE ~(RequiredCash(Offer(direction)) <= cash)
  <2>1. position' = NoPosition /\ budget' = 0
    BY <1>5 DEF Enter
  <2>2. ~Held'
    BY <2>1 DEF Held
  <2>3. QED
    BY <1>3, <2>1, <2>2 DEF LossInv, BudgetInv
<1>6. QED
  BY <1>4, <1>5

\* Funding is outside of the budget.
LEMMA AccrueLoss ==
  ASSUME TypeInv, LossInv, Accrue, UNCHANGED <<budget, closed>>
  PROVE  LossInv'
<1>1. LossWithinBudget'
  BY DEF LossInv, LossWithinBudget
<1>2. CASE Held
  <2>1. position' = Funded
    BY <1>2 DEF Accrue
  <2>2. Funded.quantity = position.quantity
        /\ ResultAt(Funded, StopPrice(Funded)) = ResultAt(position, StopPrice(position))
    BY <1>2, FundedResult
  <2>3. BudgetInv'
    BY <1>2, <2>1, <2>2 DEF LossInv, BudgetInv
  <2>4. QED
    BY <1>1, <2>3 DEF LossInv
<1>3. CASE ~Held
  BY <1>1, <1>3 DEF Accrue, LossInv, BudgetInv, Held
<1>4. QED
  BY <1>2, <1>3

\* Nothing else touches a position, its budget or the closed one.
LEMMA OutsideLoss ==
  ASSUME LossInv, UNCHANGED <<position, budget, closed>>
  PROVE  LossInv'
  BY DEF LossInv, BudgetInv, LossWithinBudget, Held

\* Every open position has a budget that covers a close at its stop, and the newest closed
\* one kept to it.
LEMMA LossInvariant ==
  ASSUME CostsCovered
  PROVE  Spec => [](CashInv /\ LossInv)
<1>1. Init => LossInv
  BY DEF Init, LossInv, BudgetInv, LossWithinBudget, Held, NoTrade
<1>2. CashInv /\ LossInv /\ [Next]_vars => LossInv'
  <2> SUFFICES ASSUME CashInv, LossInv, [Next]_vars PROVE LossInv'
    OBVIOUS
  <2>0. TypeInv /\ BudgetInv
    BY DEF CashInv, LossInv
  <2>1. CASE NewChampion
    BY <2>1, OutsideLoss DEF NewChampion
  <2>2. CASE NewVector
    BY <2>2, OutsideLoss DEF NewVector
  <2>3. CASE NewDay
    BY <2>3, OutsideLoss DEF NewDay
  <2>4. CASE AutoExit
    BY <2>0, <2>4, ClosesWithin, CloseLoss DEF AutoExit
  <2>5. CASE Bankrupt
    BY <2>0, <2>5, AccrueLoss DEF Bankrupt
  <2>6. CASE NoOrder
    BY <2>0, <2>6, AccrueLoss DEF NoOrder
  <2>7. CASE Leave
    BY <2>0, <2>7, ClosesWithin, CloseLoss DEF Leave
  <2>8. CASE \E direction \in Directions : Enter(direction)
    BY <2>0, <2>8, EnterLoss
  <2>9. CASE UNCHANGED vars
    BY <2>9, OutsideLoss DEF vars
  <2>10. QED
    BY <2>1, <2>2, <2>3, <2>4, <2>5, <2>6, <2>7, <2>8, <2>9 DEF Next
<1>3. QED
  BY <1>1, <1>2, CashInvariant, PTL DEF Spec

\* Unless the market gaps, no position loses more than the stop_loss_amount it was approved
\* with, whatever the market, the sizes and the models are, so long as the costs it is
\* sized with are the costs it is charged and the funding allowance covers the rest.
THEOREM LossTheorem ==
  ASSUME CostsCovered
  PROVE  Spec => []LossWithinBudget
<1>1. LossInv => LossWithinBudget
  BY DEF LossInv
<1>2. Spec => [](CashInv /\ LossInv)
  BY LossInvariant
<1>3. QED
  BY <1>1, <1>2, PTL
-----------------------------------------------------------------------------
\* Not under the floor that the daily limit and one budget leave of a day's start.
AboveFloor(amount, start) ==
  (2 * amount + 1) * Scale >= 2 * start * (Scale - MaxDailyLossFraction - MaxStopRiskFraction)

\* What the account keeps if the open position takes all of its budget
Secured == IF Held THEN cash + RequiredCash(position) - budget ELSE cash

DayInv ==
  /\ today \in [start : Nat, regular : BOOLEAN]
  /\ Held /\ today.regular => today.start # NoPoint
  /\ today.regular /\ today.start # NoPoint => AboveFloor(Secured, today.start)

\* The limits are fractions.
LEMMA FractionTypes ==
  /\ MaxDailyLossFraction \in Nat /\ MaxDailyLossFraction <= Scale
  /\ MaxStopRiskFraction \in Nat /\ MaxStopRiskFraction <= Scale
  BY LimitsAssumption, ScaleAssumption DEF ValidLimits

\* More is above the floor too.
LEMMA FloorMonotone ==
  ASSUME NEW a \in Int, NEW b \in Int, a <= b, NEW start \in Nat, AboveFloor(a, start)
  PROVE  AboveFloor(b, start)
<1> DEFINE floor == 2 * start * (Scale - MaxDailyLossFraction - MaxStopRiskFraction)
<1>1. floor \in Int /\ (2 * a + 1) * Scale >= floor
  BY RateTypes, FractionTypes DEF AboveFloor
<1> HIDE DEF floor
<1>2. (2 * a + 1) * Scale <= (2 * b + 1) * Scale
  BY RateTypes
<1>3. (2 * a + 1) * Scale \in Int /\ (2 * b + 1) * Scale \in Int
  BY RateTypes
<1>4. (2 * b + 1) * Scale >= floor
  BY <1>1, <1>2, <1>3
<1>5. QED
  BY <1>4 DEF AboveFloor, floor

\* A budget taken from an equity that has not reached the daily limit leaves the account
\* above the floor.
LEMMA BudgetAboveFloor ==
  ASSUME NEW equity \in Nat, NEW start \in Nat, NEW approved \in Int,
         ~LostFraction(start, equity, MaxDailyLossFraction),
         approved <= RiskBudget(equity)
  PROVE  AboveFloor(equity - approved, start)
<1> DEFINE daily == MaxDailyLossFraction
           stop == MaxStopRiskFraction
           most == RiskBudget(equity)
<1>1. /\ daily \in Nat /\ daily <= Scale /\ stop \in Nat /\ stop <= Scale
      /\ Scale \in Nat \ {0}
  BY FractionTypes, RateTypes
<1>2. most \in Int /\ 2 * (most * Scale) <= 2 * (equity * stop) + Scale
  BY <1>1, TimesBound DEF RiskBudget
<1>3. (start - equity) * Scale < daily * start
  <2>1. ~((start - equity) * Scale >= daily * start)
    BY DEF LostFraction
  <2>2. (start - equity) * Scale \in Int /\ daily * start \in Int
    BY <1>1
  <2>3. QED
    BY <2>1, <2>2
<1> HIDE DEF daily, stop, most
<1>4. approved * Scale <= most * Scale
  BY <1>1, <1>2 DEF most
<1>5. start * (Scale - daily - stop) <= equity * Scale - equity * stop
  <2>1. CASE start <= equity
    <3>1. start * (Scale - stop) <= equity * (Scale - stop)
      BY <1>1, <2>1
    <3>2. start * daily >= 0 /\ start * daily \in Int
      BY <1>1
    <3>3. /\ start * (Scale - daily - stop) = start * (Scale - stop) - start * daily
          /\ equity * (Scale - stop) = equity * Scale - equity * stop
          /\ start * (Scale - stop) \in Int /\ equity * (Scale - stop) \in Int
      BY <1>1
    <3>4. equity * Scale \in Int /\ equity * stop \in Int
      BY <1>1
    <3>5. QED
      BY <3>1, <3>2, <3>3, <3>4
  <2>2. CASE equity < start
    <3>1. equity * stop <= start * stop
      BY <1>1, <2>2
    <3>2. /\ (start - equity) * Scale = start * Scale - equity * Scale
          /\ start * (Scale - daily - stop) = start * Scale - daily * start - start * stop
          /\ start * Scale \in Int /\ equity * Scale \in Int /\ daily * start \in Int
          /\ start * stop \in Int /\ equity * stop \in Int
      BY <1>1
    <3>3. QED
      BY <1>3, <3>1, <3>2
  <2>3. QED
    BY <2>1, <2>2
<1>6. (2 * (equity - approved) + 1) * Scale >= 2 * (start * (Scale - daily - stop))
  <2>1. /\ (2 * (equity - approved) + 1) * Scale
             = 2 * (equity * Scale) - 2 * (approved * Scale) + Scale
        /\ equity * Scale \in Int /\ approved * Scale \in Int /\ most * Scale \in Int
        /\ equity * stop \in Int /\ start * (Scale - daily - stop) \in Int
    BY <1>1, <1>2
  <2>2. QED
    BY <1>1, <1>2, <1>4, <1>5, <2>1
<1>7. 2 * start * (Scale - daily - stop) = 2 * (start * (Scale - daily - stop))
  BY <1>1
<1>8. QED
  BY <1>6, <1>7 DEF AboveFloor, daily, stop

\* Equity is an amount.
LEMMA EquityType ==
  ASSUME TypeInv
  PROVE  Equity \in Int /\ (~Held => Equity = cash)
<1>1. cash \in Int
  BY DEF TypeInv
<1>2. CASE Held
  <2>1. /\ Funded.margin \in Int /\ Funded.funding_pnl \in Int /\ Funded.entry_price \in Int
        /\ Funded.quantity \in Int
    BY <1>2, FundedType DEF Positions
  <2>2. Reference \in Int
    BY ReferenceType DEF TypeInv
  <2>3. (Reference - Funded.entry_price) * Funded.quantity \in Int
    BY <2>1, <2>2
  <2> DEFINE gross == (Reference - Funded.entry_price) * Funded.quantity * Sign(Funded.side)
  <2>4. gross \in Int
    BY <2>3 DEF Sign
  <2>5. Equity = cash + (Funded.margin + Funded.funding_pnl + gross)
    BY <1>2 DEF Equity
  <2> HIDE DEF gross
  <2>6. QED
    BY <1>1, <1>2, <2>1, <2>4, <2>5
<1>3. CASE ~Held
  BY <1>1, <1>3 DEF Equity
<1>4. QED
  BY <1>2, <1>3

\* A day stays regular only without a gap and without paid funding.
LEMMA RegularType ==
  ASSUME DayInv
  PROVE  /\ Regular \in BOOLEAN
         /\ Regular => today.regular /\ (Held => ~Gapped /\ Funded.funding_pnl >= 0)
  BY Zenon DEF Regular

\* The first equity point of a day starts it; what follows leaves the start alone.
LEMMA TodayStep ==
  ASSUME DayInv, TypeInv,
         \/ /\ Equity > 0
            /\ today' = [start |-> IF today.start = NoPoint THEN Equity ELSE today.start,
                         regular |-> Regular]
         \/ today' = [today EXCEPT !.regular = Regular]
  PROVE  /\ today' \in [start : Nat, regular : BOOLEAN]
         /\ today'.regular =>
              today.regular /\ (Held => ~Gapped /\ Funded.funding_pnl >= 0)
         /\ today.start # NoPoint => today'.start = today.start
<1>1. /\ Regular \in BOOLEAN
      /\ Regular => today.regular /\ (Held => ~Gapped /\ Funded.funding_pnl >= 0)
  BY RegularType
<1>2. today \in [start : Nat, regular : BOOLEAN] /\ today.start \in Nat
  BY DEF DayInv
<1>3. Equity \in Int
  BY EquityType
<1>4. PICK start \in Nat : /\ today' = [start |-> start, regular |-> Regular]
                           /\ today.start # NoPoint => start = today.start
  BY <1>2, <1>3
<1>5. today'.regular = Regular /\ today'.start = start
  BY <1>4
<1>6. today' \in [start : Nat, regular : BOOLEAN]
  BY <1>1, <1>4
<1>7. today'.regular => today.regular /\ (Held => ~Gapped /\ Funded.funding_pnl >= 0)
  BY <1>1, <1>5, Zenon
<1>8. QED
  BY <1>4, <1>5, <1>6, <1>7

\* A close on a regular day takes no more than the budget.
LEMMA CloseDay ==
  ASSUME CashInv, LossInv, DayInv, Held, NEW settled, CloseWithin(settled), Close(settled),
         today' \in [start : Nat, regular : BOOLEAN],
         today'.regular => today.regular /\ (Held => ~Gapped /\ Funded.funding_pnl >= 0),
         today.start # NoPoint => today'.start = today.start
  PROVE  DayInv'
<1>1. ~Held' /\ cash' = cash + settled.cash_delta
  BY DEF Close, Held
<1>2. Secured' = cash'
  BY <1>1 DEF Secured
<1>3. ASSUME today'.regular, today'.start # NoPoint
      PROVE  AboveFloor(Secured, today.start)' 
  <2>1. /\ today.start # NoPoint /\ today'.start = today.start /\ today.start \in Nat
        /\ AboveFloor(Secured, today.start) /\ ~Gapped /\ Funded.funding_pnl >= 0
    BY <1>3 DEF DayInv
  <2>2. Secured = cash + RequiredCash(position) - budget
    BY DEF Secured
  <2>3. /\ cash \in Int /\ budget \in Int /\ RequiredCash(position) \in Int
    BY DEF CashInv, TypeInv, LossInv, BudgetInv, Positions, RequiredCash
  <2>4. /\ settled.net_pnl \in Int /\ settled.cash_delta \in Int /\ Funded.funding_pnl \in Int
        /\ settled.cash_delta = settled.net_pnl + RequiredCash(position)
        /\ settled.net_pnl - Funded.funding_pnl >= -budget
    BY <2>1 DEF CloseWithin
  <2>5. Secured \in Int /\ cash' \in Int /\ Secured <= cash'
    BY <1>1, <2>1, <2>2, <2>3, <2>4
  <2>6. AboveFloor(cash', today.start)
    BY <2>1, <2>5, FloorMonotone
  <2>7. QED
    BY <1>2, <2>1, <2>6 DEF AboveFloor
<1>4. QED
  BY <1>1, <1>3 DEF DayInv

\* An equity point, and funding accrued, leave what is secured alone; with no position the
\* first point is the start of the day.
LEMMA NoOrderDay ==
  ASSUME CashInv, DayInv, NoOrder
  PROVE  DayInv'
<1>1. /\ today' \in [start : Nat, regular : BOOLEAN]
      /\ today'.regular => today.regular
      /\ today.start # NoPoint => today'.start = today.start
  BY TodayStep DEF NoOrder, AfterExits, CashInv
<1>2. /\ Held' <=> Held
      /\ Secured' = Secured
  <2>1. cash' = cash /\ budget' = budget
    BY DEF NoOrder
  <2>2. CASE Held
    <3>1. position' = Funded /\ Funded \in Positions
          /\ RequiredCash(Funded) = RequiredCash(position)
      BY <2>2, FundedType DEF NoOrder, Accrue, CashInv
    <3>2. Held'
      BY <3>1 DEF Held, NoPosition, Positions, Directions
    <3>3. QED
      BY <2>1, <2>2, <3>1, <3>2 DEF Secured
  <2>3. CASE ~Held
    <3>1. position' = position
      BY <2>3 DEF NoOrder, Accrue
    <3>2. QED
      BY <2>1, <2>3, <3>1 DEF Secured, Held
  <2>4. QED
    BY <2>2, <2>3
<1>3. CASE today.start # NoPoint
  <2>1. today'.start = today.start
    BY <1>1, <1>3
  <2>2. QED
    BY <1>1, <1>2, <1>3, <2>1 DEF DayInv, AboveFloor
<1>4. CASE today.start = NoPoint
  <2>1. ~(Held /\ today.regular)
    BY <1>4 DEF DayInv
  <2>2. CASE Held
    BY <1>1, <1>2, <2>1, <2>2 DEF DayInv
  <2>3. CASE ~Held
    <3>1. Equity = cash /\ Equity > 0 /\ cash \in Nat /\ today'.start = cash
      BY <1>4, <2>3, EquityType DEF NoOrder, AfterExits, CashInv, TypeInv
    <3>2. Secured' = cash
      BY <1>2, <2>3 DEF Secured
    <3>3. AboveFloor(cash, cash)
      <4>1. cash * MaxDailyLossFraction >= 0 /\ cash * MaxStopRiskFraction >= 0
            /\ cash * MaxDailyLossFraction \in Int /\ cash * MaxStopRiskFraction \in Int
            /\ cash * Scale \in Int
        BY <3>1, FractionTypes, RateTypes
      <4>2. /\ (2 * cash + 1) * Scale = 2 * (cash * Scale) + Scale
            /\ 2 * cash * (Scale - MaxDailyLossFraction - MaxStopRiskFraction)
                 = 2 * (cash * Scale) - 2 * (cash * MaxDailyLossFraction)
                     - 2 * (cash * MaxStopRiskFraction)
        BY <3>1, FractionTypes, RateTypes
      <4>3. QED
        BY <4>1, <4>2, RateTypes DEF AboveFloor
    <3>4. QED
      BY <1>1, <1>2, <2>3, <3>1, <3>2, <3>3 DEF DayInv, AboveFloor
  <2>4. QED
    BY <2>2, <2>3
<1>5. QED
  BY <1>3, <1>4

\* An entry is approved only while the account is above the daily limit, and with a budget
\* that leaves it above the floor.
LEMMA EnterDay ==
  ASSUME CashInv, DayInv, NEW direction \in Directions, Enter(direction)
  PROVE  DayInv'
<1> DEFINE request == Request(direction)
           approved == Sizing(request).stop_loss_amount
           start == IF today.start = NoPoint THEN Equity ELSE today.start
<1>1. ~Held /\ Approved(request) /\ Equity > 0 /\ AfterExits
  BY DEF Enter, Candidate, AfterExits
<1>2. /\ today' \in [start : Nat, regular : BOOLEAN]
      /\ today'.regular => today.regular
      /\ today'.start = start /\ start # NoPoint /\ start \in Nat
  <2>1. Equity \in Int /\ today.start \in Nat
    BY EquityType DEF CashInv, DayInv
  <2>2. today'.start = start
    BY <1>1 DEF AfterExits
  <2>3. start # NoPoint /\ start \in Nat
    BY <1>1, <2>1 DEF NoPoint
  <2>4. QED
    BY <1>1, <2>2, <2>3, TodayStep DEF AfterExits, CashInv
<1>3. Equity = cash /\ cash \in Nat
  BY <1>1, EquityType DEF CashInv, TypeInv
<1>4. /\ request.equity = cash /\ request.day_start = start
  BY <1>3 DEF Request, DayStart
<1>5. /\ ~LostFraction(start, cash, MaxDailyLossFraction)
      /\ approved <= RiskBudget(cash)
  <2>1. GuardReasons(request) = {} /\ WithinLimits(request)
    BY <1>1 DEF Approved, Reasons
  <2>2. ~LostFraction(request.day_start, request.equity, MaxDailyLossFraction)
    BY <2>1 DEF GuardReasons, When
  <2>3. approved <= RiskBudget(request.equity)
    BY <2>1 DEF WithinLimits
  <2>4. QED
    BY <1>4, <2>2, <2>3
<1>6. approved \in Int /\ approved >= 0
  <2>1. EntryRequest(request) /\ GuardReasons(request) = {} /\ SizingReasons(request) = {}
    BY <1>1, RequestType DEF CashInv, Approved, Reasons
  <2>2. Quantity(request) \in Int /\ RiskPerUnit(request) \in Nat
    BY <2>1, QuantityType, RiskPerUnitType
  <2>3. ~(Quantity(request) <= 0)
    BY <2>1 DEF SizingReasons
  <2>4. Sizing(request).stop_loss_amount = Quantity(request) * RiskPerUnit(request)
    BY DEF Sizing
  <2> DEFINE quantity == Quantity(request)
             unit == RiskPerUnit(request)
  <2> HIDE DEF quantity, unit
  <2>5. quantity * unit \in Int /\ quantity * unit >= 0
    BY <2>2, <2>3 DEF quantity, unit
  <2>6. QED
    BY <2>4, <2>5 DEF quantity, unit
<1> HIDE DEF approved, start, request
<1>7. AboveFloor(cash - approved, start)
  BY <1>2, <1>3, <1>5, <1>6, BudgetAboveFloor
<1>8. AboveFloor(cash, start)
  <2> DEFINE least == cash - approved
  <2>1. least \in Int /\ least <= cash /\ AboveFloor(least, start)
    BY <1>3, <1>6, <1>7
  <2> HIDE DEF least
  <2>2. QED
    BY <1>2, <1>3, <2>1, FloorMonotone
<1>9. CASE RequiredCash(Offer(direction)) <= cash
  <2>1. /\ position' = Offer(direction) /\ budget' = approved
        /\ cash' = cash - RequiredCash(Offer(direction))
    BY <1>9 DEF Enter, approved, request
  <2>2. Offer(direction) \in Positions
    BY <1>1, OfferType DEF Enter, CashInv
  <2>3. Held' /\ RequiredCash(Offer(direction)) \in Int
    BY <2>1, <2>2 DEF Held, NoPosition, Positions, Directions, RequiredCash
  <2>4. Secured' = cash' + RequiredCash(position') - budget'
    BY <2>3 DEF Secured
  <2>5. Secured' = cash - approved
    BY <1>3, <1>6, <2>1, <2>3, <2>4
  <2>6. QED
    BY <1>2, <1>7, <2>5 DEF DayInv, AboveFloor
<1>10. CASE ~(RequiredCash(Offer(direction)) <= cash)
  <2>1. position' = NoPosition /\ cash' = cash
    BY <1>10 DEF Enter
  <2>2. ~Held' /\ Secured' = cash
    BY <2>1 DEF Held, Secured
  <2>3. QED
    BY <1>2, <1>8, <2>2 DEF DayInv, AboveFloor
<1>11. QED
  BY <1>9, <1>10

\* Models, vectors and funding do not change the day.
LEMMA SameDay ==
  ASSUME CashInv, DayInv, UNCHANGED <<today, cash, budget>>,
         position' = position \/ Accrue
  PROVE  DayInv'
<1>1. /\ Held' <=> Held
      /\ Secured' = Secured
  <2>1. CASE position' = position
    BY <2>1 DEF Held, Secured
  <2>2. CASE Held /\ Accrue
    <3>1. position' = Funded /\ Funded \in Positions
          /\ RequiredCash(Funded) = RequiredCash(position)
      BY <2>2, FundedType DEF Accrue, CashInv
    <3>2. Held'
      BY <3>1 DEF Held, NoPosition, Positions, Directions
    <3>3. QED
      BY <2>2, <3>1, <3>2 DEF Secured
  <2>3. CASE ~Held /\ Accrue
    BY <2>1, <2>3 DEF Accrue
  <2>4. QED
    BY <2>1, <2>2, <2>3
<1>2. QED
  BY <1>1 DEF DayInv, AboveFloor

\* Midnight: a day that begins with a position is not a regular one.
LEMMA NextDay ==
  ASSUME NewDay
  PROVE  DayInv'
<1>1. /\ today' = [start |-> 0, regular |-> ~Held] /\ position' = position
  BY DEF NewDay, NoPoint
<1>2. (~Held) \in BOOLEAN
  OBVIOUS
<1>3. today' \in [start : Nat, regular : BOOLEAN]
  BY <1>1, <1>2
<1>4. today'.start = NoPoint /\ (today'.regular => ~Held')
  BY <1>1, Zenon DEF NoPoint, Held
<1>5. QED
  BY <1>3, <1>4 DEF DayInv

\* The floor of a day holds with the position's whole budget taken off.
LEMMA DayInvariant ==
  ASSUME CostsCovered
  PROVE  Spec => []DayInv
<1>1. Init => DayInv
  BY DEF Init, DayInv, NoPoint, Held
<1>2. CashInv /\ LossInv /\ DayInv /\ [Next]_vars => DayInv'
  <2> SUFFICES ASSUME CashInv, LossInv, DayInv, [Next]_vars PROVE DayInv'
    OBVIOUS
  <2>0. TypeInv /\ BudgetInv
    BY DEF CashInv, LossInv
  <2>1. CASE NewChampion
    BY <2>1, SameDay DEF NewChampion
  <2>2. CASE NewVector
    BY <2>2, SameDay DEF NewVector
  <2>3. CASE NewDay
    BY <2>3, NextDay
  <2>4. CASE AutoExit
    <3>1. CloseWithin(ClosedByTrigger(Funded, Exit, market))
      BY <2>0, <2>4, ClosesWithin DEF AutoExit
    <3>2. Close(ClosedByTrigger(Funded, Exit, market)) /\ Held
          /\ today' = [today EXCEPT !.regular = Regular]
      BY <2>4 DEF AutoExit
    <3>3. QED
      BY <2>0, <3>1, <3>2, TodayStep, CloseDay
  <2>5. CASE Bankrupt
    BY <2>5, SameDay DEF Bankrupt
  <2>6. CASE NoOrder
    BY <2>6, NoOrderDay
  <2>7. CASE Leave
    <3>1. CloseWithin(ClosedAtMarket(Funded, market))
      BY <2>0, <2>7, ClosesWithin DEF Leave
    <3>2. Close(ClosedAtMarket(Funded, market)) /\ Held /\ Equity > 0
          /\ today' = [start |-> IF today.start = NoPoint THEN Equity ELSE today.start,
                       regular |-> Regular]
      BY <2>7 DEF Leave, AfterExits
    <3>3. QED
      BY <2>0, <3>1, <3>2, TodayStep, CloseDay
  <2>8. CASE \E direction \in Directions : Enter(direction)
    BY <2>8, EnterDay
  <2>9. CASE UNCHANGED vars
    BY <2>9, SameDay DEF vars
  <2>10. QED
    BY <2>1, <2>2, <2>3, <2>4, <2>5, <2>6, <2>7, <2>8, <2>9 DEF Next
<1>3. Spec => [](CashInv /\ LossInv)
  BY LossInvariant
<1>4. QED
  BY <1>1, <1>2, <1>3, PTL DEF Spec

\* A regular day takes no more from the account than the daily limit and one risk budget
\* of its start, however many positions are opened and closed in it.
THEOREM DayTheorem ==
  ASSUME CostsCovered
  PROVE  Spec => []DayLossBounded
<1>1. DayInv => DayLossBounded
  BY DEF DayInv, DayLossBounded, AboveFloor, Secured
<1>2. Spec => []DayInv
  BY DayInvariant
<1>3. QED
  BY <1>1, <1>2, PTL
=============================================================================
