--------------------------- MODULE ModelSelection ---------------------------
(***************************************************************************)
(* How a trained model gets its confidence threshold and is judged          *)
(* (jobs/database_training.py, models/evaluation.py).  A point is what the  *)
(* model predicts for a labeled vector, [up, down, no_trade], with the      *)
(* return that followed; all of them over Scale.  The figures that are only *)
(* reported are left out.                                                   *)
(***************************************************************************)
EXTENDS PaperNumbers, Partitions, Sequences, FiniteSets

CONSTANTS
  RoundTripCost, MinimumEdge,  \* TrainingTarget
  \* AdmissionCriteria
  MaxModelDrawdown, MinProfitFactor, MinActionable, MinClosed, MinClosedFraction,
  WindowCount, MinProfitableWindows

ValidTarget == {RoundTripCost, MinimumEdge} \subseteq 0 .. (Scale - 1)
ValidCriteria ==
  /\ MinActionable \in Nat \ {0} /\ MinClosed \in Nat \ {0}
  /\ MinClosedFraction \in 1 .. Scale
  /\ WindowCount \in Nat \ {0} /\ MinProfitableWindows \in 1 .. WindowCount
  /\ MaxModelDrawdown \in Nat /\ MinProfitFactor \in Nat
ASSUME SelectionAssumption == ValidTarget /\ ValidCriteria

\* predict_proba: the three probabilities add up to one.
ValidPrediction(p) ==
  /\ {p.up, p.down, p.no_trade} \subseteq 0 .. Scale
  /\ p.up + p.down + p.no_trade = Scale

Confidence(p) == Higher(p.up, p.down)
DirectionIsActionable(p) == Confidence(p) > p.no_trade

\* The trade that the evaluation counts for a prediction.
Counted(p, threshold) ==
  IF ~DirectionIsActionable(p) THEN "NONE"
  ELSE IF p.up >= threshold THEN "LONG"
  ELSE IF p.down >= threshold THEN "SHORT"
  ELSE "NONE"

Pnls(points, threshold) ==
  LET traded == SelectSeq(points, LAMBDA p : Counted(p, threshold) # "NONE")
      pnl(p) == (IF Counted(p, threshold) = "LONG" THEN p.ret ELSE -p.ret) - RoundTripCost
  IN  [i \in DOMAIN traded |-> pnl(traded[i])]

Total(pnls) ==
  LET sum[n \in 0 .. Len(pnls)] == IF n = 0 THEN 0 ELSE sum[n - 1] + pnls[n]
  IN  sum[Len(pnls)]

\* The equity, compounded from 1, its peak and the largest drawdown from it.
Curve(pnls) ==
  LET compounded(curve, pnl) ==
        LET equity == Times(curve.equity, Scale + pnl)
            highest == Higher(curve.peak, equity)
        IN  [equity |-> equity, peak |-> highest,
             drawdown |-> Higher(curve.drawdown, Quotient((highest - equity) * Scale, highest))]
      after[n \in 0 .. Len(pnls)] ==
        IF n = 0 THEN [equity |-> Scale, peak |-> Scale, drawdown |-> 0]
                 ELSE compounded(after[n - 1], pnls[n])
  IN  after[Len(pnls)]

\* 999 stands for no losses.
ProfitFactor(pnls) ==
  LET gains == Total(SelectSeq(pnls, LAMBDA pnl : pnl > 0))
      losses == -Total(SelectSeq(pnls, LAMBDA pnl : pnl < 0))
  IN  IF losses > 0 THEN Quotient(gains * Scale, losses)
      ELSE IF gains > 0 THEN 999 * Scale
      ELSE 0

\* _strategy_metrics_from_predictions
Metrics(points, threshold) ==
  LET pnls == Pnls(points, threshold)
  IN  [net_return |-> Curve(pnls).equity - Scale,
       max_drawdown |-> Curve(pnls).drawdown,
       profit_factor |-> ProfitFactor(pnls),
       trades |-> Len(pnls),
       recent_return |-> Total(SubSeq(pnls, (Len(pnls) * 3) \div 4 + 1, Len(pnls)))]

\* classify_forward_return gives LONG or SHORT.
ActionableLabels(points) ==
  LET least == RoundTripCost + MinimumEdge
  IN  Cardinality({i \in DOMAIN points : points[i].ret > least \/ points[i].ret < -least})

RequiredClosedTrades(labels) == Higher(MinClosed, CeilingOf(labels * MinClosedFraction, Scale))
-----------------------------------------------------------------------------
\* (mutant) Every confidence is a threshold, whether the direction is actionable or not.
EveryIndex(points) == DOMAIN points

\* The points whose confidences are the possible thresholds.
ActionableIndex(points) == {i \in DOMAIN points : DirectionIsActionable(points[i])}

\* ordered[rank], counted from 0, of the confidences that are possible.
HasRank(threshold, rank, points) ==
  LET count(Below(_)) ==
        Cardinality({i \in ActionableIndex(points) : Below(Confidence(points[i]))})
  IN  /\ count(LAMBDA c : c < threshold) <= rank
      /\ rank < count(LAMBDA c : c <= threshold)

\* Every twentieth of the ordered confidences.
CandidateThresholds(points) ==
  LET last == Cardinality(ActionableIndex(points)) - 1
  IN  {threshold \in {Confidence(points[i]) : i \in ActionableIndex(points)} :
         \E quantile \in 0 .. 20 : HasRank(threshold, Quotient(last * quantile, 20), points)}

Eligible(points) ==
  {threshold \in CandidateThresholds(points) :
     Metrics(points, threshold).trades >= RequiredClosedTrades(ActionableLabels(points))}

Pool(points) == IF Eligible(points) # {} THEN Eligible(points) ELSE CandidateThresholds(points)

Truth(condition) == IF condition THEN 1 ELSE 0

Key(points, threshold) ==
  LET outcome == Metrics(points, threshold)
  IN  <<Truth(outcome.net_return > 0), Truth(outcome.profit_factor >= MinProfitFactor),
        outcome.net_return, outcome.profit_factor, outcome.trades, threshold>>

\* The order of Python's tuples.
Precedes(key, other) ==
  \E i \in 1 .. 6 : key[i] < other[i] /\ \A j \in 1 .. i - 1 : key[j] = other[j]

\* _select_confidence_threshold: the one best threshold, or 1.
Selected(points) ==
  IF ActionableIndex(points) = {} THEN {Scale}
  ELSE {threshold \in Pool(points) :
          \A other \in Pool(points) : ~Precedes(Key(points, threshold), Key(points, other))}
-----------------------------------------------------------------------------
Window(test, i) ==
  SubSeq(test, WindowFrom(Len(test), WindowCount, i), WindowTo(Len(test), WindowCount, i))

ProfitableWindows(test, threshold) ==
  Cardinality({i \in 1 .. WindowCount : Metrics(Window(test, i), threshold).net_return > 0})

\* CandidateAssessment: what the evaluator measures on the test part.
Assessment(test, threshold, champion_return) ==
  LET outcome == Metrics(test, threshold)
  IN  [net_return |-> outcome.net_return,
       max_drawdown |-> outcome.max_drawdown,
       profit_factor |-> outcome.profit_factor,
       closed_trades |-> outcome.trades,
       actionable_labels |-> ActionableLabels(test),
       profitable_windows |-> ProfitableWindows(test, threshold),
       beats_baseline |-> outcome.net_return > 0,
       recent_period_stable |-> outcome.recent_return >= 0,
       beats_champion |-> outcome.net_return > champion_return]

\* evaluate_admission: what the evaluator measures is never invalid.
AdmissionReasons(assessed) ==
  LET applies ==
        [INSUFFICIENT_ACTIONABLE_LABELS |-> assessed.actionable_labels < MinActionable,
         NET_RETURN_NOT_POSITIVE        |-> assessed.net_return <= 0,
         MAX_DRAWDOWN_EXCEEDED          |-> assessed.max_drawdown > MaxModelDrawdown,
         PROFIT_FACTOR_TOO_LOW          |-> assessed.profit_factor < MinProfitFactor,
         NOT_ENOUGH_TRADES              |->
           assessed.closed_trades < RequiredClosedTrades(assessed.actionable_labels),
         NOT_ENOUGH_PROFITABLE_WINDOWS  |-> assessed.profitable_windows < MinProfitableWindows,
         DOES_NOT_BEAT_BASELINE         |-> ~assessed.beats_baseline,
         DOES_NOT_BEAT_CHAMPION         |-> ~assessed.beats_champion,
         RECENT_PERIOD_UNSTABLE         |-> ~assessed.recent_period_stable]
  IN  {reason \in DOMAIN applies : applies[reason]}

Admitted(test, threshold, champion_return) ==
  AdmissionReasons(Assessment(test, threshold, champion_return)) = {}
=============================================================================
