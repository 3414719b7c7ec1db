--------------------------- MODULE Backtest_proofs ---------------------------
(***************************************************************************)
(* Theorems about Backtest, for any bars, any strategies, windows and       *)
(* costs, and any difference between the two markets.                       *)
(***************************************************************************)
EXTENDS Backtest, SequenceTheorems, TLAPS

\* The window under way lies in the markets, which agree on their first bars.
FoldInv ==
  /\ strategy \in Strategies /\ plan \in Plans
  /\ fold \in Windows /\ done \in 0 .. TestSize
  /\ shared \in Nat /\ shared >= TrainSize
  /\ \A m \in Market : markets[m] \in Seq(Bars) /\ Len(markets[m]) = Length
  /\ \A k \in 1 .. shared : markets[1][k] = markets[2][k]

\* The sizes are numbers.
LEMMA Sizes ==
  ASSUME FoldInv
  PROVE  /\ TrainSize \in Nat \ {0} /\ TestSize \in Nat \ {0} /\ Length \in Nat
         /\ plan.step \in Nat \ {0} /\ fold \in Nat \ {0} /\ done \in Nat
         /\ TestStart(fold) \in Nat /\ TestStart(fold) >= TrainSize
         /\ TestStart(fold) + TestSize <= Length
<1>1. /\ TrainSize \in Nat \ {0} /\ TestSize \in Nat \ {0} /\ Length \in Nat
      /\ plan.step \in Nat \ {0} /\ fold \in Nat \ {0} /\ done \in Nat
  BY SizesAssumption DEF FoldInv, Windows
<1>2. (fold - 1) * plan.step \in Nat
  <2>1. fold - 1 \in Nat
    BY <1>1
  <2>2. QED
    BY <1>1, <2>1
<1>3. TestStart(fold) \in Nat /\ TestStart(fold) >= TrainSize
  <2> DEFINE x == (fold - 1) * plan.step
  <2>1. TestStart(fold) = TrainSize + x /\ x \in Nat
    BY <1>2 DEF TestStart
  <2> HIDE DEF x
  <2>2. QED
    BY <1>1, <2>1
<1>4. TestStart(fold) + TestSize <= Length
  BY DEF FoldInv, Windows
<1>5. QED
  BY <1>1, <1>3, <1>4

\* Parts of sequences with the same entries are the same.
LEMMA SameParts ==
  ASSUME NEW S, NEW a, NEW b, NEW i \in Int, NEW j \in Int,
         \A k \in i .. j : a[k] \in S /\ a[k] = b[k]
  PROVE  SubSeq(a, i, j) = SubSeq(b, i, j)
<1>1. /\ SubSeq(a, i, j) \in Seq(S) /\ SubSeq(b, i, j) \in Seq(S)
      /\ Len(SubSeq(a, i, j)) = Len(SubSeq(b, i, j))
      /\ Len(SubSeq(a, i, j)) = IF i <= j THEN j - i + 1 ELSE 0
      /\ \A k \in 1 .. j - i + 1 : SubSeq(a, i, j)[k] = a[i + k - 1]
      /\ \A k \in 1 .. j - i + 1 : SubSeq(b, i, j)[k] = b[i + k - 1]
  BY SubSeqProperties
<1>2. \A k \in 1 .. Len(SubSeq(a, i, j)) : SubSeq(a, i, j)[k] = SubSeq(b, i, j)[k]
  <2> SUFFICES ASSUME NEW k \in 1 .. Len(SubSeq(a, i, j))
               PROVE  SubSeq(a, i, j)[k] = SubSeq(b, i, j)[k]
    OBVIOUS
  <2>1. i <= j /\ k \in 1 .. j - i + 1 /\ i + k - 1 \in i .. j
    BY <1>1
  <2>2. QED
    BY <1>1, <2>1
<1>3. QED
  BY <1>1, <1>2, SeqEqual

\* The bar under way is one of the market.
LEMMA TestBar ==
  ASSUME FoldInv, NEW m \in Market, NEW k \in 1 .. TestSize
  PROVE  /\ Test(markets[m], fold)[k] = markets[m][TestStart(fold) + k]
         /\ TestStart(fold) + k \in 1 .. Length
         /\ Test(markets[m], fold)[k] \in Bars
<1> DEFINE start == TestStart(fold)
<1>1. start \in Nat /\ TestSize \in Nat \ {0} /\ Length \in Nat /\ start + TestSize <= Length
  BY Sizes
<1>2. Test(markets[m], fold) = SubSeq(markets[m], start + 1, start + TestSize)
  BY DEF Test
<1> HIDE DEF start
<1>3. \A i \in (start + 1) .. (start + TestSize) : markets[m][i] \in Bars
  <2> SUFFICES ASSUME NEW i \in (start + 1) .. (start + TestSize) PROVE markets[m][i] \in Bars
    OBVIOUS
  <2>1. i \in 1 .. Length
    BY <1>1
  <2>2. QED
    BY <2>1 DEF FoldInv
<1>4. \A i \in 1 .. (start + TestSize) - (start + 1) + 1 :
        Test(markets[m], fold)[i] = markets[m][(start + 1) + i - 1]
  BY <1>1, <1>2, <1>3, SubSeqProperties
<1>5. /\ k \in 1 .. (start + TestSize) - (start + 1) + 1 /\ (start + 1) + k - 1 = start + k
      /\ start + k \in (start + 1) .. (start + TestSize) /\ start + k \in 1 .. Length
  BY <1>1
<1>6. QED
  BY <1>3, <1>4, <1>5 DEF start

\* What the two markets share makes the same train part ...
LEMMA SameTrain ==
  ASSUME FoldInv, NEW n \in Nat \ {0}, TestStart(n) \in Nat, TestStart(n) >= TrainSize,
         TestStart(n) <= shared, TestStart(n) <= Length
  PROVE  Train(markets[1], n) = Train(markets[2], n)
<1> DEFINE from == IF plan.expanding THEN 1 ELSE TestStart(n) - TrainSize + 1
<1>1. from \in Int /\ from >= 1
  BY SizesAssumption
<1>2. Train(markets[1], n) = SubSeq(markets[1], from, TestStart(n))
      /\ Train(markets[2], n) = SubSeq(markets[2], from, TestStart(n))
  BY DEF Train
<1> HIDE DEF from
<1>3. \A k \in from .. TestStart(n) : markets[1][k] \in Bars /\ markets[1][k] = markets[2][k]
  <2> SUFFICES ASSUME NEW k \in from .. TestStart(n)
               PROVE  markets[1][k] \in Bars /\ markets[1][k] = markets[2][k]
    OBVIOUS
  <2>1. k \in 1 .. shared /\ k \in 1 .. Length
    BY <1>1, Sizes DEF FoldInv
  <2>2. 1 \in Market
    BY DEF Market
  <2>3. QED
    BY <2>1, <2>2 DEF FoldInv
<1>4. QED
  BY <1>1, <1>2, <1>3, SameParts

\* ... and shows the strategies the same bars.
LEMMA SameSeen ==
  ASSUME FoldInv, done < TestSize, TestStart(fold) + done + 1 <= shared
  PROVE  /\ Seen(markets[1]) = Seen(markets[2])
         /\ Test(markets[1], fold)[done + 1] = Test(markets[2], fold)[done + 1]
<1>1. 1 \in Market /\ 2 \in Market
  BY DEF Market
<1>2. /\ done \in Nat /\ TestStart(fold) \in Nat /\ TestSize \in Nat \ {0}
      /\ TestStart(fold) + TestSize <= Length /\ Length \in Nat /\ fold \in Nat \ {0}
      /\ TestStart(fold) >= TrainSize /\ shared \in Nat
  BY Sizes DEF FoldInv
<1>3. Train(markets[1], fold) = Train(markets[2], fold)
  BY <1>2, SameTrain, SizesAssumption
<1>4. ASSUME NEW k \in 1 .. done + 1
      PROVE  /\ Test(markets[1], fold)[k] = Test(markets[2], fold)[k]
             /\ Test(markets[1], fold)[k] \in Bars
  <2>1. k \in 1 .. TestSize /\ TestStart(fold) + k \in 1 .. shared
    BY <1>2
  <2>2. QED
    BY <1>1, <2>1, TestBar DEF FoldInv
<1>5. SubSeq(Test(markets[1], fold), 1, done + 1) = SubSeq(Test(markets[2], fold), 1, done + 1)
  BY <1>2, <1>4, SameParts
<1>6. done + 1 \in 1 .. done + 1
  BY <1>2
<1>7. QED
  BY <1>3, <1>4, <1>5, <1>6 DEF Seen

\* The window under way is always one of the market.
LEMMA FoldStep ==
  ASSUME FoldInv, [Next]_vars PROVE FoldInv'
<1>1. CASE ProcessBar
  <2>1. /\ done' = done + 1 /\ done < TestSize
        /\ UNCHANGED <<strategy, plan, markets, shared, fold>>
    BY <1>1 DEF ProcessBar
  <2>2. done' \in 0 .. TestSize
    BY <2>1, SizesAssumption DEF FoldInv
  <2>3. Windows' = Windows
    BY <2>1 DEF Windows, TestStart
  <2>4. QED
    BY <2>1, <2>2, <2>3 DEF FoldInv
<1>2. CASE NextFold
  <2>1. /\ done' = 0 /\ fold' = fold + 1 /\ fold + 1 \in Windows
        /\ UNCHANGED <<strategy, plan, markets, shared>>
    BY <1>2 DEF NextFold
  <2>2. 0 \in 0 .. TestSize
    BY SizesAssumption
  <2>3. Windows' = Windows
    BY <2>1 DEF Windows, TestStart
  <2>4. QED
    BY <2>1, <2>2, <2>3 DEF FoldInv
<1>3. CASE UNCHANGED vars
  BY <1>3 DEF vars, FoldInv, Windows, TestStart
<1>4. QED
  BY <1>1, <1>2, <1>3 DEF Next

\* The first window lies in the markets.
LEMMA FoldInit ==
  ASSUME Init PROVE FoldInv
<1>1. /\ strategy \in Strategies /\ plan \in Plans /\ fold = 1 /\ done = 0
      /\ shared \in TrainSize .. (Length - 1)
  BY DEF Init
<1>2. TrainSize \in Nat \ {0} /\ TestSize \in Nat \ {0} /\ Length \in Nat
      /\ TrainSize + TestSize <= Length /\ plan.step \in Nat
  BY <1>1, SizesAssumption
<1>3. TestStart(1) = TrainSize
  BY <1>2 DEF TestStart
<1>4. fold \in Windows
  BY <1>1, <1>2, <1>3 DEF Windows
<1>5. PICK market \in [1 .. Length -> Bars] : markets = MarketsOf(market, shared)
  BY DEF Init
<1> DEFINE other == [k \in 1 .. Length |-> IF k <= shared THEN market[k] ELSE Changed(market[k])]
<1>6. other \in [1 .. Length -> Bars] /\ \A k \in 1 .. shared : other[k] = market[k]
  <2>1. \A k \in 1 .. Length : market[k] \in Bars /\ Changed(market[k]) \in Bars
    BY ConfigAssumption
  <2>2. \A k \in 1 .. shared : k \in 1 .. Length /\ k <= shared
    BY <1>1, <1>2
  <2>3. QED
    BY <2>1, <2>2
<1>7. markets[1] = market /\ markets[2] = other
  BY <1>5 DEF MarketsOf
<1> HIDE DEF other
<1>8. ASSUME NEW s \in [1 .. Length -> Bars] PROVE s \in Seq(Bars) /\ Len(s) = Length
  BY <1>2
<1>9. \A m \in Market : markets[m] \in Seq(Bars) /\ Len(markets[m]) = Length
  BY <1>6, <1>7, <1>8 DEF Market
<1>10. QED
  BY <1>1, <1>2, <1>4, <1>6, <1>7, <1>9 DEF FoldInv

\* What every window does with its first decision.
LEMMA SameStart ==
  ASSUME FoldInv, NEW n \in Windows, TestStart(n) <= shared
  PROVE  StartOf(n, markets[1]) = StartOf(n, markets[2])
<1>1. /\ TrainSize \in Nat \ {0} /\ TestSize \in Nat \ {0} /\ Length \in Nat
      /\ plan.step \in Nat \ {0} /\ n \in Nat \ {0} /\ TestStart(n) + TestSize <= Length
  BY SizesAssumption DEF FoldInv, Windows
<1>2. TestStart(n) \in Nat /\ TestStart(n) >= TrainSize
  <2>1. n - 1 \in Nat
    BY <1>1
  <2>2. (n - 1) * plan.step \in Nat
    BY <1>1, <2>1
  <2> DEFINE x == (n - 1) * plan.step
  <2>3. TestStart(n) = TrainSize + x /\ x \in Nat
    BY <2>2 DEF TestStart
  <2> HIDE DEF x
  <2>4. QED
    BY <1>1, <2>3
<1>3. TestStart(n) <= Length
  BY <1>1, <1>2
<1>4. Train(markets[1], n) = Train(markets[2], n)
  BY <1>1, <1>2, <1>3, SameTrain
<1>5. QED
  BY <1>4 DEF StartOf

\* A bar that the two markets share is processed alike.
LEMMA LookStep ==
  ASSUME FoldInv, NoLookAhead, [Next]_vars PROVE NoLookAhead'
<1>1. CASE ProcessBar
  <2>1. /\ done' = done + 1 /\ done < TestSize
        /\ UNCHANGED <<strategy, plan, markets, shared, fold>>
    BY <1>1 DEF ProcessBar
  <2>2. TestStart(fold)' = TestStart(fold)
    BY <2>1 DEF TestStart
  <2> SUFFICES ASSUME TestStart(fold) + (done + 1) <= shared PROVE runs'[1] = runs'[2]
    BY <2>1, <2>2 DEF NoLookAhead
  <2>3. done \in Nat /\ TestStart(fold) \in Nat /\ shared \in Nat /\ TestSize \in Nat
    BY Sizes DEF FoldInv
  <2>4. TestStart(fold) + done <= shared /\ TestStart(fold) + done + 1 <= shared
    BY <2>3
  <2>5. runs[1] = runs[2]
    BY <2>4 DEF NoLookAhead
  <2>6. /\ Seen(markets[1]) = Seen(markets[2])
        /\ Test(markets[1], fold)[done + 1] = Test(markets[2], fold)[done + 1]
    BY <2>1, <2>4, SameSeen
  <2>7. OnBar(runs[1], markets[1]) = OnBar(runs[2], markets[2])
    BY <2>5, <2>6 DEF OnBar
  <2> DEFINE next(m) == IF runs[m].over THEN runs[m] ELSE OnBar(runs[m], markets[m])
             after(m) == IF done + 1 = TestSize THEN AtEnd(next(m), markets[m]) ELSE next(m)
  <2>8. next(1) = next(2)
    BY <2>5, <2>7
  <2>9. after(1) = after(2)
    <3>1. CASE done + 1 = TestSize
      <4>1. Test(markets[1], fold)[TestSize] = Test(markets[2], fold)[TestSize]
        BY <2>6, <3>1
      <4> HIDE DEF next
      <4>2. AtEnd(next(1), markets[1]) = AtEnd(next(2), markets[2])
        BY <2>8, <4>1 DEF AtEnd
      <4>3. QED
        BY <3>1, <4>2
    <3>2. CASE done + 1 # TestSize
      BY <2>8, <3>2
    <3>3. QED
      BY <3>1, <3>2
  <2>10. runs' = [m \in Market |-> after(m)]
    BY <1>1 DEF ProcessBar
  <2> HIDE DEF after, next
  <2>11. QED
    BY <2>9, <2>10 DEF Market
<1>2. CASE NextFold
  <2>1. /\ done' = 0 /\ fold' = fold + 1 /\ fold + 1 \in Windows
        /\ runs' = [m \in Market |-> StartOf(fold + 1, markets[m])]
        /\ UNCHANGED <<strategy, plan, markets, shared>>
    BY <1>2 DEF NextFold
  <2>2. TestStart(fold)' = TestStart(fold + 1)
    BY <2>1 DEF TestStart
  <2>3. TestStart(fold + 1) \in Int
    BY Sizes DEF TestStart
  <2> SUFFICES ASSUME TestStart(fold + 1) <= shared PROVE runs'[1] = runs'[2]
    BY <2>1, <2>2, <2>3 DEF NoLookAhead
  <2>4. StartOf(fold + 1, markets[1]) = StartOf(fold + 1, markets[2])
    BY <2>1, SameStart
  <2>5. QED
    BY <2>1, <2>4 DEF Market
<1>3. CASE UNCHANGED vars
  BY <1>3 DEF vars, NoLookAhead, TestStart
<1>4. QED
  BY <1>1, <1>2, <1>3 DEF Next

\* No strategy, whatever its decisions, and no fill, liquidation or point of the curve
\* depends on a bar that has not been processed.
THEOREM NoPeeking == Spec => []NoLookAhead
<1>1. ASSUME Init PROVE NoLookAhead
  <2>1. /\ FoldInv /\ fold = 1 /\ done = 0 /\ fold \in Windows
        /\ runs = [m \in Market |-> StartOf(1, markets[m])]
    BY <1>1, FoldInit DEF Init, FoldInv
  <2>2. TestStart(fold) \in Nat
    BY <2>1, Sizes
  <2> SUFFICES ASSUME TestStart(fold) <= shared PROVE runs[1] = runs[2]
    BY <2>1, <2>2 DEF NoLookAhead
  <2>3. StartOf(1, markets[1]) = StartOf(1, markets[2])
    BY <2>1, SameStart
  <2>4. QED
    BY <2>1, <2>3 DEF Market
<1>2. QED
  BY <1>1, FoldInit, FoldStep, LookStep, PTL DEF Spec
-----------------------------------------------------------------------------
Fill == [side : {"BUY", "SELL"}, quantity : Int, price : Int, reference : Int]

Run == [cash : Int, quantity : Int, target : Int, pending : SUBSET Int,
        entry : [price : Int, fee : Int], pnl : Int, executions : Seq(Fill),
        curve : Seq(Int), over : BOOLEAN]

\* What the trades of a run leave of the initial cash.
Explained(run) == Capital + run.pnl - run.quantity * run.entry.price - run.entry.fee

\* Without a position there is no entry.
NoEntryWhenFlat(run) == run.quantity = 0 => run.entry = NoEntry

\* The cash is explained, and an account that is given up is flat.
Accounted(run) ==
  /\ run \in Run /\ NoEntryWhenFlat(run)
  /\ ~run.over => run.cash = Explained(run)
  /\ run.over => /\ run.quantity = 0
                 /\ run.cash = Explained(run) \/ (run.cash = 0 /\ Explained(run) < 0)

RunInv == runs \in [Market -> Run] /\ \A m \in Market : Accounted(runs[m])

\* A bar has prices.
LEMMA BarTypes ==
  ASSUME NEW bar \in Bars
  PROVE  /\ bar.open \in Nat \ {0} /\ bar.high \in Nat \ {0}
         /\ bar.low \in Nat \ {0} /\ bar.close \in Nat \ {0}
         /\ bar.low <= bar.open /\ bar.low <= bar.close
         /\ bar.open <= bar.high /\ bar.close <= bar.high
         /\ Times(bar.open, Scale - Slip) > 0
  BY ConfigAssumption DEF ValidBar, Lower, Higher

\* The rates are numbers.
LEMMA RateTypes ==
  /\ Scale \in Nat \ {0} /\ Capital \in Nat \ {0} /\ Fee \in Nat /\ Fee < Scale
  /\ Slip \in Nat /\ Slip < Scale
  /\ Scale + Fee \in Nat \ {0} /\ Scale - Fee \in Nat \ {0}
  /\ Scale + Slip \in Nat \ {0} /\ Scale - Slip \in Nat \ {0}
  BY ConfigAssumption, ScaleAssumption DEF ValidConfig

\* A rounded quotient differs from the exact one by at most half.
LEMMA QuotientBound ==
  ASSUME NEW a \in Int, NEW b \in Nat \ {0}
  PROVE  /\ Quotient(a, b) \in Int
         /\ 2 * a - b <= 2 * (Quotient(a, b) * b) /\ 2 * (Quotient(a, b) * b) <= 2 * a + b
<1> DEFINE floor == a \div b
           rest == a % b
<1>1. floor \in Int /\ rest \in 0 .. (b - 1) /\ a = b * floor + rest
  OBVIOUS
<1>2. \/ Quotient(a, b) = floor /\ 2 * rest <= b
      \/ Quotient(a, b) = floor + 1 /\ 2 * rest >= b
  BY <1>1 DEF Quotient
<1> HIDE DEF floor, rest
<1>3. floor * b = a - rest /\ (floor + 1) * b = a - rest + b
  BY <1>1
<1>4. QED
  BY <1>1, <1>2, <1>3

\* So does a rounded product with a rate.
LEMMA TimesBound ==
  ASSUME NEW amount \in Int, NEW ratio \in Int
  PROVE  /\ Times(amount, ratio) \in Int
         /\ 2 * (amount * ratio) - Scale <= 2 * (Times(amount, ratio) * Scale)
         /\ 2 * (Times(amount, ratio) * Scale) <= 2 * (amount * ratio) + Scale
<1> DEFINE product == amount * ratio
<1>1. product \in Int /\ Times(amount, ratio) = Quotient(product, Scale)
  BY DEF Times
<1> HIDE DEF product
<1>2. QED
  BY <1>1, QuotientBound, ScaleAssumption DEF product

\* A fill has a price.
LEMMA FillType ==
  ASSUME NEW reference \in Int, NEW side PROVE FillPrice(reference, side) \in Int
<1>1. Scale + Slip \in Int /\ Scale - Slip \in Int
  BY RateTypes
<1>2. QED
  BY <1>1, TimesBound DEF FillPrice

\* An opening is filled at a price, even the lower one of a sale.
LEMMA OpenFill ==
  ASSUME NEW bar \in Bars, NEW side PROVE FillPrice(bar.open, side) \in Nat \ {0}
<1>1. bar.open \in Nat \ {0} /\ Times(bar.open, Scale - Slip) > 0
  BY BarTypes
<1>2. FillPrice(bar.open, side) \in Int
  BY <1>1, FillType
<1>3. Times(bar.open, Scale + Slip) > 0
  <2> DEFINE ratio == Scale + Slip
             t == Times(bar.open, ratio)
             x == bar.open * ratio
  <2>0. ratio \in Int /\ bar.open \in Int /\ x \in Int
    BY <1>1, RateTypes
  <2> HIDE DEF ratio
  <2>1. t \in Int /\ 2 * x - Scale <= 2 * (t * Scale) /\ x \in Int
    <3>1. PICK o \in Int : o = bar.open
      BY <2>0
    <3>2. Times(o, ratio) \in Int /\ 2 * (o * ratio) - Scale <= 2 * (Times(o, ratio) * Scale)
      BY <2>0, TimesBound
    <3>3. QED
      BY <2>0, <3>1, <3>2
  <2>2. x >= Scale
    <3>1. bar.open * Scale >= Scale /\ bar.open * Slip >= 0
      BY <1>1, RateTypes
    <3>2. x = bar.open * Scale + bar.open * Slip
      BY <1>1, RateTypes DEF ratio
    <3> HIDE DEF x
    <3>3. bar.open * Scale \in Int /\ bar.open * Slip \in Int
      BY <1>1, RateTypes
    <3>4. QED
      BY <2>1, <3>1, <3>2, <3>3, RateTypes
  <2> HIDE DEF t, x
  <2>3. t * Scale > 0
    BY <2>1, <2>2, RateTypes
  <2>4. t > 0
    BY <2>1, <2>3, RateTypes
  <2>5. QED
    BY <2>4 DEF t, ratio
<1>4. QED
  BY <1>1, <1>2, <1>3 DEF FillPrice

\* A fill makes a run of a run.
LEMMA RunAfter ==
  ASSUME NEW run \in Run, NEW cash \in Int, NEW quantity \in Int,
         NEW entry \in [price : Int, fee : Int], NEW pnl \in Int, NEW executions \in Seq(Fill)
  PROVE  [run EXCEPT !.cash = cash, !.quantity = quantity, !.entry = entry, !.pnl = pnl,
                     !.executions = executions] \in Run
  BY DEF Run

\* Closing books the price and what it costs, and reports the same as a result.
LEMMA ClosedAccount ==
  ASSUME NEW run \in Run, NEW reference \in Int
  PROVE  LET after == Closed(run, reference)
         IN  /\ after \in Run /\ after.quantity = 0 /\ after.entry = NoEntry
             /\ after.cash - Explained(after) = run.cash - Explained(run)
             /\ after.target = run.target /\ after.pending = run.pending
             /\ after.curve = run.curve /\ after.over = run.over
<1> DEFINE side == IF run.quantity > 0 THEN "SELL" ELSE "BUY"
           price == FillPrice(reference, side)
           size == Distance(run.quantity, 0)
           fee == Times(size * price, Fee)
           paid == run.quantity * price
           taken == run.quantity * run.entry.price
           after == Closed(run, reference)
<1>1. /\ run.cash \in Int /\ run.quantity \in Int /\ run.pnl \in Int
      /\ run.entry.price \in Int /\ run.entry.fee \in Int /\ run.executions \in Seq(Fill)
  BY DEF Run
<1>2. side \in {"BUY", "SELL"} /\ price \in Int /\ size \in Int
  BY <1>1, FillType DEF Distance
<1> HIDE DEF side, price, size
<1>3. fee \in Int /\ paid \in Int /\ taken \in Int
  <2>1. size * price \in Int /\ Fee \in Int /\ paid \in Int /\ taken \in Int
    <3>1. size * price \in Int
      BY <1>2
    <3>2. paid \in Int
      BY <1>1, <1>2
    <3>3. taken \in Int
      BY <1>1
    <3>4. QED
      BY <3>1, <3>2, <3>3, RateTypes
  <2> DEFINE x == size * price
  <2> HIDE DEF x, paid, taken
  <2>2. Times(x, Fee) \in Int
    BY <2>1, TimesBound DEF x
  <2>3. QED
    BY <2>1, <2>2 DEF x
<1>4. run.quantity * (price - run.entry.price) = paid - taken
  BY <1>1, <1>2
<1>5. Executed(run, side, size, price, reference) \in Seq(Fill)
  BY <1>1, <1>2 DEF Executed, Fill
<1>6. after = [run EXCEPT
        !.cash = run.cash + paid - fee, !.quantity = 0, !.entry = NoEntry,
        !.pnl = run.pnl + (paid - taken) - run.entry.fee - fee,
        !.executions = Executed(run, side, size, price, reference)]
  BY <1>4 DEF Closed, side, price, size
<1> HIDE DEF fee, paid, taken, after
<1>7. /\ after.cash = run.cash + paid - fee /\ after.quantity = 0 /\ after.entry = NoEntry
      /\ after.pnl = run.pnl + (paid - taken) - run.entry.fee - fee
      /\ after.target = run.target /\ after.pending = run.pending
      /\ after.curve = run.curve /\ after.over = run.over
  BY <1>6 DEF Run
<1>8. after \in Run
  <2>1. NoEntry \in [price : Int, fee : Int]
    BY DEF NoEntry
  <2>2. /\ run.cash + paid - fee \in Int
        /\ run.pnl + (paid - taken) - run.entry.fee - fee \in Int
    BY <1>1, <1>3
  <2> DEFINE cash == run.cash + paid - fee
             pnl == run.pnl + (paid - taken) - run.entry.fee - fee
             executions == Executed(run, side, size, price, reference)
             quantity == 0
             entry == NoEntry
  <2>3. after = [run EXCEPT !.cash = cash, !.quantity = quantity, !.entry = entry, !.pnl = pnl,
                            !.executions = executions]
    BY <1>6
  <2>4. /\ cash \in Int /\ pnl \in Int /\ executions \in Seq(Fill) /\ quantity \in Int
        /\ entry \in [price : Int, fee : Int]
    BY <1>5, <2>1, <2>2
  <2> HIDE DEF cash, pnl, executions, quantity, entry
  <2>5. QED
    BY <2>3, <2>4, RunAfter
<1>9. after.cash - Explained(after) = run.cash - Explained(run)
  <2>1. after.quantity * after.entry.price = 0 /\ after.entry.fee = 0
    BY <1>7 DEF NoEntry
  <2>2. Explained(after) = Capital + after.pnl
    <3>1. after.pnl \in Int
      BY <1>8 DEF Run
    <3>2. QED
      BY <2>1, <3>1, RateTypes DEF Explained
  <2>3. Explained(run) = Capital + run.pnl - taken - run.entry.fee
    BY DEF Explained, taken
  <2>4. /\ after.cash = run.cash + paid - fee
        /\ after.pnl = run.pnl + (paid - taken) - run.entry.fee - fee
    BY <1>7
  <2>5. PICK c \in Int, p \in Int, e \in Int, k \in Int, a \in Int, b \in Int, f \in Int :
          /\ c = run.cash /\ p = run.pnl /\ e = run.entry.fee /\ k = Capital
          /\ a = paid /\ b = taken /\ f = fee
    BY <1>1, <1>3, RateTypes
  <2>6. (c + a - f) - (k + (p + (a - b) - e - f)) = c - (k + p - b - e)
    OBVIOUS
  <2>7. QED
    BY <2>2, <2>3, <2>4, <2>5, <2>6
<1>10. QED
  BY <1>7, <1>8, <1>9 DEF after

\* Opening takes from the cash what the position is worth at its entry, and the fee.
LEMMA OpenedAccount ==
  ASSUME NEW run \in Run, run.quantity = 0, run.entry = NoEntry, NEW reference \in Int,
         NEW target \in Int, \A side : FillPrice(reference, side) \in Nat \ {0}
  PROVE  LET after == Opened(run, reference, target)
         IN  /\ after \in Run /\ after.quantity # 0
             /\ after.cash - Explained(after) = run.cash - Explained(run)
             /\ after.target = run.target /\ after.pending = run.pending
             /\ after.curve = run.curve /\ after.over = run.over
<1> DEFINE side == IF target > 0 THEN "BUY" ELSE "SELL"
           price == FillPrice(reference, side)
           worth == run.cash * Distance(target, 0) * Scale
           notional == Quotient(worth, Scale + Fee)
           size == Higher(1, Quotient(notional, price))
           signed == IF target > 0 THEN size ELSE -size
           fee == Times(notional, Fee)
           after == Opened(run, reference, target)
<1>1. /\ run.cash \in Int /\ run.pnl \in Int /\ run.executions \in Seq(Fill)
  BY DEF Run
<1>2. side \in {"BUY", "SELL"} /\ price \in Nat \ {0}
  OBVIOUS
<1> HIDE DEF side, price
<1>3. worth \in Int
  <2>1. Distance(target, 0) \in Int
    BY DEF Distance
  <2>2. QED
    BY <1>1, <2>1, RateTypes
<1> HIDE DEF worth
<1>4. notional \in Int
  BY <1>3, QuotientBound, RateTypes
<1> HIDE DEF notional
<1>5. size \in Int /\ size >= 1 /\ fee \in Int
  <2>1. Fee \in Int
    BY RateTypes
  <2>2. fee \in Int
    BY <1>4, <2>1, TimesBound
  <2>3. size \in Int /\ size >= 1
    <3> DEFINE q == Quotient(notional, price)
    <3>1. q \in Int
      BY <1>2, <1>4, QuotientBound
    <3> HIDE DEF q
    <3>2. QED
      BY <3>1 DEF Higher, q
  <2>4. QED
    BY <2>2, <2>3
<1>6. signed \in Int /\ signed * price \in Int /\ signed # 0
  BY <1>2, <1>5
<1>7. Executed(run, side, size, price, reference) \in Seq(Fill)
  BY <1>1, <1>2, <1>5 DEF Executed, Fill
<1>8. after = [run EXCEPT
        !.cash = run.cash - (signed * price + fee),
        !.quantity = signed, !.entry = [price |-> price, fee |-> fee],
        !.executions = Executed(run, side, size, price, reference)]
  BY DEF Opened, side, price, worth, notional
<1> HIDE DEF fee, size, signed, after
<1>9. /\ after.cash = run.cash - (signed * price + fee) /\ after.quantity = signed
      /\ after.entry = [price |-> price, fee |-> fee] /\ after.pnl = run.pnl
      /\ after.target = run.target /\ after.pending = run.pending
      /\ after.curve = run.curve /\ after.over = run.over
  BY <1>8 DEF Run
<1>10. after \in Run
  <2>1. [price |-> price, fee |-> fee] \in [price : Int, fee : Int]
    BY <1>2, <1>5
  <2>2. run.cash - (signed * price + fee) \in Int
    BY <1>1, <1>5, <1>6
  <2>3. run.pnl \in Int /\ signed \in Int
    BY <1>1, <1>6
  <2>4. after = [run EXCEPT
          !.cash = run.cash - (signed * price + fee), !.quantity = signed,
          !.entry = [price |-> price, fee |-> fee], !.pnl = run.pnl,
          !.executions = Executed(run, side, size, price, reference)]
    BY <1>8 DEF Run
  <2> DEFINE cash == run.cash - (signed * price + fee)
             entry == [price |-> price, fee |-> fee]
             executions == Executed(run, side, size, price, reference)
             pnl == run.pnl
  <2>5. after = [run EXCEPT !.cash = cash, !.quantity = signed, !.entry = entry, !.pnl = pnl,
                            !.executions = executions]
    BY <2>4
  <2>6. /\ cash \in Int /\ pnl \in Int /\ executions \in Seq(Fill)
        /\ entry \in [price : Int, fee : Int]
    BY <1>7, <2>1, <2>2, <2>3
  <2> HIDE DEF cash, entry, executions, pnl
  <2>7. QED
    BY <2>3, <2>5, <2>6, RunAfter
<1>11. after.cash - Explained(after) = run.cash - Explained(run)
  <2>1. run.quantity * run.entry.price = 0 /\ run.entry.fee = 0
    BY DEF NoEntry
  <2>2. Explained(run) = Capital + run.pnl
    BY <1>1, <2>1, RateTypes DEF Explained
  <2>3. Explained(after) = Capital + run.pnl - signed * price - fee
    BY <1>9 DEF Explained
  <2> DEFINE held == signed * price
  <2> HIDE DEF held
  <2>4. after.cash = run.cash - (held + fee) /\ Explained(after) = Capital + run.pnl - held - fee
        /\ held \in Int
    BY <1>6, <1>9, <2>3 DEF held
  <2>5. QED
    BY <1>1, <1>5, <2>2, <2>4, RateTypes
<1>12. QED
  BY <1>6, <1>9, <1>10, <1>11 DEF after

\* What is left of the cash when all is explained does not change with a decision.
LEMMA TransitionAccount ==
  ASSUME NEW run \in Run, NoEntryWhenFlat(run), NEW reference \in Int, NEW target \in Int,
         target = 0 \/ \A side : FillPrice(reference, side) \in Nat \ {0}
  PROVE  LET after == Transition(run, reference, target)
         IN  /\ after \in Run /\ NoEntryWhenFlat(after)
             /\ target = 0 => after.quantity = 0
             /\ after.cash - Explained(after) = run.cash - Explained(run)
             /\ after.target = run.target /\ after.pending = run.pending
             /\ after.curve = run.curve /\ after.over = run.over
<1> DEFINE flat == IF run.quantity # 0 THEN Closed(run, reference) ELSE run
           after == Transition(run, reference, target)
<1>1. /\ flat \in Run /\ flat.quantity = 0 /\ flat.entry = NoEntry
      /\ flat.cash - Explained(flat) = run.cash - Explained(run)
      /\ flat.target = run.target /\ flat.pending = run.pending
      /\ flat.curve = run.curve /\ flat.over = run.over
  BY ClosedAccount DEF NoEntryWhenFlat
<1>2. after = IF target # 0 /\ flat.cash > 0 THEN Opened(flat, reference, target) ELSE flat
  BY DEF Transition
<1> HIDE DEF flat, after
<1>3. CASE target # 0 /\ flat.cash > 0
  <2>1. after = Opened(flat, reference, target)
    BY <1>2, <1>3
  <2>2. QED
    BY <1>1, <1>3, <2>1, OpenedAccount DEF NoEntryWhenFlat, after
<1>4. CASE ~(target # 0 /\ flat.cash > 0)
  BY <1>1, <1>2, <1>4 DEF NoEntryWhenFlat, after
<1>5. QED
  BY <1>3, <1>4

\* Neither does it at the open of a bar.
LEMMA OpenAccount ==
  ASSUME NEW run \in Run, NoEntryWhenFlat(run), NEW bar \in Bars
  PROVE  LET after == AtOpen(run, bar)
         IN  /\ after \in Run /\ NoEntryWhenFlat(after)
             /\ after.cash - Explained(after) = run.cash - Explained(run)
             /\ after.curve = run.curve /\ after.over = run.over
<1> DEFINE after == AtOpen(run, bar)
<1>1. CASE run.pending \subseteq {run.target}
  <2>1. after = [run EXCEPT !.pending = {}]
    BY <1>1 DEF AtOpen
  <2>2. /\ after \in Run /\ after.cash = run.cash /\ after.quantity = run.quantity
        /\ after.entry = run.entry /\ after.pnl = run.pnl
        /\ after.curve = run.curve /\ after.over = run.over
    BY <2>1 DEF Run
  <2> HIDE DEF after
  <2>3. QED
    BY <2>2 DEF Explained, NoEntryWhenFlat, after
<1>2. CASE ~(run.pending \subseteq {run.target})
  <2> DEFINE chosen == CHOOSE target \in run.pending : TRUE
             made == Transition(run, bar.open, chosen)
  <2>1. chosen \in Int
    <3>1. chosen \in run.pending
      BY <1>2
    <3>2. QED
      BY <3>1 DEF Run
  <2> HIDE DEF chosen
  <2>2. bar.open \in Int /\ \A side : FillPrice(bar.open, side) \in Nat \ {0}
    BY BarTypes, OpenFill
  <2>3. /\ made \in Run /\ NoEntryWhenFlat(made)
        /\ made.cash - Explained(made) = run.cash - Explained(run)
        /\ made.curve = run.curve /\ made.over = run.over
    BY <2>1, <2>2, TransitionAccount
  <2>4. after = [made EXCEPT !.target = chosen, !.pending = {}]
    BY <1>2 DEF AtOpen, chosen
  <2> HIDE DEF made, after
  <2>5. /\ after \in Run /\ after.cash = made.cash /\ after.quantity = made.quantity
        /\ after.entry = made.entry /\ after.pnl = made.pnl
        /\ after.curve = made.curve /\ after.over = made.over
    BY <2>1, <2>3, <2>4 DEF Run
  <2>6. QED
    BY <2>3, <2>5 DEF Explained, NoEntryWhenFlat, after
<1>3. QED
  BY <1>1, <1>2

\* A decision is a number, whatever the strategy has computed.
LEMMA SignalType ==
  ASSUME strategy \in Strategies, NEW seen, NEW current \in Int
  PROVE  Signal(seen, current) \subseteq Int
<1>1. strategy.exposure \in Int /\ -strategy.exposure \in Int /\ 0 \in Int
  BY ConfigAssumption DEF ValidStrategy
<1>2. \A closes : TrendTarget(closes) \in {strategy.exposure, 0}
  BY DEF TrendTarget
<1>3. \A closes : ReversionTarget(closes, current)
                     \in {strategy.exposure, -strategy.exposure, 0, current}
  <2> SUFFICES ASSUME NEW closes
               PROVE  ReversionTarget(closes, current)
                        \in {strategy.exposure, -strategy.exposure, 0, current}
    OBVIOUS
  <2> DEFINE values == Newest(closes, strategy.long)
             away == strategy.long * values[strategy.long] - Total(values)
             spread == strategy.long * Total([k \in 1 .. strategy.long |-> values[k] * values[k]])
                         - Total(values) * Total(values)
             beyond(z) == 100 * away * away >= z * z * spread
             within(z) == 100 * away * away <= z * z * spread
             result ==
               CASE spread = 0 -> 0
                 [] spread # 0 /\ away < 0 /\ beyond(strategy.entry_z) -> strategy.exposure
                 [] spread # 0 /\ away > 0 /\ beyond(strategy.entry_z) -> -strategy.exposure
                 [] spread # 0 /\ within(strategy.exit_z) -> 0
                 [] OTHER -> current
  <2>1. ReversionTarget(closes, current) = result
    BY DEF ReversionTarget
  <2> HIDE DEF away, spread, beyond, within
  <2>2. result \in {strategy.exposure, -strategy.exposure, 0, current}
    OBVIOUS
  <2>3. QED
    BY <2>1, <2>2
<1>4. strategy.kind \in {"hold", "trend", "reversion"}
  BY ConfigAssumption DEF ValidStrategy
<1>5. QED
  <2> DEFINE closes == [k \in 1 .. Len(seen) |-> seen[k].close]
             short == Len(seen) < strategy.long
             trend == TrendTarget(closes)
             reversion == ReversionTarget(closes, current)
             target == CASE strategy.kind = "hold" -> strategy.exposure
                         [] short -> current
                         [] strategy.kind = "trend" -> trend
                         [] strategy.kind = "reversion" -> reversion
  <2>1. Signal(seen, current) = {target} \ {current}
    BY DEF Signal
  <2>2. trend \in Int /\ reversion \in Int
    BY <1>1, <1>2, <1>3
  <2> HIDE DEF short, trend, reversion
  <2>3. target \in Int
    BY <1>1, <1>4, <2>2
  <2>4. QED
    BY <2>1, <2>3

\* An account that is given up keeps what it has, or waives what it owes.
LEMMA EndedAccount ==
  ASSUME FoldInv, NEW run \in Run, NoEntryWhenFlat(run), run.quantity = 0,
         run.cash = Explained(run), NEW cash \in Int,
         cash = run.cash \/ (cash = 0 /\ run.cash < 0)
  PROVE  LET after == Ended(run, cash)
         IN  Accounted(after) /\ after.over /\ after.cash = cash
<1> DEFINE after == Ended(run, cash)
           rest == [k \in 1 .. (TestSize - done) |-> cash]
           curve == run.curve \o rest
<1>1. TestSize - done \in Nat
  BY SizesAssumption DEF FoldInv
<1>2. rest \in Seq(Int)
  BY <1>1
<1>3. curve \in Seq(Int)
  <2> HIDE DEF rest
  <2>1. run.curve \in Seq(Int)
    BY DEF Run
  <2>2. QED
    BY <1>2, <2>1, ConcatProperties
<1>4. after = [run EXCEPT !.cash = cash, !.target = 0, !.over = TRUE, !.curve = curve]
  BY DEF Ended
<1> HIDE DEF rest, curve, after
<1>5. /\ after \in Run /\ after.cash = cash /\ after.quantity = run.quantity
      /\ after.entry = run.entry /\ after.pnl = run.pnl /\ after.over = TRUE
  BY <1>3, <1>4 DEF Run
<1>6. Explained(after) = Explained(run)
  BY <1>5 DEF Explained
<1>7. QED
  BY <1>5, <1>6 DEF Accounted, NoEntryWhenFlat, after

\* A liquidation has a price.
LEMMA LiquidationType ==
  ASSUME NEW run \in Run, NEW bar \in Bars, NEW p \in LiquidationReference(run, bar)
  PROVE  p \in Int
<1>1. run.cash \in Int /\ run.quantity \in Int /\ bar.open \in Int
  BY BarTypes DEF Run
<1>2. CASE run.quantity > 0
  <2> DEFINE a == -run.cash * Scale
             b == run.quantity * (Scale - Fee)
  <2>1. a \in Int /\ b \in Nat \ {0}
    <3>1. PICK q \in Nat \ {0} : q = run.quantity
      BY <1>1, <1>2
    <3>2. PICK c \in Nat \ {0} : c = Scale - Fee
      BY RateTypes
    <3>3. q * c \in Nat \ {0}
      OBVIOUS
    <3>4. QED
      BY <1>1, <3>1, <3>2, <3>3, RateTypes
  <2>2. p = Lower(Quotient(a, b), bar.open)
    BY <1>1, <1>2 DEF LiquidationReference
  <2> HIDE DEF a, b
  <2>3. QED
    BY <1>1, <2>1, <2>2, QuotientBound DEF Lower
<1>3. CASE run.quantity < 0
  <2> DEFINE a == run.cash * Scale
             b == (-run.quantity) * (Scale + Fee)
  <2>1. a \in Int /\ b \in Nat \ {0}
    <3>1. PICK q \in Nat \ {0} : q = -run.quantity
      BY <1>1, <1>3
    <3>2. PICK c \in Nat \ {0} : c = Scale + Fee
      BY RateTypes
    <3>3. q * c \in Nat \ {0}
      OBVIOUS
    <3>4. QED
      BY <1>1, <3>1, <3>2, <3>3, RateTypes
  <2>2. p = Higher(Quotient(a, b), bar.open)
    BY <1>1, <1>3 DEF LiquidationReference
  <2> HIDE DEF a, b
  <2>3. QED
    BY <1>1, <2>1, <2>2, QuotientBound DEF Higher
<1>4. CASE run.quantity = 0
  BY <1>1, <1>4 DEF LiquidationReference
<1>5. QED
  BY <1>1, <1>2, <1>3, <1>4

\* A bar leaves the cash explained, with or without a liquidation.
LEMMA BarAccount ==
  ASSUME FoldInv, done < TestSize, NEW m \in Market, NEW run, Accounted(run), ~run.over
  PROVE  Accounted(OnBar(run, markets[m]))
<1> DEFINE bar == Test(markets[m], fold)[done + 1]
           opened == AtOpen(run, bar)
           after == OnBar(run, markets[m])
<1>1. bar \in Bars
  <2>1. done + 1 \in 1 .. TestSize
    BY SizesAssumption DEF FoldInv
  <2>2. QED
    BY <2>1, TestBar
<1> HIDE DEF bar
<1>2. run \in Run /\ NoEntryWhenFlat(run) /\ run.cash = Explained(run)
  BY DEF Accounted
<1>3. /\ opened \in Run /\ NoEntryWhenFlat(opened)
      /\ opened.cash - Explained(opened) = run.cash - Explained(run)
      /\ opened.curve = run.curve /\ opened.over = run.over
  BY <1>1, <1>2, OpenAccount
<1>4. \A r \in Run : Explained(r) \in Int /\ r.cash \in Int
  <2> SUFFICES ASSUME NEW r \in Run PROVE Explained(r) \in Int /\ r.cash \in Int
    OBVIOUS
  <2>1. /\ r.cash \in Int /\ r.quantity \in Int /\ r.pnl \in Int
        /\ r.entry.price \in Int /\ r.entry.fee \in Int
    BY DEF Run
  <2>2. r.quantity * r.entry.price \in Int
    BY <2>1
  <2>3. QED
    BY <2>1, <2>2, RateTypes DEF Explained
<1>5. opened.cash = Explained(opened) /\ ~opened.over
  BY <1>2, <1>3, <1>4
<1>6. after =
        IF opened.quantity = 0 /\ opened.cash <= 0
          THEN Ended(opened, 0)
        ELSE IF LiquidationReference(opened, bar) # {}
          THEN LET liquidated ==
                     Closed(opened, CHOOSE p \in LiquidationReference(opened, bar) : TRUE)
               IN  Ended(liquidated, Higher(0, liquidated.cash))
        ELSE [opened EXCEPT !.curve = Append(@, opened.cash + opened.quantity * bar.close),
                            !.pending = Signal(Seen(markets[m]), opened.target)]
  BY DEF OnBar, bar
<1> HIDE DEF opened, after
<1>7. CASE opened.quantity = 0 /\ opened.cash <= 0
  <2>1. opened.cash \in Int /\ (0 = opened.cash \/ (0 = 0 /\ opened.cash < 0))
    BY <1>3, <1>4, <1>7
  <2>2. after = Ended(opened, 0)
    BY <1>6, <1>7
  <2>3. QED
    BY <1>3, <1>5, <1>7, <2>1, <2>2, EndedAccount DEF after
<1>8. CASE ~(opened.quantity = 0 /\ opened.cash <= 0) /\ LiquidationReference(opened, bar) # {}
  <2> DEFINE p == CHOOSE p \in LiquidationReference(opened, bar) : TRUE
             liquidated == Closed(opened, p)
             cash == Higher(0, liquidated.cash)
  <2>1. p \in Int
    <3>1. p \in LiquidationReference(opened, bar)
      BY <1>8
    <3>2. QED
      BY <1>1, <1>3, <3>1, LiquidationType
  <2>2. after = Ended(liquidated, cash)
    BY <1>6, <1>8
  <2> HIDE DEF p
  <2>3. /\ liquidated \in Run /\ liquidated.quantity = 0 /\ liquidated.entry = NoEntry
        /\ liquidated.cash - Explained(liquidated) = opened.cash - Explained(opened)
    BY <1>3, <2>1, ClosedAccount
  <2> HIDE DEF liquidated
  <2>4. liquidated.cash \in Int /\ liquidated.cash = Explained(liquidated)
    BY <1>3, <1>4, <1>5, <2>3
  <2>5. cash \in Int /\ (cash = liquidated.cash \/ (cash = 0 /\ liquidated.cash < 0))
    BY <2>4 DEF Higher
  <2> HIDE DEF cash
  <2>6. QED
    BY <2>2, <2>3, <2>4, <2>5, EndedAccount DEF NoEntryWhenFlat, after
<1>9. CASE ~(opened.quantity = 0 /\ opened.cash <= 0) /\ LiquidationReference(opened, bar) = {}
  <2> DEFINE point == opened.cash + opened.quantity * bar.close
             decided == Signal(Seen(markets[m]), opened.target)
  <2>1. after = [opened EXCEPT !.curve = Append(opened.curve, point), !.pending = decided]
    BY <1>6, <1>9
  <2>2. point \in Int
    <3>1. opened.cash \in Int /\ opened.quantity \in Int /\ bar.close \in Int
      BY <1>1, <1>3, BarTypes DEF Run
    <3>2. opened.quantity * bar.close \in Int
      BY <3>1
    <3>3. QED
      BY <3>1, <3>2
  <2>3. decided \subseteq Int
    <3>1. opened.target \in Int
      BY <1>3 DEF Run
    <3>2. QED
      BY <3>1, SignalType DEF FoldInv
  <2> HIDE DEF point, decided
  <2>4. Append(opened.curve, point) \in Seq(Int)
    BY <1>3, <2>2 DEF Run
  <2>5. /\ after \in Run /\ after.cash = opened.cash /\ after.quantity = opened.quantity
        /\ after.entry = opened.entry /\ after.pnl = opened.pnl /\ after.over = opened.over
    BY <1>3, <2>1, <2>3, <2>4 DEF Run
  <2>6. Explained(after) = Explained(opened)
    BY <2>5 DEF Explained
  <2>7. QED
    BY <1>3, <1>5, <2>5, <2>6 DEF Accounted, NoEntryWhenFlat, after
<1>10. QED
  BY <1>7, <1>8, <1>9

\* So does the end of a window, where a position that is left is closed.
LEMMA EndAccount ==
  ASSUME FoldInv, NEW m \in Market, NEW run, Accounted(run)
  PROVE  Accounted(AtEnd(run, markets[m]))
<1> DEFINE bar == Test(markets[m], fold)[TestSize]
           closed == Transition(run, bar.close, 0)
           after == AtEnd(run, markets[m])
<1>1. CASE run.quantity = 0
  BY <1>1 DEF AtEnd
<1>2. CASE run.quantity # 0
  <2>1. bar.close \in Int
    <3>1. TestSize \in 1 .. TestSize
      BY SizesAssumption
    <3>2. bar \in Bars
      BY <3>1, TestBar
    <3>3. QED
      BY <3>2, BarTypes
  <2>2. run \in Run /\ NoEntryWhenFlat(run) /\ run.cash = Explained(run) /\ ~run.over
    BY <1>2 DEF Accounted
  <2>3. after = [closed EXCEPT !.curve = [closed.curve EXCEPT ![TestSize] = closed.cash]]
    BY <1>2 DEF AtEnd
  <2> HIDE DEF bar
  <2>4. /\ closed \in Run /\ NoEntryWhenFlat(closed)
        /\ closed.cash - Explained(closed) = run.cash - Explained(run)
        /\ closed.over = run.over
    BY <2>1, <2>2, TransitionAccount
  <2> HIDE DEF closed, after
  <2>5. [closed.curve EXCEPT ![TestSize] = closed.cash] \in Seq(Int)
    <3>1. PICK n \in Nat : closed.curve \in [1 .. n -> Int]
      BY <2>4 DEF Run
    <3>2. closed.cash \in Int
      BY <2>4 DEF Run
    <3>3. [closed.curve EXCEPT ![TestSize] = closed.cash] \in [1 .. n -> Int]
      BY <3>1, <3>2
    <3>4. QED
      BY <3>3, SeqDef
  <2>6. /\ after \in Run /\ after.cash = closed.cash /\ after.quantity = closed.quantity
        /\ after.entry = closed.entry /\ after.pnl = closed.pnl /\ after.over = closed.over
    BY <2>3, <2>4, <2>5 DEF Run
  <2>7. Explained(after) = Explained(closed)
    BY <2>6 DEF Explained
  <2>8. Explained(closed) \in Int /\ closed.cash \in Int /\ run.cash \in Int
    <3>1. /\ closed.cash \in Int /\ closed.quantity \in Int /\ closed.pnl \in Int
          /\ closed.entry.price \in Int /\ closed.entry.fee \in Int /\ run.cash \in Int
      BY <2>2, <2>4 DEF Run
    <3>2. closed.quantity * closed.entry.price \in Int
      BY <3>1
    <3>3. QED
      BY <3>1, <3>2, RateTypes DEF Explained
  <2>9. closed.cash = Explained(closed)
    BY <2>2, <2>4, <2>8
  <2>10. QED
    BY <2>2, <2>4, <2>6, <2>7, <2>9 DEF Accounted, NoEntryWhenFlat, after
<1>3. QED
  BY <1>1, <1>2

\* A window begins with the initial cash.
LEMMA StartAccount ==
  ASSUME FoldInv, NEW n, NEW m \in Market
  PROVE  /\ Accounted(StartOf(n, markets[m]))
         /\ StartOf(n, markets[m]).curve = <<>> /\ ~StartOf(n, markets[m]).over
         /\ StartOf(n, markets[m]).quantity = 0
<1> DEFINE decided == Signal(Train(markets[m], n), 0)
           start == StartOf(n, markets[m])
<1>1. decided \subseteq Int
  BY SignalType DEF FoldInv
<1> DEFINE fresh == FreshRun
<1>2. /\ fresh.cash = Capital /\ fresh.quantity = 0 /\ fresh.entry = NoEntry /\ fresh.pnl = 0
      /\ fresh.curve = <<>> /\ fresh.over = FALSE /\ fresh \in Run
  <2>1. NoEntry \in [price : Int, fee : Int] /\ <<>> \in Seq(Fill) /\ <<>> \in Seq(Int)
    BY DEF NoEntry
  <2>2. QED
    BY <2>1, RateTypes DEF Run, FreshRun
<1> HIDE DEF fresh, decided
<1>3. /\ start.cash = Capital /\ start.quantity = 0 /\ start.entry = NoEntry /\ start.pnl = 0
      /\ start.curve = <<>> /\ start.over = FALSE /\ start \in Run
  <2>1. start = [fresh EXCEPT !.pending = decided]
    BY DEF StartOf, decided, fresh
  <2> HIDE DEF start
  <2>2. QED
    BY <1>1, <1>2, <2>1 DEF Run
<1> HIDE DEF start
<1>4. Explained(start) = Capital
  BY <1>3, RateTypes DEF Explained, NoEntry
<1>5. QED
  BY <1>3, <1>4, RateTypes DEF Accounted, NoEntryWhenFlat, start

\* Every step leaves the cash explained.
LEMMA RunStep ==
  ASSUME FoldInv, RunInv, [Next]_vars PROVE RunInv'
<1>1. CASE ProcessBar
  <2> DEFINE next(m) == IF runs[m].over THEN runs[m] ELSE OnBar(runs[m], markets[m])
             after(m) == IF done + 1 = TestSize THEN AtEnd(next(m), markets[m]) ELSE next(m)
  <2>1. runs' = [m \in Market |-> after(m)] /\ done < TestSize
    BY <1>1 DEF ProcessBar
  <2>2. ASSUME NEW m \in Market PROVE Accounted(after(m))
    <3>1. Accounted(runs[m])
      BY DEF RunInv
    <3>2. Accounted(next(m))
      BY <2>1, <3>1, BarAccount
    <3> HIDE DEF next
    <3>3. QED
      BY <3>2, EndAccount
  <2> HIDE DEF after
  <2>3. \A m \in Market : after(m) \in Run
    BY <2>2 DEF Accounted
  <2>4. QED
    BY <2>1, <2>2, <2>3 DEF RunInv, Accounted, Explained, NoEntryWhenFlat
<1>2. CASE NextFold
  <2>1. runs' = [m \in Market |-> StartOf(fold + 1, markets[m])]
    BY <1>2 DEF NextFold
  <2>2. \A m \in Market : Accounted(StartOf(fold + 1, markets[m]))
    BY StartAccount
  <2>3. \A m \in Market : StartOf(fold + 1, markets[m]) \in Run
    BY <2>2 DEF Accounted
  <2>4. QED
    BY <2>1, <2>2, <2>3 DEF RunInv, Accounted, Explained, NoEntryWhenFlat
<1>3. CASE UNCHANGED vars
  BY <1>3 DEF vars, RunInv, Accounted, Explained, NoEntryWhenFlat
<1>4. QED
  BY <1>1, <1>2, <1>3 DEF Next

\* It is explained when a market is begun with.
LEMMA RunInit ==
  ASSUME Init PROVE RunInv
<1>1. FoldInv /\ runs = [m \in Market |-> StartOf(1, markets[m])]
  BY FoldInit DEF Init
<1>2. \A m \in Market : Accounted(StartOf(1, markets[m]))
  BY <1>1, StartAccount
<1>3. QED
  BY <1>1, <1>2 DEF RunInv, Accounted

\* For any bars, strategies, windows and costs, the cash is the initial one with the
\* results of the trades, less what the open position has taken, unless a debt is waived.
THEOREM ResultsExplained == Spec => []TradesExplainCash
<1>1. RunInv => TradesExplainCash
  BY DEF RunInv, Accounted, Explained, TradesExplainCash
<1>2. QED
  BY <1>1, FoldInit, FoldStep, RunInit, RunStep, PTL DEF Spec
-----------------------------------------------------------------------------
(* The debts: a position is liquidated while it can be closed *)

\* The fee is at most half of what is traded; BacktestConfig's is a thousandth.  With a
\* greater one, a coarse grid may round the proceeds of a SHORT below its fee.
FeeAtMostHalf == 2 * Fee <= Scale

\* A multiple of Scale tells how large the number is.
LEMMA ScaledOrder ==
  ASSUME NEW a \in Int, NEW b \in Int, NEW k \in Int, a * Scale <= b * Scale + k, k < Scale
  PROVE  a <= b
<1> SUFFICES ASSUME a >= b + 1 PROVE FALSE
  OBVIOUS
<1>1. a * Scale >= (b + 1) * Scale
  BY RateTypes
<1>2. (b + 1) * Scale = b * Scale + Scale
  BY RateTypes
<1> DEFINE x == a * Scale
           y == b * Scale
<1>3. x \in Int /\ y \in Int /\ x >= y + Scale /\ x <= y + k
  BY <1>1, <1>2, RateTypes
<1> HIDE DEF x, y
<1>4. QED
  BY <1>3, RateTypes

\* With what a SHORT is sold for there is cash, whatever is rounded.
LEMMA ShortProceeds ==
  ASSUME FeeAtMostHalf, NEW n \in Nat, NEW p \in Nat \ {0}, NEW c \in Nat \ {0}
  PROVE  c + Higher(1, Quotient(n, p)) * p - Times(n, Fee) > 0
<1> DEFINE q == Quotient(n, p)
           size == Higher(1, q)
           v == size * p
           f == Times(n, Fee)
<1>1. q \in Int /\ 2 * n - p <= 2 * (q * p)
  BY QuotientBound
<1>2. f \in Int /\ 2 * (f * Scale) <= 2 * (n * Fee) + Scale
  BY TimesBound, RateTypes
<1> HIDE DEF q, f
<1>3. v \in Int /\ 3 * v >= 2 * n /\ v >= 0
  <2>1. CASE q >= 1
    <3>1. v = q * p /\ q * p >= p
      BY <1>1, <2>1 DEF Higher
    <3> DEFINE x == q * p
    <3> HIDE DEF x, v
    <3>2. v = x /\ x >= p /\ 2 * n - p <= 2 * x /\ x \in Int
      BY <1>1, <3>1 DEF x
    <3>3. QED
      BY <3>2
  <2>2. CASE q <= 0
    <3>1. v = p
      <4>1. size = 1
        BY <1>1, <2>2 DEF Higher
      <4>2. QED
        BY <4>1
    <3>2. q * p <= 0
      BY <1>1, <2>2
    <3> DEFINE x == q * p
    <3> HIDE DEF x, v
    <3>3. 2 * n - p <= 2 * x /\ x <= 0 /\ x \in Int
      BY <1>1, <3>2 DEF x
    <3>4. QED
      BY <3>1, <3>3
  <2>3. QED
    BY <1>1, <2>1, <2>2
<1> HIDE DEF v
<1>4. 2 * f <= n + 1
  <2>1. 2 * (n * Fee) <= n * Scale
    <3>1. n * (2 * Fee) <= n * Scale
      <4>1. PICK h \in Nat : h = 2 * Fee /\ h <= Scale
        BY RateTypes DEF FeeAtMostHalf
      <4>2. n * h <= n * Scale
        BY <4>1, RateTypes
      <4>3. QED
        BY <4>1, <4>2
    <3>2. n * (2 * Fee) = 2 * (n * Fee)
      BY RateTypes
    <3>3. QED
      BY <3>1, <3>2
  <2>2. (2 * f) * Scale = 2 * (f * Scale) /\ (n + 1) * Scale = n * Scale + Scale
    BY <1>2, RateTypes
  <2> DEFINE x == n * Scale
             y == n * Fee
             z == f * Scale
  <2>3. x \in Int /\ y \in Int /\ z \in Int /\ 2 * z <= 2 * y + Scale /\ 2 * y <= x
    BY <1>2, <2>1, RateTypes
  <2> HIDE DEF x, y, z
  <2>4. 2 * z <= x + Scale
    BY <2>3, RateTypes
  <2>5. (2 * f) * Scale <= (n + 1) * Scale + 0
    BY <2>2, <2>3, <2>4, RateTypes DEF x, z
  <2>6. 2 * f \in Int /\ n + 1 \in Int /\ 0 < Scale
    BY <1>2, RateTypes
  <2>7. QED
    BY <2>5, <2>6, ScaledOrder
<1>5. QED
  BY <1>2, <1>3, <1>4 DEF v, size, q, f

\* A LONG that can be closed at a price, fee included, is worth no less than nothing there.
LEMMA LongWorth ==
  ASSUME NEW c \in Int, NEW q \in Nat, NEW x \in Nat, -(c * Scale) <= (x * q) * (Scale - Fee)
  PROVE  c + q * x >= 0
<1> DEFINE v == x * q
<1>1. v \in Nat /\ q * x = v
  OBVIOUS
<1> HIDE DEF v
<1>2. v * (Scale - Fee) = v * Scale - v * Fee /\ v * Fee \in Nat /\ v * Scale \in Int
  BY <1>1, RateTypes
<1>3. (c + v) * Scale = c * Scale + v * Scale /\ c * Scale \in Int
  BY <1>1, RateTypes
<1> DEFINE a == c * Scale
           b == v * Scale
           d == v * Fee
<1>4. a \in Int /\ b \in Int /\ d \in Nat /\ -a <= b - d
  BY <1>2, <1>3 DEF v
<1> HIDE DEF a, b, d
<1>5. 0 * Scale <= (c + v) * Scale + 0
  <2>1. (c + v) * Scale = a + b /\ 0 * Scale = 0
    BY <1>3, RateTypes DEF a, b
  <2>2. QED
    BY <1>4, <2>1
<1>6. QED
  BY <1>1, <1>5, ScaledOrder, RateTypes

\* So is a SHORT.
LEMMA ShortWorth ==
  ASSUME NEW c \in Int, NEW q \in Nat, NEW x \in Nat, (x * q) * (Scale + Fee) <= c * Scale
  PROVE  c - q * x >= 0
<1> DEFINE v == x * q
<1>1. v \in Nat /\ q * x = v
  OBVIOUS
<1> HIDE DEF v
<1>2. v * (Scale + Fee) = v * Scale + v * Fee /\ v * Fee \in Nat /\ v * Scale \in Int
  BY <1>1, RateTypes
<1>3. c * Scale \in Int
  BY RateTypes
<1> DEFINE a == c * Scale
           b == v * Scale
           d == v * Fee
<1>4. a \in Int /\ b \in Int /\ d \in Nat /\ b + d <= a
  BY <1>2, <1>3 DEF v
<1> HIDE DEF a, b, d
<1>5. v * Scale <= c * Scale + 0
  BY <1>4 DEF a, b
<1>6. v <= c
  BY <1>1, <1>5, ScaledOrder, RateTypes
<1>7. QED
  BY <1>1, <1>6

\* What the close of a LONG leaves to pay is the slippage.
LEMMA LongExit ==
  ASSUME NEW c \in Int, NEW q \in Nat, NEW x \in Nat, -(c * Scale) <= (x * q) * (Scale - Fee)
  PROVE  LET p == Times(x, Scale - Slip)
             slipped == q * Distance(p, x)
         IN  -(c + q * p - Times(q * p, Fee)) <= slipped + Times(slipped, Fee) + 1
<1> DEFINE p == Times(x, Scale - Slip)
           v == x * q
           w == q * p
           s == q * Distance(p, x)
           f == Times(w, Fee)
           g == Times(s, Fee)
<1>1. p \in Int /\ p <= x
  <2> DEFINE k == x * (Scale - Slip)
             y == x * Scale
  <2>1. p \in Int /\ 2 * (p * Scale) <= 2 * k + Scale /\ k \in Int
    BY TimesBound, RateTypes
  <2>2. k <= y /\ y \in Int
    BY RateTypes
  <2> HIDE DEF p, k
  <2>3. (2 * p) * Scale = 2 * (p * Scale) /\ (2 * x + 1) * Scale = 2 * y + Scale
    BY <2>1, RateTypes
  <2> HIDE DEF y
  <2>4. (2 * p) * Scale <= (2 * x + 1) * Scale + 0
    <3> DEFINE z == p * Scale
    <3>1. z \in Int
      BY <2>1, RateTypes
    <3> HIDE DEF z
    <3>2. (2 * p) * Scale = 2 * z /\ 2 * z <= 2 * k + Scale
      BY <2>1, <2>3 DEF z
    <3>3. QED
      BY <2>1, <2>2, <2>3, <3>1, <3>2, RateTypes
  <2>5. 2 * p <= 2 * x + 1
    BY <2>1, <2>4, ScaledOrder, RateTypes
  <2>6. QED
    BY <2>1, <2>5
<1> HIDE DEF p
<1>2. s = v - w /\ v \in Nat /\ w \in Int /\ s \in Nat
  <2>1. Distance(p, x) = x - p
    BY <1>1 DEF Distance
  <2>2. q * (x - p) = v - w /\ q * (x - p) \in Nat /\ v \in Nat /\ w \in Int
    BY <1>1
  <2>3. QED
    BY <2>1, <2>2
<1> HIDE DEF s, v, w
<1>3. f \in Int /\ 2 * (f * Scale) <= 2 * (w * Fee) + Scale
  BY <1>2, TimesBound, RateTypes
<1>4. g \in Int /\ g >= 0
  <2>1. g \in Int /\ 2 * (s * Fee) - Scale <= 2 * (g * Scale)
    BY <1>2, TimesBound, RateTypes
  <2>2. s * Fee \in Nat
    BY <1>2, RateTypes
  <2> HIDE DEF g
  <2>3. 2 * (g * Scale) = (2 * g) * Scale /\ g * Scale \in Int
    BY <2>1, RateTypes
  <2>4. (-1) * Scale <= (2 * g) * Scale + 0
    <3> DEFINE z == g * Scale
               y == s * Fee
    <3> HIDE DEF z, y
    <3>1. (-1) * Scale = -Scale
      BY RateTypes
    <3>2. QED
      BY <2>1, <2>2, <2>3, <3>1, RateTypes DEF z, y
  <2>5. -1 <= 2 * g
    BY <2>1, <2>4, ScaledOrder, RateTypes
  <2>6. QED
    BY <2>1, <2>5
<1> HIDE DEF f, g
<1>5. 2 * (-(c + w - f)) <= 2 * s + 1
  <2>1. /\ v * (Scale - Fee) = v * Scale - v * Fee
        /\ s * Fee = v * Fee - w * Fee /\ s * Scale = v * Scale - w * Scale
        /\ (2 * (-(c + w - f))) * Scale = -2 * (c * Scale) - 2 * (w * Scale) + 2 * (f * Scale)
        /\ (2 * s + 1) * Scale = 2 * (s * Scale) + Scale
    BY <1>2, <1>3, RateTypes
  <2> DEFINE vS == v * Scale
             vF == v * Fee
             wS == w * Scale
             wF == w * Fee
             sS == s * Scale
             sF == s * Fee
             cS == c * Scale
             fS == f * Scale
  <2>2. /\ vS \in Int /\ vF \in Int /\ wS \in Int /\ wF \in Int /\ sS \in Int /\ sF \in Nat
        /\ cS \in Int /\ fS \in Int
    BY <1>2, <1>3, RateTypes
  <2>3. /\ -cS <= vS - vF /\ sF = vF - wF /\ sS = vS - wS /\ 2 * fS <= 2 * wF + Scale
    BY <1>3, <2>1 DEF v
  <2> DEFINE left == (2 * (-(c + w - f))) * Scale
             right == (2 * s + 1) * Scale
  <2>4. left = -2 * cS - 2 * wS + 2 * fS /\ right = 2 * sS + Scale
    BY <2>1
  <2> HIDE DEF vS, vF, wS, wF, sS, sF, cS, fS, left, right
  <2>5. left <= right + 0
    BY <2>2, <2>3, <2>4, RateTypes
  <2>6. 2 * (-(c + w - f)) \in Int /\ 2 * s + 1 \in Int /\ 0 < Scale
    BY <1>2, <1>3, RateTypes
  <2>7. QED
    BY <2>5, <2>6, ScaledOrder DEF left, right
<1>6. -(c + w - f) <= s
  BY <1>2, <1>3, <1>5
<1>7. -(c + w - f) <= s + g + 1
  BY <1>2, <1>3, <1>4, <1>6
<1>8. QED
  BY <1>7 DEF p, w, s, f, g

\* What the close of a SHORT leaves to pay is the slippage with its fee.
LEMMA ShortExit ==
  ASSUME NEW c \in Int, NEW q \in Nat, NEW x \in Nat, (x * q) * (Scale + Fee) <= c * Scale
  PROVE  LET p == Times(x, Scale + Slip)
             slipped == q * Distance(p, x)
         IN  -(c - q * p - Times(q * p, Fee)) <= slipped + Times(slipped, Fee) + 1
<1> DEFINE p == Times(x, Scale + Slip)
           v == x * q
           w == q * p
           s == q * Distance(p, x)
           f == Times(w, Fee)
           g == Times(s, Fee)
<1>1. p \in Int /\ p >= x
  <2> DEFINE k == x * (Scale + Slip)
             y == x * Scale
             z == p * Scale
  <2>1. p \in Int /\ 2 * k - Scale <= 2 * z /\ k \in Int
    BY TimesBound, RateTypes
  <2>2. k >= y /\ y \in Int
    <3>1. k = y + x * Slip /\ x * Slip \in Nat
      BY RateTypes
    <3>2. QED
      BY <3>1, RateTypes
  <2> HIDE DEF p, k
  <2>3. (2 * p) * Scale = 2 * z /\ (2 * x - 1) * Scale = 2 * y - Scale /\ z \in Int
    BY <2>1, RateTypes
  <2> HIDE DEF y, z
  <2>4. (2 * x - 1) * Scale <= (2 * p) * Scale + 0
    BY <2>1, <2>2, <2>3, RateTypes
  <2>5. 2 * x - 1 <= 2 * p
    BY <2>1, <2>4, ScaledOrder, RateTypes
  <2>6. QED
    BY <2>1, <2>5
<1> HIDE DEF p
<1>2. s = w - v /\ v \in Nat /\ w \in Int /\ s \in Nat
  <2>1. Distance(p, x) = p - x
    BY <1>1 DEF Distance
  <2>2. q * (p - x) = w - v /\ q * (p - x) \in Nat /\ v \in Nat /\ w \in Int
    BY <1>1
  <2>3. QED
    BY <2>1, <2>2
<1> HIDE DEF s, v, w
<1>3. /\ f \in Int /\ 2 * (f * Scale) <= 2 * (w * Fee) + Scale
      /\ g \in Int /\ 2 * (s * Fee) - Scale <= 2 * (g * Scale)
  BY <1>2, TimesBound, RateTypes
<1> HIDE DEF f, g
<1>4. 2 * (-(c - w - f)) <= 2 * (s + g + 1)
  <2>1. /\ v * (Scale + Fee) = v * Scale + v * Fee
        /\ s * Fee = w * Fee - v * Fee /\ s * Scale = w * Scale - v * Scale
        /\ (2 * (-(c - w - f))) * Scale = -2 * (c * Scale) + 2 * (w * Scale) + 2 * (f * Scale)
        /\ (2 * (s + g + 1)) * Scale = 2 * (s * Scale) + 2 * (g * Scale) + 2 * Scale
    BY <1>2, <1>3, RateTypes
  <2> DEFINE vS == v * Scale
             vF == v * Fee
             wS == w * Scale
             wF == w * Fee
             sS == s * Scale
             sF == s * Fee
             cS == c * Scale
             fS == f * Scale
             gS == g * Scale
  <2>2. /\ vS \in Int /\ vF \in Int /\ wS \in Int /\ wF \in Int /\ sS \in Int /\ sF \in Int
        /\ cS \in Int /\ fS \in Int /\ gS \in Int
    BY <1>2, <1>3, RateTypes
  <2>3. /\ vS + vF <= cS /\ sF = wF - vF /\ sS = wS - vS
        /\ 2 * fS <= 2 * wF + Scale /\ 2 * sF - Scale <= 2 * gS
    BY <1>3, <2>1 DEF v
  <2> DEFINE left == (2 * (-(c - w - f))) * Scale
             right == (2 * (s + g + 1)) * Scale
  <2>4. left = -2 * cS + 2 * wS + 2 * fS /\ right = 2 * sS + 2 * gS + 2 * Scale
    BY <2>1
  <2> HIDE DEF vS, vF, wS, wF, sS, sF, cS, fS, gS, left, right
  <2>5. left <= right + 0
    BY <2>2, <2>3, <2>4, RateTypes
  <2>6. 2 * (-(c - w - f)) \in Int /\ 2 * (s + g + 1) \in Int /\ 0 < Scale
    BY <1>2, <1>3, RateTypes
  <2>7. QED
    BY <2>5, <2>6, ScaledOrder DEF left, right
<1>5. -(c - w - f) <= s + g + 1
  BY <1>2, <1>3, <1>4
<1>6. QED
  BY <1>5 DEF p, w, s, f, g

\* Whoever is SHORT has the proceeds.
ShortHasCash(run) == run.quantity < 0 => run.cash > 0

\* The position can be closed at the price, fee included, without a debt.
Solvent(run, price) ==
  /\ run.quantity = 0 => run.cash >= 0
  /\ run.quantity > 0 => -(run.cash * Scale) <= (price * run.quantity) * (Scale - Fee)
  /\ run.quantity < 0 => (price * (-run.quantity)) * (Scale + Fee) <= run.cash * Scale

\* No point of the curve so far is a debt.
NoDebt(run) == \A k \in 1 .. Len(run.curve) : run.curve[k] >= 0

\* An opening leaves a SHORT with cash.
LEMMA OpenedCash ==
  ASSUME FeeAtMostHalf, NEW run \in Run, run.cash > 0, NEW reference \in Int,
         NEW target \in Int, target # 0, \A side : FillPrice(reference, side) \in Nat \ {0}
  PROVE  ShortHasCash(Opened(run, reference, target))
<1> DEFINE side == IF target > 0 THEN "BUY" ELSE "SELL"
           price == FillPrice(reference, side)
           worth == run.cash * Distance(target, 0) * Scale
           notional == Quotient(worth, Scale + Fee)
           size == Higher(1, Quotient(notional, price))
           signed == IF target > 0 THEN size ELSE -size
           fee == Times(notional, Fee)
           after == Opened(run, reference, target)
<1>1. run.cash \in Nat \ {0} /\ price \in Nat \ {0}
  BY DEF Run
<1>2. worth \in Nat
  <2>1. Distance(target, 0) \in Nat
    BY DEF Distance
  <2>2. run.cash * Distance(target, 0) \in Nat
    BY <1>1, <2>1
  <2>3. QED
    BY <2>2, RateTypes
<1>3. notional \in Nat
  <2> DEFINE b == Scale + Fee
             x == notional * b
  <2> HIDE DEF worth
  <2>1. b \in Nat \ {0} /\ notional \in Int /\ 2 * worth - b <= 2 * x
    BY <1>2, QuotientBound, RateTypes
  <2> HIDE DEF b, notional
  <2>2. CASE notional < 0
    <3>1. x <= -b
      BY <2>1, <2>2
    <3>2. x \in Int
      BY <2>1
    <3> HIDE DEF x
    <3>3. QED
      BY <1>2, <2>1, <3>1, <3>2
  <2>3. QED
    BY <2>1, <2>2 DEF notional, b
<1>4. after = [run EXCEPT
        !.cash = run.cash - (signed * price + fee),
        !.quantity = signed, !.entry = [price |-> price, fee |-> fee],
        !.executions = Executed(run, side, size, price, reference)]
  BY DEF Opened
<1> HIDE DEF side, price, worth, notional
<1>5. size \in Int /\ size >= 1 /\ fee \in Int
  <2>1. fee \in Int
    BY <1>3, RateTypes, TimesBound
  <2> DEFINE q == Quotient(notional, price)
  <2>2. q \in Int
    BY <1>1, <1>3, QuotientBound
  <2> HIDE DEF q
  <2>3. size \in Int /\ size >= 1
    BY <2>2 DEF Higher, q
  <2>4. QED
    BY <2>1, <2>3
<1>6. run.cash + size * price - fee > 0
  BY <1>1, <1>3, ShortProceeds
<1> HIDE DEF size, signed, fee, after
<1>7. after.cash = run.cash - (signed * price + fee) /\ after.quantity = signed
  BY <1>4 DEF Run
<1>8. CASE target > 0
  BY <1>5, <1>7, <1>8 DEF ShortHasCash, signed, after
<1>9. CASE ~(target > 0)
  <2>1. signed = -size
    BY <1>9 DEF signed
  <2>2. signed * price = -(size * price) /\ size * price \in Int
    BY <1>1, <1>5, <2>1
  <2> DEFINE x == size * price
  <2> HIDE DEF x
  <2>3. run.cash + x - fee > 0 /\ signed * price = -x /\ x \in Int
    BY <1>6, <2>2 DEF x
  <2>4. after.cash > 0
    BY <1>1, <1>5, <1>7, <2>3
  <2>5. QED
    BY <2>4 DEF ShortHasCash, after
<1>10. QED
  BY <1>8, <1>9

\* So does everything that happens at the open of a bar.
LEMMA OpenCash ==
  ASSUME FeeAtMostHalf, NEW run \in Run, ShortHasCash(run), NoEntryWhenFlat(run),
         NEW bar \in Bars
  PROVE  ShortHasCash(AtOpen(run, bar))
<1> DEFINE after == AtOpen(run, bar)
<1>1. CASE run.pending \subseteq {run.target}
  <2>1. after = [run EXCEPT !.pending = {}]
    BY <1>1 DEF AtOpen
  <2>2. after.cash = run.cash /\ after.quantity = run.quantity
    BY <2>1 DEF Run
  <2>3. QED
    BY <2>2 DEF ShortHasCash
<1>2. CASE ~(run.pending \subseteq {run.target})
  <2> DEFINE chosen == CHOOSE target \in run.pending : TRUE
             flat == IF run.quantity # 0 THEN Closed(run, bar.open) ELSE run
             made == Transition(run, bar.open, chosen)
  <2>1. chosen \in Int
    <3>1. chosen \in run.pending
      BY <1>2
    <3>2. QED
      BY <3>1 DEF Run
  <2>2. after = [made EXCEPT !.target = chosen, !.pending = {}]
    BY <1>2 DEF AtOpen
  <2> HIDE DEF chosen, after
  <2>3. bar.open \in Int /\ \A side : FillPrice(bar.open, side) \in Nat \ {0}
    BY BarTypes, OpenFill
  <2>4. flat \in Run /\ flat.quantity = 0 /\ flat.entry = NoEntry
    BY <2>3, ClosedAccount DEF NoEntryWhenFlat
  <2>5. made = IF chosen # 0 /\ flat.cash > 0 THEN Opened(flat, bar.open, chosen) ELSE flat
    BY DEF Transition
  <2> HIDE DEF flat, made
  <2>6. ShortHasCash(made)
    BY <2>1, <2>3, <2>4, <2>5, OpenedCash DEF ShortHasCash
  <2>7. made \in Run
    BY <2>1, <2>3, <2>4, <2>5, OpenedAccount
  <2>8. after.cash = made.cash /\ after.quantity = made.quantity
    BY <2>2, <2>7 DEF Run
  <2>10. QED
    BY <2>6, <2>8 DEF ShortHasCash, after
<1>3. QED
  BY <1>1, <1>2

\* An account that ends without a debt has none in its curve.
LEMMA EndedDebt ==
  ASSUME FoldInv, NEW run \in Run, run.quantity = 0, NoDebt(run), NEW cash \in Nat
  PROVE  LET after == Ended(run, cash)
         IN  ShortHasCash(after) /\ NoDebt(after) /\ after.over
<1> DEFINE after == Ended(run, cash)
           rest == [k \in 1 .. (TestSize - done) |-> cash]
           curve == run.curve \o rest
<1>1. after = [run EXCEPT !.cash = cash, !.target = 0, !.over = TRUE, !.curve = curve]
  BY DEF Ended
<1>2. TestSize - done \in Nat
  BY SizesAssumption DEF FoldInv
<1>3. \A k \in 1 .. Len(curve) : curve[k] >= 0
  <2>1. rest \in Seq(Nat) /\ Len(rest) = TestSize - done
    BY <1>2
  <2>2. run.curve \in Seq(Int)
    BY DEF Run
  <2> HIDE DEF rest
  <2>3. /\ Len(curve) = Len(run.curve) + Len(rest)
        /\ \A k \in 1 .. Len(curve) : curve[k] = IF k <= Len(run.curve) THEN run.curve[k]
                                                ELSE rest[k - Len(run.curve)]
    <3>1. rest \in Seq(Int)
      BY <2>1, <1>2, SeqDef
    <3>2. QED
      BY <2>2, <3>1, ConcatProperties
  <2> HIDE DEF curve
  <2>4. Len(run.curve) \in Nat /\ Len(rest) \in Nat
    BY <2>1, <2>2
  <2>5. ASSUME NEW k \in 1 .. Len(curve) PROVE curve[k] >= 0
    <3>1. CASE k <= Len(run.curve)
      BY <2>3, <2>4, <3>1 DEF NoDebt
    <3>2. CASE k > Len(run.curve)
      <4>1. k - Len(run.curve) \in 1 .. Len(rest)
        BY <2>3, <2>4, <3>2
      <4>2. rest[k - Len(run.curve)] \in Nat
        BY <2>1, <4>1
      <4>3. QED
        BY <2>3, <2>4, <3>2, <4>2
    <3>3. QED
      BY <2>3, <2>4, <3>1, <3>2
  <2>6. QED
    BY <2>5
<1> HIDE DEF curve, after
<1>4. after.quantity = 0 /\ after.curve = curve /\ after.over = TRUE
  BY <1>1 DEF Run
<1>5. QED
  BY <1>3, <1>4 DEF ShortHasCash, NoDebt, after

\* Where no liquidation price is crossed, the position can be closed at the close.
LEMMA NotLiquidated ==
  ASSUME NEW run \in Run, ShortHasCash(run), NEW bar \in Bars,
         ~(run.quantity = 0 /\ run.cash <= 0), LiquidationReference(run, bar) = {}
  PROVE  Solvent(run, bar.close)
<1>1. /\ run.cash \in Int /\ run.quantity \in Int
      /\ bar.low \in Nat /\ bar.high \in Nat /\ bar.close \in Nat
      /\ bar.low <= bar.close /\ bar.close <= bar.high
  BY BarTypes DEF Run
<1>2. CASE run.quantity > 0
  <2> DEFINE q == run.quantity
             k == Scale - Fee
             owed == -(run.cash * Scale)
             low == bar.low * q * k
             close == (bar.close * q) * k
  <2>1. q \in Nat /\ k \in Nat /\ owed \in Int
    BY <1>1, <1>2, RateTypes
  <2>2. low <= close /\ low \in Nat /\ close \in Nat
    <3>1. bar.low * q <= bar.close * q /\ bar.low * q \in Nat /\ bar.close * q \in Nat
      BY <1>1, <2>1
    <3>2. PICK a \in Nat, b \in Nat : a = bar.low * q /\ b = bar.close * q /\ a <= b
      BY <3>1
    <3>3. a * k <= b * k /\ a * k \in Nat /\ b * k \in Nat
      BY <2>1, <3>2
    <3>4. QED
      BY <3>2, <3>3
  <2>3. run.cash < 0 => ~(low <= owed)
    BY <1>2 DEF LiquidationReference
  <2>4. run.cash >= 0 => owed <= 0
    BY <1>1, RateTypes
  <2> HIDE DEF owed, low, close
  <2>5. owed <= close
    BY <1>1, <2>1, <2>2, <2>3, <2>4
  <2>6. QED
    BY <1>1, <1>2, <2>5 DEF Solvent, owed, close
<1>3. CASE run.quantity < 0
  <2> DEFINE q == -run.quantity
             k == Scale + Fee
             owned == run.cash * Scale
             high == bar.high * q * k
             close == (bar.close * q) * k
  <2>1. q \in Nat /\ k \in Nat /\ owned \in Int /\ run.cash > 0
    BY <1>1, <1>3, RateTypes DEF ShortHasCash
  <2> HIDE DEF q
  <2>2. close <= high /\ high \in Nat /\ close \in Nat
    <3>1. bar.close * q <= bar.high * q /\ bar.high * q \in Nat /\ bar.close * q \in Nat
      BY <1>1, <2>1
    <3>2. PICK a \in Nat, b \in Nat : a = bar.close * q /\ b = bar.high * q /\ a <= b
      BY <3>1
    <3>3. a * k <= b * k /\ a * k \in Nat /\ b * k \in Nat
      BY <2>1, <3>2
    <3>4. QED
      BY <3>2, <3>3
  <2>3. ~(high >= owned)
    BY <1>1, <1>3, <2>1 DEF LiquidationReference, q
  <2> HIDE DEF owned, high, close
  <2>4. close <= owned
    BY <2>1, <2>2, <2>3
  <2>5. QED
    BY <1>1, <1>3, <2>4 DEF Solvent, owned, close, q
<1>4. CASE run.quantity = 0
  BY <1>1, <1>4 DEF Solvent
<1>5. QED
  BY <1>1, <1>2, <1>3, <1>4

\* What can be closed without a debt is worth no less than nothing.
LEMMA SolventWorth ==
  ASSUME NEW run \in Run, NEW price \in Nat, Solvent(run, price)
  PROVE  run.cash + run.quantity * price >= 0
<1>1. PICK c \in Int, q \in Int : c = run.cash /\ q = run.quantity
  BY DEF Run
<1>2. CASE q > 0
  BY <1>1, <1>2, LongWorth DEF Solvent
<1>3. CASE q < 0
  <2>1. PICK s \in Nat : s = -q
    BY <1>3
  <2>2. c - s * price >= 0
    BY <1>1, <1>3, <2>1, ShortWorth DEF Solvent
  <2>3. q * price = -(s * price) /\ s * price \in Int
    BY <2>1
  <2>4. QED
    BY <1>1, <2>2, <2>3
<1>4. CASE q = 0
  BY <1>1, <1>4 DEF Solvent
<1>5. QED
  BY <1>2, <1>3, <1>4

\* A bar leaves no debt, and a position only if it can be closed at the close.
LEMMA BarDebt ==
  ASSUME FeeAtMostHalf, FoldInv, done < TestSize, NEW m \in Market,
         NEW run, Accounted(run), ~run.over, ShortHasCash(run), NoDebt(run)
  PROVE  LET after == OnBar(run, markets[m])
         IN  /\ ShortHasCash(after) /\ NoDebt(after)
             /\ ~after.over => Solvent(after, Test(markets[m], fold)[done + 1].close)
<1> DEFINE bar == Test(markets[m], fold)[done + 1]
           opened == AtOpen(run, bar)
           after == OnBar(run, markets[m])
<1>1. bar \in Bars
  <2>1. done + 1 \in 1 .. TestSize
    BY SizesAssumption DEF FoldInv
  <2>2. QED
    BY <2>1, TestBar
<1> HIDE DEF bar
<1>2. run \in Run /\ NoEntryWhenFlat(run)
  BY DEF Accounted
<1>3. /\ opened \in Run /\ NoEntryWhenFlat(opened) /\ ShortHasCash(opened)
      /\ opened.curve = run.curve /\ opened.over = run.over
  BY <1>1, <1>2, OpenAccount, OpenCash
<1>4. after =
        IF opened.quantity = 0 /\ opened.cash <= 0
          THEN Ended(opened, 0)
        ELSE IF LiquidationReference(opened, bar) # {}
          THEN LET liquidated ==
                     Closed(opened, CHOOSE p \in LiquidationReference(opened, bar) : TRUE)
               IN  Ended(liquidated, Higher(0, liquidated.cash))
        ELSE [opened EXCEPT !.curve = Append(@, opened.cash + opened.quantity * bar.close),
                            !.pending = Signal(Seen(markets[m]), opened.target)]
  BY DEF OnBar, bar
<1> HIDE DEF opened, after
<1>5. NoDebt(opened)
  BY <1>3 DEF NoDebt
<1>6. CASE opened.quantity = 0 /\ opened.cash <= 0
  <2>1. after = Ended(opened, 0)
    BY <1>4, <1>6
  <2>2. QED
    BY <1>3, <1>5, <1>6, <2>1, EndedDebt DEF after
<1>7. CASE ~(opened.quantity = 0 /\ opened.cash <= 0) /\ LiquidationReference(opened, bar) # {}
  <2> DEFINE p == CHOOSE p \in LiquidationReference(opened, bar) : TRUE
             liquidated == Closed(opened, p)
             cash == Higher(0, liquidated.cash)
  <2>1. p \in Int
    <3>1. p \in LiquidationReference(opened, bar)
      BY <1>7
    <3>2. QED
      BY <1>1, <1>3, <3>1, LiquidationType
  <2>2. after = Ended(liquidated, cash)
    BY <1>4, <1>7
  <2> HIDE DEF p
  <2>3. /\ liquidated \in Run /\ liquidated.quantity = 0 /\ liquidated.curve = opened.curve
    BY <1>3, <2>1, ClosedAccount
  <2> HIDE DEF liquidated
  <2>4. cash \in Nat
    <3>1. liquidated.cash \in Int
      BY <2>3 DEF Run
    <3>2. QED
      BY <3>1 DEF Higher
  <2>5. NoDebt(liquidated)
    BY <1>5, <2>3 DEF NoDebt
  <2> HIDE DEF cash
  <2>6. QED
    BY <2>2, <2>3, <2>4, <2>5, EndedDebt DEF after
<1>8. CASE ~(opened.quantity = 0 /\ opened.cash <= 0) /\ LiquidationReference(opened, bar) = {}
  <2> DEFINE point == opened.cash + opened.quantity * bar.close
             decided == Signal(Seen(markets[m]), opened.target)
  <2>1. after = [opened EXCEPT !.curve = Append(opened.curve, point), !.pending = decided]
    BY <1>4, <1>8
  <2>2. Solvent(opened, bar.close)
    BY <1>1, <1>3, <1>8, NotLiquidated
  <2>3. point \in Int /\ point >= 0
    <3>1. opened.cash \in Int /\ opened.quantity \in Int /\ bar.close \in Nat
      BY <1>1, <1>3, BarTypes DEF Run
    <3>2. opened.quantity * bar.close \in Int
      BY <3>1
    <3>3. opened.cash + opened.quantity * bar.close >= 0
      BY <1>3, <2>2, <3>1, SolventWorth
    <3>4. QED
      BY <3>1, <3>2, <3>3
  <2> HIDE DEF point, decided
  <2>4. opened.curve \in Seq(Int)
    BY <1>3 DEF Run
  <2>5. /\ after.cash = opened.cash /\ after.quantity = opened.quantity
        /\ after.curve = Append(opened.curve, point)
    BY <1>3, <2>1 DEF Run
  <2>6. NoDebt(after)
    <3> DEFINE curve == Append(opened.curve, point)
    <3>1. /\ Len(curve) = Len(opened.curve) + 1 /\ Len(opened.curve) \in Nat
          /\ curve[Len(opened.curve) + 1] = point
          /\ \A k \in 1 .. Len(opened.curve) : curve[k] = opened.curve[k]
      BY <2>3, <2>4, AppendProperties
    <3> HIDE DEF curve
    <3>2. ASSUME NEW k \in 1 .. Len(curve) PROVE curve[k] >= 0
      BY <1>5, <2>3, <3>1 DEF NoDebt
    <3>3. QED
      BY <2>5, <3>2 DEF NoDebt, curve
  <2>7. QED
    BY <1>3, <2>2, <2>5, <2>6 DEF ShortHasCash, Solvent, after, bar
<1>9. QED
  BY <1>6, <1>7, <1>8

\* What OwesAtMostSlippage says of one run.
OwesSlippage(run) ==
  \A k \in 1 .. Len(run.curve) :
    \/ run.curve[k] >= 0
    \/ /\ k = TestSize /\ ~run.over
       /\ LET exit == Last(run.executions)
              slipped == exit.quantity * Distance(exit.price, exit.reference)
          IN  -run.curve[k] <= slipped + Times(slipped, Fee) + 1

\* A close that was possible without a debt leaves to pay what the price slipped by.
LEMMA ClosedExit ==
  ASSUME NEW run \in Run, NEW reference \in Nat, run.quantity # 0, Solvent(run, reference)
  PROVE  LET after == Closed(run, reference)
             exit == Last(after.executions)
             slipped == exit.quantity * Distance(exit.price, exit.reference)
         IN  -after.cash <= slipped + Times(slipped, Fee) + 1
<1> DEFINE side == IF run.quantity > 0 THEN "SELL" ELSE "BUY"
           price == FillPrice(reference, side)
           size == Distance(run.quantity, 0)
           fee == Times(size * price, Fee)
           fill == [side |-> side, quantity |-> size, price |-> price, reference |-> reference]
           after == Closed(run, reference)
           exit == Last(after.executions)
           slipped == exit.quantity * Distance(exit.price, exit.reference)
<1>1. run.cash \in Int /\ run.quantity \in Int /\ run.executions \in Seq(Fill)
  BY DEF Run
<1>2. /\ after.cash = run.cash + run.quantity * price - fee
      /\ after.executions = Append(run.executions, fill)
  BY DEF Closed, Executed, Run
<1>3. exit = fill
  <2> HIDE DEF fill, after
  <2>1. Last(Append(run.executions, fill)) = fill
    BY <1>1 DEF Last
  <2>2. QED
    BY <1>2, <2>1
<1> HIDE DEF after, exit
<1>4. slipped = size * Distance(price, reference)
  BY <1>3
<1> HIDE DEF side, price, size, fee, slipped
<1>5. price \in Int
  BY FillType DEF price
<1>6. CASE run.quantity > 0
  <2>1. size = run.quantity /\ side = "SELL"
    BY <1>1, <1>6 DEF size, Distance, side
  <2>2. price = Times(reference, Scale - Slip)
    BY <2>1 DEF price, FillPrice
  <2>3. PICK c \in Int, q \in Nat : c = run.cash /\ q = run.quantity
    BY <1>1, <1>6
  <2>4. -(c * Scale) <= (reference * q) * (Scale - Fee)
    BY <1>6, <2>3 DEF Solvent
  <2>5. -(c + q * price - Times(q * price, Fee))
          <= q * Distance(price, reference) + Times(q * Distance(price, reference), Fee) + 1
    BY <2>2, <2>4, LongExit
  <2>6. fee = Times(q * price, Fee) /\ slipped = q * Distance(price, reference)
    BY <1>4, <2>1, <2>3 DEF fee
  <2>7. after.cash = c + q * price - fee
    BY <1>2, <2>3
  <2>8. QED
    BY <2>5, <2>6, <2>7 DEF slipped, exit, after
<1>7. CASE run.quantity < 0
  <2>1. size = -run.quantity /\ side = "BUY"
    BY <1>1, <1>7 DEF size, Distance, side
  <2>2. price = Times(reference, Scale + Slip)
    BY <2>1 DEF price, FillPrice
  <2>3. PICK c \in Int, q \in Nat : c = run.cash /\ q = -run.quantity
    BY <1>1, <1>7
  <2>4. (reference * q) * (Scale + Fee) <= c * Scale
    BY <1>7, <2>3 DEF Solvent
  <2>5. -(c - q * price - Times(q * price, Fee))
          <= q * Distance(price, reference) + Times(q * Distance(price, reference), Fee) + 1
    BY <2>2, <2>4, ShortExit
  <2>6. fee = Times(q * price, Fee) /\ slipped = q * Distance(price, reference)
    BY <1>4, <2>1, <2>3 DEF fee
  <2>7. after.cash = c - q * price - fee
    <3>1. run.quantity = -q
      BY <1>1, <2>3
    <3>2. run.quantity * price = -(q * price) /\ q * price \in Int
      BY <1>5, <3>1
    <3>3. after.cash = c + run.quantity * price - fee
      BY <1>2, <2>3
    <3>4. fee \in Int
      BY <2>6, <3>2, TimesBound, RateTypes
    <3>5. QED
      BY <3>2, <3>3, <3>4
  <2>8. QED
    BY <2>5, <2>6, <2>7 DEF slipped, exit, after
<1>8. QED
  BY <1>1, <1>6, <1>7

\* The end of a window takes the last point of the curve below zero by that at most.
LEMMA EndDebt ==
  ASSUME FoldInv, NEW m \in Market, NEW run, Accounted(run), ShortHasCash(run), NoDebt(run),
         ~run.over => Solvent(run, Test(markets[m], fold)[TestSize].close)
  PROVE  LET after == AtEnd(run, markets[m]) IN ShortHasCash(after) /\ OwesSlippage(after)
<1> DEFINE bar == Test(markets[m], fold)[TestSize]
           closed == Closed(run, bar.close)
           after == AtEnd(run, markets[m])
<1>1. CASE run.quantity = 0
  BY <1>1 DEF AtEnd, NoDebt, OwesSlippage
<1>2. CASE run.quantity # 0
  <2>1. bar.close \in Nat
    <3>1. TestSize \in 1 .. TestSize
      BY SizesAssumption
    <3>2. bar \in Bars
      BY <3>1, TestBar
    <3>3. QED
      BY <3>2, BarTypes
  <2>2. run \in Run /\ ~run.over
    BY <1>2 DEF Accounted
  <2>3. Transition(run, bar.close, 0) = closed
    BY <1>2 DEF Transition
  <2>4. after = [closed EXCEPT !.curve = [closed.curve EXCEPT ![TestSize] = closed.cash]]
    BY <1>2, <2>3 DEF AtEnd
  <2> HIDE DEF bar
  <2>5. /\ closed \in Run /\ closed.quantity = 0
        /\ closed.curve = run.curve /\ closed.over = run.over
    BY <2>1, <2>2, ClosedAccount
  <2> DEFINE exit == Last(closed.executions)
             slipped == exit.quantity * Distance(exit.price, exit.reference)
             owed == slipped + Times(slipped, Fee) + 1
  <2>6. -closed.cash <= owed
    BY <1>2, <2>1, <2>2, ClosedExit DEF bar
  <2> HIDE DEF closed, after, owed
  <2>7. /\ after.quantity = 0 /\ after.over = run.over /\ after.executions = closed.executions
        /\ after.curve = [run.curve EXCEPT ![TestSize] = closed.cash]
    BY <2>4, <2>5 DEF Run
  <2>8. PICK n \in Nat : run.curve \in [1 .. n -> Int] /\ Len(run.curve) = n
    <3>1. run.curve \in Seq(Int)
      BY <2>2 DEF Run
    <3>2. QED
      BY <3>1
  <2>9. closed.cash \in Int
    BY <2>5 DEF Run
  <2>10. after.curve \in [1 .. n -> Int]
    BY <2>7, <2>8, <2>9
  <2>11. Len(after.curve) = n
    BY <2>8, <2>10
  <2>12. ASSUME NEW k \in 1 .. n
         PROVE  after.curve[k] >= 0 \/ (k = TestSize /\ -after.curve[k] <= owed)
    <3>1. CASE k = TestSize
      BY <2>6, <2>7, <2>8, <3>1
    <3>2. CASE k # TestSize
      BY <2>7, <2>8, <3>2 DEF NoDebt
    <3>3. QED
      BY <3>1, <3>2
  <2>13. OwesSlippage(after)
    BY <2>2, <2>7, <2>11, <2>12 DEF OwesSlippage, owed
  <2>14. QED
    BY <2>7, <2>13 DEF ShortHasCash, after
<1>3. QED
  BY <1>1, <1>2

\* Inductive: a window that is under way has no debt, one that is through at most that.
DebtInv ==
  \A m \in Market :
    /\ ShortHasCash(runs[m]) /\ OwesSlippage(runs[m])
    /\ done < TestSize => NoDebt(runs[m])

\* Every step keeps the debts within the slippage.
LEMMA DebtStep ==
  ASSUME FeeAtMostHalf, FoldInv, RunInv, DebtInv, [Next]_vars PROVE DebtInv'
<1>1. CASE ProcessBar
  <2> DEFINE next(m) == IF runs[m].over THEN runs[m] ELSE OnBar(runs[m], markets[m])
             after(m) == IF done + 1 = TestSize THEN AtEnd(next(m), markets[m]) ELSE next(m)
  <2>1. runs' = [m \in Market |-> after(m)] /\ done < TestSize /\ done' = done + 1
    BY <1>1 DEF ProcessBar
  <2>2. done \in Nat /\ TestSize \in Nat
    BY Sizes
  <2>3. ASSUME NEW m \in Market
        PROVE  /\ ShortHasCash(after(m)) /\ OwesSlippage(after(m))
               /\ done + 1 < TestSize => NoDebt(after(m))
    <3> DEFINE close == Test(markets[m], fold)[done + 1].close
    <3>1. Accounted(runs[m]) /\ ShortHasCash(runs[m]) /\ NoDebt(runs[m])
      BY <2>1 DEF RunInv, DebtInv
    <3>2. /\ Accounted(next(m)) /\ ShortHasCash(next(m)) /\ NoDebt(next(m))
          /\ ~next(m).over => Solvent(next(m), close)
      BY <2>1, <3>1, BarAccount, BarDebt
    <3> HIDE DEF next
    <3>3. CASE done + 1 = TestSize
      BY <2>2, <3>2, <3>3, EndDebt
    <3>4. CASE done + 1 # TestSize
      BY <3>2, <3>4 DEF NoDebt, OwesSlippage
    <3>5. QED
      BY <3>3, <3>4
  <2> HIDE DEF after
  <2>4. \A m \in Market : runs'[m] = after(m)
    BY <2>1
  <2>5. QED
    BY <2>1, <2>3, <2>4 DEF DebtInv, ShortHasCash, OwesSlippage, NoDebt
<1>2. CASE NextFold
  <2>1. runs' = [m \in Market |-> StartOf(fold + 1, markets[m])]
    BY <1>2 DEF NextFold
  <2>2. \A m \in Market : runs'[m].curve = <<>> /\ runs'[m].quantity = 0
    BY <2>1, StartAccount
  <2>3. QED
    BY <2>2 DEF DebtInv, ShortHasCash, OwesSlippage, NoDebt
<1>3. CASE UNCHANGED vars
  BY <1>3 DEF vars, DebtInv, ShortHasCash, OwesSlippage, NoDebt
<1>4. QED
  BY <1>1, <1>2, <1>3 DEF Next

\* For any bars, strategies, exposures, windows and costs, as long as the fee is at most a
\* half, the account never owes anything, but for what the price of the final close has
\* slipped by, with its fee and a unit: a position is liquidated in time.
THEOREM LiquidatedInTime == FeeAtMostHalf => (Spec => []OwesAtMostSlippage)
<1> SUFFICES ASSUME FeeAtMostHalf PROVE Spec => []OwesAtMostSlippage
  OBVIOUS
<1>1. Init => DebtInv
  <2> SUFFICES ASSUME Init PROVE DebtInv
    OBVIOUS
  <2>1. FoldInv /\ runs = [m \in Market |-> StartOf(1, markets[m])]
    BY FoldInit DEF Init
  <2>2. \A m \in Market : runs[m].curve = <<>> /\ runs[m].quantity = 0
    BY <2>1, StartAccount
  <2>3. QED
    BY <2>2 DEF DebtInv, ShortHasCash, OwesSlippage, NoDebt
<1>2. DebtInv => OwesAtMostSlippage
  BY DEF DebtInv, OwesSlippage, OwesAtMostSlippage
<1>3. FoldInv /\ RunInv /\ DebtInv /\ [Next]_vars => DebtInv'
  BY DebtStep
<1>4. QED
  BY <1>1, <1>2, <1>3, FoldInit, FoldStep, RunInit, RunStep, PTL DEF Spec
=============================================================================
