------------------------ MODULE TradingWorker_proofs ------------------------
(***************************************************************************)
(* Theorems about TradingWorker for every set of workers, instruments,      *)
(* horizons and amounts, and every number of feature vectors.               *)
(***************************************************************************)
EXTENDS TradingWorker, TLAPS, FiniteSetTheorems, WellFoundedInduction

\* A cycle in progress works on a published vector, so that what it names a
\* business event is one.
OnVector == \A w \in Workers : pc[w] # "idle" => view[w].cutoff \in Vectors

TypeInv == TypeOK /\ OnVector
-----------------------------------------------------------------------------
\* The rows that a cycle starts from and creates are rows.
LEMMA RowTypes == NoRow \in Rows /\ NewRow \in Rows
<1>1. [m \in Metrics |-> 0] \in [Metrics -> Nat] /\ 0 \in 0 .. MaxMetric
  BY Bounds
<1>2. QED
  BY <1>1 DEF NoRow, NewRow, Rows

\* The view of an idle worker is a view.
LEMMA NoViewType == NoView \in Views
  BY RowTypes, Bounds DEF NoView, Views

\* The metric a cycle reads is 0 or one observed not after the vector.
LEMMA FundingMetricType ==
  ASSUME NEW i, NEW cutoff \in 0 .. MaxVector
  PROVE  FundingMetric(i, cutoff) \in {m \in 0 .. MaxMetric : m <= cutoff}
<1> DEFINE row == metrics[i]
           observed == {m \in Metrics : m <= cutoff /\ row[m] # "ABSENT"}
           due == {m \in observed : row[m] = "RATE" /\ \A n \in observed : n <= m}
<1>1. FundingMetric(i, cutoff) = IF due = {} THEN 0 ELSE CHOOSE m \in due : TRUE
  BY DEF FundingMetric
<1>2. \A m \in due : m \in 0 .. MaxMetric /\ m <= cutoff
  BY DEF Metrics
<1>3. 0 \in 0 .. MaxMetric /\ 0 <= cutoff
  BY Bounds
<1> HIDE DEF due
<1>4. QED
  BY <1>1, <1>2, <1>3

\* Charging a row for a metric leaves a row of the same status, in which that metric
\* counts once more and last_funding_at names it.
LEMMA ChargedType ==
  ASSUME NEW row \in Rows, NEW metric \in Metrics
  PROVE  /\ Charged(row, metric) \in Rows
         /\ Charged(row, metric).status = row.status
         /\ Charged(row, metric).last_funding_at = metric
         /\ Charged(row, metric).funding[metric] = row.funding[metric] + 1
         /\ \A m \in Metrics \ {metric} : Charged(row, metric).funding[m] = row.funding[m]
<1> DEFINE charges == [row.funding EXCEPT ![metric] = @ + 1]
<1>1. row.funding \in [Metrics -> Nat] /\ metric \in 0 .. MaxMetric
  BY Bounds DEF Rows, Metrics
<1>2. /\ charges \in [Metrics -> Nat] /\ charges[metric] = row.funding[metric] + 1
      /\ \A m \in Metrics \ {metric} : charges[m] = row.funding[m]
  BY <1>1
<1>3. Charged(row, metric) = [row EXCEPT !.funding = charges, !.last_funding_at = metric]
  BY DEF Charged
<1> HIDE DEF charges
<1>4. ASSUME NEW f \in [Metrics -> Nat], NEW m \in 0 .. MaxMetric
      PROVE  [row EXCEPT !.funding = f, !.last_funding_at = m] \in Rows
  BY DEF Rows
<1>5. ASSUME NEW f \in [Metrics -> Nat], NEW m \in 0 .. MaxMetric
      PROVE  /\ [row EXCEPT !.funding = f, !.last_funding_at = m].status = row.status
             /\ [row EXCEPT !.funding = f, !.last_funding_at = m].funding = f
             /\ [row EXCEPT !.funding = f, !.last_funding_at = m].last_funding_at = m
  BY DEF Rows
<1> DEFINE charged == [row EXCEPT !.funding = charges, !.last_funding_at = metric]
<1>6. charged \in Rows
  BY <1>1, <1>2, <1>4
<1>7. charged.status = row.status /\ charged.funding = charges
      /\ charged.last_funding_at = metric
  BY <1>1, <1>2, <1>5
<1> HIDE DEF charged
<1>8. Charged(row, metric) = charged
  BY <1>3 DEF charged
<1>9. QED
  BY <1>2, <1>6, <1>7, <1>8

\* Charging funding, or not, leaves a row of the same status.
LEMMA FundedType ==
  ASSUME NEW row \in Rows, NEW metric \in 0 .. MaxMetric
  PROVE  Funded(row, metric) \in Rows /\ Funded(row, metric).status = row.status
<1>1. CASE metric > row.last_funding_at
  <2>1. metric \in Metrics
    BY <1>1, Bounds DEF Rows, Metrics
  <2>2. QED
    BY <1>1, <2>1, ChargedType DEF Funded
<1>2. CASE ~(metric > row.last_funding_at)
  BY <1>2 DEF Funded
<1>3. QED
  BY <1>1, <1>2

\* The funding written back leaves every position a row of the table, with the
\* status it has.
LEMMA FundedRowsType ==
  ASSUME TypeOK, NEW w \in Workers
  PROVE  /\ FundedRows(w) \in [OpenKeys -> Rows]
         /\ \A p \in OpenKeys : FundedRows(w)[p].status = position[p].status
<1> DEFINE f(p) == IF p \in view[w].charged
       THEN [position[p] EXCEPT !.funding = view[w].rows[p].funding,
                                !.last_funding_at = view[w].rows[p].last_funding_at]
       ELSE position[p]
<1>1. ASSUME NEW p \in OpenKeys PROVE f(p) \in Rows /\ f(p).status = position[p].status
  <2>1. position[p] \in Rows /\ view[w].rows[p] \in Rows
    BY DEF TypeOK, Views
  <2>2. QED
    BY <2>1 DEF Rows
<1>2. FundedRows(w) = [p \in OpenKeys |-> f(p)]
  BY DEF FundedRows
<1> HIDE DEF f
<1>3. QED
  BY <1>1, <1>2

\* What every committing cycle writes keeps its type.
LEMMA CommitCycleType ==
  ASSUME TypeOK, NEW w \in Workers, CommitCycle(w)
  PROVE  /\ vector' \in 0 .. MaxVector /\ age' \in 0 .. 2
         /\ metrics' \in [Instruments -> [Metrics -> FundingRates]]
         /\ predictions' \in [OpenKeys -> 0 .. PredictionCap]
         /\ converted' \in BOOLEAN
         /\ view' \in [Workers -> Views]
         /\ order' \in [Workers -> SUBSET Orders]
<1>1. view' \in [Workers -> Views] /\ order' \in [Workers -> SUBSET Orders]
  BY NoViewType DEF CommitCycle, TypeOK
<1>2. converted' \in BOOLEAN
  <2>1. view[w].convert \in BOOLEAN
    BY DEF TypeOK, Views
  <2>2. QED
    BY <2>1 DEF CommitCycle, TypeOK
<1>3. predictions' \in [OpenKeys -> 0 .. PredictionCap]
  <2> DEFINE k == BusinessKey(w)
  <2>1. \/ UNCHANGED predictions
        \/ predictions[k] < PredictionCap /\ predictions' = [predictions EXCEPT ![k] = @ + 1]
    BY DEF CommitCycle
  <2> HIDE DEF k
  <2>2. QED
    BY <2>1, Bounds DEF TypeOK
<1>4. QED
  BY <1>1, <1>2, <1>3 DEF CommitCycle, market, TypeOK

\* The business event of a cycle in progress names a possible position.
LEMMA BusinessKeyType ==
  ASSUME NEW w \in Workers, view[w].cutoff \in Vectors
  PROVE  BusinessKey(w) \in OpenKeys
  BY WorkerArguments DEF BusinessKey, OpenKeys
-----------------------------------------------------------------------------
\* Init establishes the type invariant.
LEMMA InitType == Init => TypeInv
<1> SUFFICES ASSUME Init PROVE TypeInv
  OBVIOUS
<1>1. position \in [OpenKeys -> Rows] /\ view \in [Workers -> Views]
  BY RowTypes, NoViewType DEF Init
<1>2. /\ vector \in 0 .. MaxVector /\ age \in 0 .. 2
      /\ metrics \in [Instruments -> [Metrics -> FundingRates]]
  BY Bounds DEF Init, FundingRates
<1>3. predictions \in [OpenKeys -> 0 .. PredictionCap]
  BY Bounds DEF Init
<1>4. /\ orders \in [Keys -> {"ABSENT", "FILLED", "REJECTED"}] /\ signals \in [Keys -> Nat]
      /\ ledger \subseteq Entries /\ converted \in BOOLEAN
  BY DEF Init
<1>5. pc \in [Workers -> {"idle", "positions", "exits", "policy", "reserve",
                          "execute", "commit"}]
  BY DEF Init
<1>6. order \in [Workers -> SUBSET Orders] /\ OnVector
  BY DEF Init, OnVector
<1>7. QED
  BY <1>1, <1>2, <1>3, <1>4, <1>5, <1>6 DEF TypeInv, TypeOK

\* Every step of a worker keeps the type invariant.
LEMMA CycleType ==
  ASSUME TypeInv, NEW w \in Workers, Cycle(w)
  PROVE  TypeInv'
<1> USE DEF TypeInv
<1>1. CASE BeginCycle(w)
  <2> DEFINE seen == [view[w] EXCEPT !.cutoff = vector, !.age = age,
                        !.convert = ~converted /\ Cash <= 0,
                        !.covered = Covered(IF ~converted /\ Cash <= 0 THEN Capital ELSE Cash)]
  <2>1. view' = [view EXCEPT ![w] = seen]
    BY <1>1 DEF BeginCycle
  <2>2. vector \in Vectors
    BY <1>1, Bounds DEF BeginCycle, TypeOK, Vectors
  <2>3. seen \in Views /\ seen.cutoff = vector
    <3> DEFINE convert == ~converted /\ Cash <= 0
               cash == IF convert THEN Capital ELSE Cash
    <3>1. convert \in BOOLEAN
      OBVIOUS
    <3>2. Covered(cash) \in SUBSET Costs
      BY DEF Covered
    <3>3. seen = [view[w] EXCEPT !.cutoff = vector, !.age = age, !.convert = convert,
                                 !.covered = Covered(cash)]
      OBVIOUS
    <3>4. ASSUME NEW old \in Views, NEW v \in 0 .. MaxVector, NEW a \in 0 .. 2, NEW c \in BOOLEAN,
                 NEW options \in SUBSET Costs
          PROVE  [old EXCEPT !.cutoff = v, !.age = a, !.convert = c, !.covered = options]
                   \in Views
      BY DEF Views
    <3>5. view[w] \in Views /\ vector \in 0 .. MaxVector /\ age \in 0 .. 2
      BY DEF TypeOK
    <3>6. seen.cutoff = vector
      BY <3>5 DEF Views
    <3> HIDE DEF convert, cash, seen
    <3>7. seen \in Views
      BY <3>1, <3>2, <3>3, <3>4, <3>5
    <3>8. QED
      BY <3>6, <3>7
  <2> HIDE DEF seen
  <2>4. view' \in [Workers -> Views]
    BY <2>1, <2>3 DEF TypeOK
  <2>5. OnVector'
    BY <1>1, <2>1, <2>2, <2>3 DEF BeginCycle, Transition, OnVector, TypeOK
  <2>6. QED
    BY <1>1, <2>4, <2>5 DEF BeginCycle, Transition, market, tables, TypeOK
<1>2. CASE ReadPositions(w)
  <2>1. PICK selected \in SUBSET OpenKeys : ReadRows(w, selected)
    BY <1>2 DEF ReadPositions, OpenPositions
  <2> DEFINE metric == FundingMetric(Instrument[w], view[w].cutoff)
             rows == [p \in OpenKeys |->
                        IF p \in selected THEN Funded(position[p], metric) ELSE NoRow]
             below == Cardinality(OpenPositions) < MaxOpenPositions
             charged == {p \in selected : rows[p] # position[p]}
             seen == [view[w] EXCEPT !.below_limit = below, !.rows = rows,
                                     !.charged = charged]
  <2>2. view[w] \in Views /\ view[w].cutoff \in 0 .. MaxVector
    BY DEF TypeOK, Views
  <2>3. rows \in [OpenKeys -> Rows]
    <3>1. metric \in 0 .. MaxMetric
      BY <2>2, FundingMetricType
    <3> HIDE DEF metric
    <3>2. QED
      BY <3>1, FundedType, RowTypes DEF TypeOK
  <2>4. view' = [view EXCEPT ![w] = seen]
    BY <2>1, <2>2 DEF ReadRows, TypeOK
  <2>5. below \in BOOLEAN /\ charged \in SUBSET OpenKeys
    OBVIOUS
  <2> HIDE DEF rows, below, charged
  <2>6. seen \in Views /\ seen.cutoff = view[w].cutoff
    BY <2>2, <2>3, <2>5 DEF Views
  <2> HIDE DEF seen
  <2>7. view' \in [Workers -> Views]
    BY <2>4, <2>6 DEF TypeOK
  <2>8. OnVector'
    BY <2>1, <2>4, <2>6 DEF ReadRows, Transition, OnVector, TypeOK
  <2>9. QED
    BY <2>1, <2>7, <2>8 DEF ReadRows, Transition, market, tables, TypeOK
<1>3. CASE AutoExit(w)
  <2>1. PICK p \in Held(w), reason \in ExitReasons :
          order' = [order EXCEPT ![w] =
                     {[key |-> [position |-> p, reason |-> reason], op |-> "CLOSE",
                       position |-> p]}]
    BY <1>3 DEF AutoExit
  <2>2. [position |-> p, reason |-> reason] \in Keys /\ p \in OpenKeys
    BY DEF Held, Keys, ExitKeys
  <2>3. order' \in [Workers -> SUBSET Orders]
    BY <2>1, <2>2 DEF TypeOK, Orders
  <2>4. QED
    BY <1>3, <2>3 DEF AutoExit, Transition, market, tables, TypeOK, OnVector
<1>4. CASE SkipEntry(w)
  BY <1>4 DEF SkipEntry, Transition, market, tables, TypeOK, OnVector
<1>5. CASE Predict(w)
  <2>0. view[w] \in Views
    BY DEF TypeOK
  <2>1. [view[w] EXCEPT !.predicted = TRUE] \in Views
    BY <2>0 DEF Views
  <2>2. view' \in [Workers -> Views]
    BY <1>5, <2>1 DEF Predict, TypeOK
  <2>3. OnVector'
    <3>1. \A v \in Workers : view'[v].cutoff = view[v].cutoff
      BY <1>5 DEF Predict, TypeOK, Views
    <3>2. QED
      BY <1>5, <3>1 DEF Predict, Transition, OnVector, TypeOK
  <2>4. QED
    BY <1>5, <2>2, <2>3 DEF Predict, Transition, market, tables, TypeOK
<1>6. CASE Enter(w) \/ Leave(w)
  <2>1. BusinessKey(w) \in OpenKeys /\ BusinessKey(w) \in Keys
    BY <1>6, BusinessKeyType DEF Enter, Leave, Transition, OnVector, Keys
  <2>2. PICK o \in Orders : order' = [order EXCEPT ![w] = {o}]
    BY <1>6, <2>1 DEF Enter, Leave, Held, Orders
  <2>3. order' \in [Workers -> SUBSET Orders]
    BY <2>2 DEF TypeOK
  <2>4. QED
    BY <1>6, <2>3 DEF Enter, Leave, Transition, market, tables, TypeOK, OnVector
<1>7. CASE Hold(w)
  BY <1>7 DEF Hold, Transition, market, tables, TypeOK, OnVector
<1>8. CASE ReserveOrder(w)
  <2>1. order' \in [Workers -> SUBSET Orders]
    BY <1>8 DEF ReserveOrder, TypeOK
  <2>2. QED
    BY <1>8, <2>1 DEF ReserveOrder, Transition, market, tables, TypeOK, OnVector
<1>9. CASE CommitIdle(w)
  BY <1>9, CommitCycleType, FundedRowsType
  DEF CommitIdle, Transition, TypeOK, OnVector, CommitCycle
<1>10. CASE CommitOpen(w)
  <2>1. PICK o \in order[w], cost \in Costs :
          /\ orders' = [orders EXCEPT ![o.key] = "FILLED"]
          /\ signals' = [signals EXCEPT ![o.key] = @ + 1]
          /\ Book([key |-> o.key, op |-> "OPEN", position |-> o.position, amount |-> -cost])
          /\ position' = [FundedRows(w) EXCEPT ![o.position] = NewRow]
    BY <1>10 DEF CommitOpen
  <2>2. o \in Orders
    BY DEF TypeOK
  <2>3. [key |-> o.key, op |-> "OPEN", position |-> o.position, amount |-> -cost] \in Entries
    BY <2>2, Amounts DEF Orders, Entries
  <2>4. ledger' \subseteq Entries
    BY <2>1, <2>3 DEF Book, TypeOK
  <2>5. position' \in [OpenKeys -> Rows]
    BY <2>1, FundedRowsType, RowTypes
  <2>6. /\ orders' \in [Keys -> {"ABSENT", "FILLED", "REJECTED"}]
        /\ signals' \in [Keys -> Nat]
    BY <2>1, <2>2 DEF TypeOK, Orders
  <2>7. QED
    BY <1>10, <2>4, <2>5, <2>6, CommitCycleType
    DEF CommitOpen, Transition, TypeOK, OnVector, CommitCycle
<1>11. CASE CommitRejected(w)
  <2>1. PICK o \in order[w] :
          /\ orders' = [orders EXCEPT ![o.key] = "REJECTED"]
          /\ signals' = [signals EXCEPT ![o.key] = @ + 1]
    BY <1>11 DEF CommitRejected
  <2>2. o \in Orders
    BY DEF TypeOK
  <2>3. /\ orders' \in [Keys -> {"ABSENT", "FILLED", "REJECTED"}]
        /\ signals' \in [Keys -> Nat]
    BY <2>1, <2>2 DEF TypeOK, Orders
  <2>4. QED
    BY <1>11, <2>3, CommitCycleType, FundedRowsType
    DEF CommitRejected, Transition, TypeOK, OnVector, CommitCycle
<1>12. CASE CommitClose(w)
  <2>1. PICK o \in order[w], paid \in Payouts :
          /\ orders' = [orders EXCEPT ![o.key] = "FILLED"]
          /\ signals' = [signals EXCEPT ![o.key] = @ + 1]
          /\ Book([key |-> o.key, op |-> "CLOSE", position |-> o.position, amount |-> paid])
          /\ position' = [FundedRows(w) EXCEPT ![o.position].status = "CLOSED"]
    BY <1>12 DEF CommitClose
  <2>2. o \in Orders
    BY DEF TypeOK
  <2>3. [key |-> o.key, op |-> "CLOSE", position |-> o.position, amount |-> paid] \in Entries
    BY <2>2, Amounts DEF Orders, Entries
  <2>4. ledger' \subseteq Entries
    BY <2>1, <2>3 DEF Book, TypeOK
  <2>5. position' \in [OpenKeys -> Rows]
    <3>1. \A row \in Rows : [row EXCEPT !.status = "CLOSED"] \in Rows
      BY DEF Rows
    <3>2. QED
      BY <2>1, <3>1, FundedRowsType
  <2>6. /\ orders' \in [Keys -> {"ABSENT", "FILLED", "REJECTED"}]
        /\ signals' \in [Keys -> Nat]
    BY <2>1, <2>2 DEF TypeOK, Orders
  <2>7. QED
    BY <1>12, <2>4, <2>5, <2>6, CommitCycleType
    DEF CommitClose, Transition, TypeOK, OnVector, CommitCycle
<1>13. CASE Abort(w)
  <2>1. view' \in [Workers -> Views] /\ order' \in [Workers -> SUBSET Orders]
    BY <1>13, NoViewType DEF Abort, TypeOK
  <2>2. QED
    BY <1>13, <2>1 DEF Abort, market, tables, TypeOK, OnVector
<1>14. QED
  BY <1>1, <1>2, <1>3, <1>4, <1>5, <1>6, <1>7, <1>8, <1>9, <1>10, <1>11, <1>12, <1>13
  DEF Cycle

\* Every worker, order and row is inside its declared domain in every state, and a
\* cycle in progress names a business event of a published vector.
THEOREM TypeInvariant == Spec => []TypeInv
<1>1. TypeInv /\ [Next]_vars => TypeInv'
  <2> SUFFICES ASSUME TypeInv, [Next]_vars PROVE TypeInv'
    OBVIOUS
  <2>1. CASE NewVector
    BY <2>1, Bounds DEF NewVector, tables, TypeInv, TypeOK, OnVector
  <2>2. CASE GrowOld
    BY <2>2 DEF GrowOld, tables, TypeInv, TypeOK, OnVector
  <2>3. CASE StoreMetric
    <3>1. PICK i \in Instruments, m \in Metrics, rate \in FundingRates :
            metrics' = [metrics EXCEPT ![i][m] = rate]
      BY <2>3 DEF StoreMetric
    <3>2. metrics' \in [Instruments -> [Metrics -> FundingRates]]
      BY <3>1 DEF TypeInv, TypeOK
    <3>3. QED
      BY <2>3, <3>2 DEF StoreMetric, tables, TypeInv, TypeOK, OnVector
  <2>4. CASE UNCHANGED vars
    BY <2>4 DEF vars, TypeInv, TypeOK, OnVector
  <2>5. QED
    BY <2>1, <2>2, <2>3, <2>4, CycleType DEF Next
<1>2. QED
  BY <1>1, InitType, PTL DEF Spec

\* The type invariant of TradingWorker holds for every value of its constants.
THEOREM TypeCorrect == Spec => []TypeOK
  BY TypeInvariant, PTL DEF TypeInv
-----------------------------------------------------------------------------
\* A transaction places at most one order.
SingleOrder == \A w \in Workers : \A a, b \in order[w] : a = b

\* The key that an executing transaction has inserted is not committed ...
ClaimFresh ==
  \A w \in Workers : pc[w] = "execute" => \A o \in order[w] : orders[o.key] = "ABSENT"

\* ... and no other transaction has inserted it.
ClaimExclusive ==
  \A v, w \in Workers :
    v # w /\ pc[v] = "execute" /\ pc[w] = "execute" =>
      \A a \in order[v], b \in order[w] : a.key # b.key

ClaimInv == SingleOrder /\ ClaimFresh /\ ClaimExclusive

OrderInv == TypeInv /\ ClaimInv /\ OneSignalPerOrder /\ FillBookedOnce

\* A step of one worker leaves the transactions of the others alone.
LEMMA Locality ==
  ASSUME TypeInv, NEW w \in Workers, Cycle(w), NEW v \in Workers, v # w
  PROVE  pc'[v] = pc[v] /\ view'[v] = view[v] /\ order'[v] = order[v]
<1> USE DEF TypeInv, TypeOK, Transition
<1>1. CASE BeginCycle(w) \/ ReadPositions(w)
  BY <1>1 DEF BeginCycle, ReadPositions, ReadRows
<1>2. CASE AutoExit(w) \/ SkipEntry(w) \/ Predict(w)
  BY <1>2 DEF AutoExit, SkipEntry, Predict
<1>3. CASE Enter(w) \/ Leave(w) \/ Hold(w) \/ ReserveOrder(w)
  BY <1>3 DEF Enter, Leave, Hold, ReserveOrder
<1>4. CASE CommitIdle(w) \/ CommitOpen(w)
  BY <1>4 DEF CommitIdle, CommitOpen, CommitCycle
<1>5. CASE CommitRejected(w) \/ CommitClose(w) \/ Abort(w)
  BY <1>5 DEF CommitRejected, CommitClose, CommitCycle, Abort
<1>6. QED
  BY <1>1, <1>2, <1>3, <1>4, <1>5 DEF Cycle

\* Committing the outcome of an order keeps the other claims.
LEMMA CommitKeepsClaims ==
  ASSUME TypeInv, ClaimInv, NEW w \in Workers, Cycle(w), pc[w] = "execute",
         NEW o \in order[w], NEW status,
         orders' = [orders EXCEPT ![o.key] = status],
         pc'[w] = "idle", order'[w] = {}
  PROVE  ClaimInv'
<1>1. SingleOrder'
  BY Locality DEF ClaimInv, SingleOrder
<1>2. ClaimExclusive'
  BY Locality DEF ClaimInv, ClaimExclusive
<1>3. ClaimFresh'
  <2> SUFFICES ASSUME NEW v \in Workers, pc'[v] = "execute", NEW a \in order'[v]
               PROVE  orders'[a.key] = "ABSENT"
    BY DEF ClaimFresh
  <2>1. v # w /\ pc[v] = "execute" /\ a \in order[v]
    BY Locality
  <2>2. a.key # o.key /\ orders[a.key] = "ABSENT"
    BY <2>1 DEF ClaimInv, ClaimExclusive, ClaimFresh
  <2>3. a \in Orders
    BY <2>1 DEF TypeInv, TypeOK
  <2>4. QED
    BY <2>2, <2>3 DEF TypeInv, TypeOK, Orders
<1>4. QED
  BY <1>1, <1>2, <1>3 DEF ClaimInv

\* Every step of a worker keeps the claims.
LEMMA CycleClaims ==
  ASSUME TypeInv, ClaimInv, NEW w \in Workers, Cycle(w)
  PROVE  ClaimInv'
<1>1. CASE \/ BeginCycle(w) \/ ReadPositions(w) \/ SkipEntry(w) \/ Predict(w) \/ Hold(w)
           \/ CommitIdle(w) \/ Abort(w)
  <2>1. /\ orders' = orders
        /\ pc'[w] # "execute"
        /\ order'[w] = order[w] \/ order'[w] = {}
    <3> USE DEF TypeInv, TypeOK, Transition, tables
    <3>1. CASE BeginCycle(w) \/ ReadPositions(w) \/ SkipEntry(w)
      BY <3>1 DEF BeginCycle, ReadPositions, ReadRows, SkipEntry
    <3>2. CASE Predict(w) \/ Hold(w)
      BY <3>2 DEF Predict, Hold
    <3>3. CASE CommitIdle(w) \/ Abort(w)
      BY <3>3 DEF CommitIdle, CommitCycle, Abort
    <3>4. QED
      BY <1>1, <3>1, <3>2, <3>3
  <2>2. SingleOrder'
    BY <2>1, Locality DEF ClaimInv, SingleOrder
  <2>3. ClaimFresh' /\ ClaimExclusive'
    BY <2>1, Locality DEF ClaimInv, ClaimFresh, ClaimExclusive
  <2>4. QED
    BY <2>2, <2>3 DEF ClaimInv
<1>2. CASE AutoExit(w) \/ Enter(w) \/ Leave(w)
  <2>1. /\ orders' = orders
        /\ pc'[w] # "execute"
        /\ \E o : order'[w] = {o}
    BY <1>2 DEF AutoExit, Enter, Leave, TypeInv, TypeOK, Transition, tables
  <2>2. SingleOrder'
    BY <2>1, Locality DEF ClaimInv, SingleOrder
  <2>3. ClaimFresh' /\ ClaimExclusive'
    BY <2>1, Locality DEF ClaimInv, ClaimFresh, ClaimExclusive
  <2>4. QED
    BY <2>2, <2>3 DEF ClaimInv
<1>3. CASE ReserveOrder(w)
  <2>1. PICK o \in order[w] :
          /\ ~Claimed(w, o.key)
          /\ \/ /\ orders[o.key] = "ABSENT"
                /\ Transition(w, "reserve", "execute")
                /\ UNCHANGED order
             \/ /\ Transition(w, "reserve", "commit")
                /\ order' = [order EXCEPT ![w] = {}]
          /\ orders' = orders
    BY <1>3 DEF ReserveOrder, tables
  <2>2. order[w] = {o}
    BY DEF ClaimInv, SingleOrder
  <2>3. CASE /\ orders[o.key] = "ABSENT"
             /\ pc'[w] = "execute" /\ order' = order
    <3>1. ClaimFresh'
      BY <2>1, <2>2, <2>3, Locality DEF ClaimInv, ClaimFresh
    <3>2. \A v \in Workers \ {w} : pc[v] = "execute" => \A a \in order[v] : a.key # o.key
      BY <2>1 DEF Claimed
    <3>3. ClaimExclusive'
      BY <2>2, <2>3, <3>2, Locality DEF ClaimInv, ClaimExclusive
    <3>4. QED
      BY <2>3, <3>1, <3>3 DEF ClaimInv, SingleOrder
  <2>4. CASE pc'[w] = "commit" /\ order'[w] = {}
    BY <2>1, <2>4, Locality DEF ClaimInv, SingleOrder, ClaimFresh, ClaimExclusive
  <2>5. QED
    BY <2>1, <2>3, <2>4 DEF Transition, TypeInv, TypeOK
<1>4. CASE CommitOpen(w) \/ CommitRejected(w) \/ CommitClose(w)
  <2>1. PICK o \in order[w], status \in {"FILLED", "REJECTED"} :
          orders' = [orders EXCEPT ![o.key] = status]
    BY <1>4 DEF CommitOpen, CommitRejected, CommitClose
  <2>2. pc[w] = "execute" /\ pc'[w] = "idle" /\ order'[w] = {}
    BY <1>4 DEF CommitOpen, CommitRejected, CommitClose, CommitCycle,
                Transition, TypeInv, TypeOK
  <2>3. QED
    BY <2>1, <2>2, CommitKeepsClaims
<1>5. QED
  BY <1>1, <1>2, <1>3, <1>4 DEF Cycle

\* The signal of an order commits with it.
LEMMA CycleSignals ==
  ASSUME TypeInv, ClaimInv, OneSignalPerOrder, NEW w \in Workers, Cycle(w)
  PROVE  OneSignalPerOrder'
<1>1. CASE CommitOpen(w) \/ CommitRejected(w) \/ CommitClose(w)
  <2>1. PICK o \in order[w], status \in {"FILLED", "REJECTED"} :
          /\ orders' = [orders EXCEPT ![o.key] = status]
          /\ signals' = [signals EXCEPT ![o.key] = @ + 1]
    BY <1>1 DEF CommitOpen, CommitRejected, CommitClose
  <2>2. o.key \in Keys /\ orders[o.key] = "ABSENT"
    BY <1>1 DEF CommitOpen, CommitRejected, CommitClose, Transition,
                ClaimInv, ClaimFresh, TypeInv, TypeOK, Orders
  <2>3. signals[o.key] = 0
    BY <2>2 DEF OneSignalPerOrder
  <2>4. QED
    BY <2>1, <2>2, <2>3 DEF OneSignalPerOrder, TypeInv, TypeOK
<1>2. CASE UNCHANGED <<orders, signals>>
  BY <1>2 DEF OneSignalPerOrder
<1>3. QED
  BY <1>1, <1>2 DEF Cycle, tables, BeginCycle, ReadPositions, ReadRows, AutoExit, SkipEntry,
                    Predict, Enter, Leave, Hold, ReserveOrder, CommitIdle, Abort

\* A fill is booked under the key its order has claimed.
LEMMA CycleBooks ==
  ASSUME TypeInv, ClaimInv, FillBookedOnce, NEW w \in Workers, Cycle(w)
  PROVE  FillBookedOnce'
<1>1. CASE CommitOpen(w) \/ CommitClose(w)
  <2>1. PICK o, entry :
          /\ o \in order[w] /\ entry.key = o.key
          /\ orders' = [orders EXCEPT ![o.key] = "FILLED"]
          /\ Book(entry)
    BY <1>1 DEF CommitOpen, CommitClose
  <2>2. o.key \in Keys /\ orders[o.key] = "ABSENT"
    BY <1>1, <2>1 DEF CommitOpen, CommitClose, Transition, ClaimInv, ClaimFresh, TypeInv,
                      TypeOK, Orders
  <2>3. ~ \E e \in ledger : e.key = o.key
    BY <2>2 DEF FillBookedOnce
  <2>4. ledger' = ledger \cup {entry}
    BY <2>1, <2>3 DEF Book
  <2>5. \A k \in Keys : orders'[k] = "FILLED" <=> k = o.key \/ orders[k] = "FILLED"
    BY <2>1, <2>2 DEF TypeInv, TypeOK
  <2>6. QED
    BY <2>1, <2>3, <2>4, <2>5 DEF FillBookedOnce
<1>2. CASE CommitRejected(w)
  <2>1. PICK o \in order[w] : orders' = [orders EXCEPT ![o.key] = "REJECTED"]
    BY <1>2 DEF CommitRejected
  <2>2. o.key \in Keys /\ orders[o.key] = "ABSENT" /\ ledger' = ledger
    BY <1>2 DEF CommitRejected, Transition, ClaimInv, ClaimFresh, TypeInv, TypeOK,
                Orders
  <2>3. \A k \in Keys : orders'[k] = "FILLED" <=> orders[k] = "FILLED"
    BY <2>1, <2>2 DEF TypeInv, TypeOK
  <2>4. QED
    BY <2>2, <2>3 DEF FillBookedOnce
<1>3. CASE UNCHANGED <<orders, ledger>>
  BY <1>3 DEF FillBookedOnce
<1>4. QED
  BY <1>1, <1>2, <1>3 DEF Cycle, tables, BeginCycle, ReadPositions, ReadRows, AutoExit,
     SkipEntry, Predict, Enter, Leave, Hold, ReserveOrder, CommitIdle, Abort

\* The claim of an order key excludes every other transaction from it, whatever
\* workers share an instrument and a horizon.
THEOREM OrderInvariant == Spec => []OrderInv
<1>1. Init => OrderInv
  BY InitType DEF Init, OrderInv, ClaimInv, SingleOrder, ClaimFresh, ClaimExclusive,
                  OneSignalPerOrder, FillBookedOnce
<1>2. OrderInv /\ TypeInv' /\ [Next]_vars => OrderInv'
  <2> SUFFICES ASSUME OrderInv, TypeInv', [Next]_vars PROVE OrderInv'
    OBVIOUS
  <2>1. CASE UNCHANGED <<orders, signals, ledger, pc, order>>
    BY <2>1 DEF OrderInv, ClaimInv, SingleOrder, ClaimFresh, ClaimExclusive,
                OneSignalPerOrder, FillBookedOnce
  <2>2. ASSUME NEW w \in Workers, Cycle(w) PROVE OrderInv'
    BY <2>2, CycleClaims, CycleSignals, CycleBooks DEF OrderInv
  <2>3. QED
    BY <2>1, <2>2 DEF Next, NewVector, GrowOld, StoreMetric, tables, vars
<1>3. QED
  BY <1>1, <1>2, TypeInvariant, PTL DEF Spec

\* Exactly one signal per claimed order, for any number of workers.
THEOREM OneSignal == Spec => []OneSignalPerOrder
  BY OrderInvariant, PTL DEF OrderInv

\* Exactly one booking per fill, for any number of workers.
THEOREM BookedOnce == Spec => []FillBookedOnce
  BY OrderInvariant, PTL DEF OrderInv
-----------------------------------------------------------------------------
(* Funding *)

\* Every row, in the table or read by a cycle in progress, has been charged each metric at
\* most once; and no cycle has read a vector that is not published.
FundingInv ==
  /\ FundingOncePerMetric
  /\ \A w \in Workers : /\ view[w].cutoff <= vector
                        /\ \A p \in OpenKeys : ChargedOnce(view[w].rows[p])

\* A new row has not been charged anything, whatever was observed before its opening.
LEMMA NothingCharged ==
  ASSUME vector \in Nat
  PROVE  ChargedOnce(NoRow)
  BY Bounds DEF ChargedOnce, NoRow, Metrics

\* Only the funding of a row and its last metric matter.
LEMMA ChargesOf ==
  ASSUME NEW row, NEW other, row.funding = other.funding,
         row.last_funding_at = other.last_funding_at, ChargedOnce(other)
  PROVE  ChargedOnce(row)
  BY DEF ChargedOnce

\* The guard lets through only a metric that is newer than all that were charged.
LEMMA FundedCharged ==
  ASSUME vector \in Nat, NEW row \in Rows, ChargedOnce(row),
         NEW metric \in 0 .. MaxMetric, metric <= vector
  PROVE  ChargedOnce(Funded(row, metric))
<1>1. row.last_funding_at \in Nat /\ MaxMetric \in Nat /\ metric \in Nat
  BY Bounds DEF Rows
<1>2. CASE metric > row.last_funding_at
  <2> DEFINE charged == Charged(row, metric)
  <2>1. metric \in Metrics
    BY <1>1, <1>2 DEF Metrics
  <2>2. /\ charged.last_funding_at = metric
        /\ charged.funding[metric] = row.funding[metric] + 1
        /\ \A m \in Metrics \ {metric} : charged.funding[m] = row.funding[m]
    BY <2>1, ChargedType
  <2>3. row.funding[metric] = 0
    BY <1>2, <2>1 DEF ChargedOnce
  <2> HIDE DEF charged
  <2>4. ASSUME NEW m \in Metrics
        PROVE  /\ charged.funding[m] \in {0, 1}
               /\ m = metric => charged.funding[m] = 1
               /\ m > metric => charged.funding[m] = 0
    <3>1. CASE m = metric
      BY <1>1, <2>2, <2>3, <3>1
    <3>2. CASE m # metric
      <4>1. m \in Nat /\ charged.funding[m] = row.funding[m]
        BY <2>2, <3>2 DEF Metrics
      <4>2. row.funding[m] \in {0, 1} /\ (m > row.last_funding_at => row.funding[m] = 0)
        BY DEF ChargedOnce
      <4>3. m > metric => m > row.last_funding_at
        BY <1>1, <1>2, <4>1
      <4>4. QED
        BY <3>2, <4>1, <4>2, <4>3
    <3>3. QED
      BY <3>1, <3>2
  <2>5. ChargedOnce(charged)
    BY <2>2, <2>4 DEF ChargedOnce
  <2>6. QED
    BY <1>2, <2>5 DEF Funded, charged
<1>3. CASE ~(metric > row.last_funding_at)
  BY <1>3 DEF Funded
<1>4. QED
  BY <1>2, <1>3

\* What a cycle writes back has been charged each metric at most once, even over a row that
\* another worker has charged in between: funding and last metric are written together.
LEMMA WrittenCharged ==
  ASSUME TypeInv, FundingInv, NEW w \in Workers, NEW p \in OpenKeys
  PROVE  ChargedOnce(FundedRows(w)[p])
<1>1. position[p] \in Rows
  BY DEF TypeInv, TypeOK
<1>2. ChargedOnce(position[p]) /\ ChargedOnce(view[w].rows[p])
  BY DEF FundingInv, FundingOncePerMetric
<1>3. CASE p \notin view[w].charged
  BY <1>2, <1>3 DEF FundedRows
<1>4. CASE p \in view[w].charged
  <2>1. FundedRows(w)[p] = [position[p] EXCEPT !.funding = view[w].rows[p].funding,
                              !.last_funding_at = view[w].rows[p].last_funding_at]
    BY <1>4 DEF FundedRows
  <2>2. /\ FundedRows(w)[p].funding = view[w].rows[p].funding
        /\ FundedRows(w)[p].last_funding_at = view[w].rows[p].last_funding_at
    BY <1>1, <2>1 DEF Rows
  <2>3. QED
    BY <1>2, <2>2, ChargesOf
<1>5. QED
  BY <1>3, <1>4

\* A commit leaves such rows: written back, opened or closed.
LEMMA CommitCharged ==
  ASSUME TypeInv, FundingInv, NEW w \in Workers, NEW p \in OpenKeys,
         CommitIdle(w) \/ CommitOpen(w) \/ CommitRejected(w) \/ CommitClose(w)
  PROVE  ChargedOnce(position'[p])
<1>1. ChargedOnce(FundedRows(w)[p]) /\ FundedRows(w) \in [OpenKeys -> Rows]
  BY WrittenCharged, FundedRowsType DEF TypeInv
<1>2. CASE CommitIdle(w) \/ CommitRejected(w)
  BY <1>1, <1>2 DEF CommitIdle, CommitRejected
<1>3. CASE CommitOpen(w)
  <2>1. PICK q : position' = [FundedRows(w) EXCEPT ![q] = NewRow]
    BY <1>3 DEF CommitOpen
  <2>2. NewRow.funding = NoRow.funding /\ NewRow.last_funding_at = NoRow.last_funding_at
    BY DEF NewRow, NoRow
  <2>3. vector \in Nat
    BY Bounds DEF TypeInv, TypeOK
  <2>4. ChargedOnce(NewRow)
    BY <2>2, <2>3, NothingCharged, ChargesOf
  <2>5. position'[p] = FundedRows(w)[p] \/ position'[p] = NewRow
    BY <1>1, <2>1
  <2>6. QED
    BY <1>1, <2>4, <2>5
<1>4. CASE CommitClose(w)
  <2>1. PICK q : position' = [FundedRows(w) EXCEPT ![q].status = "CLOSED"]
    BY <1>4 DEF CommitClose
  <2>2. position'[p] \in {FundedRows(w)[p], [FundedRows(w)[p] EXCEPT !.status = "CLOSED"]}
    BY <1>1, <2>1
  <2>3. \A row \in Rows : /\ [row EXCEPT !.status = "CLOSED"].funding = row.funding
                          /\ [row EXCEPT !.status = "CLOSED"].last_funding_at
                               = row.last_funding_at
    BY DEF Rows
  <2>4. /\ position'[p].funding = FundedRows(w)[p].funding
        /\ position'[p].last_funding_at = FundedRows(w)[p].last_funding_at
    BY <1>1, <2>2, <2>3
  <2>5. QED
    BY <1>1, <2>4, ChargesOf
<1>5. QED
  BY <1>2, <1>3, <1>4

\* A cycle reads charged rows, and works on the newest vector it has found.
LEMMA ReadCharged ==
  ASSUME TypeInv, FundingInv, NEW w \in Workers, Cycle(w)
  PROVE  /\ view'[w].cutoff <= vector
         /\ \A p \in OpenKeys : ChargedOnce(view'[w].rows[p])
<1> USE DEF TypeInv
<1>1. vector \in Nat /\ view[w] \in Views /\ view \in [Workers -> Views]
  BY Bounds DEF TypeOK
<1>2. view[w].cutoff <= vector /\ \A p \in OpenKeys : ChargedOnce(view[w].rows[p])
  BY DEF FundingInv
<1>3. CASE BeginCycle(w)
  <2>1. PICK now, convert, covered :
          view' = [view EXCEPT ![w] = [@ EXCEPT !.cutoff = vector, !.age = now,
                                                !.convert = convert, !.covered = covered]]
    BY <1>3 DEF BeginCycle
  <2>2. view'[w].cutoff = vector /\ view'[w].rows = view[w].rows
    BY <1>1, <2>1 DEF Views
  <2>3. QED
    BY <1>1, <1>2, <2>2
<1>4. CASE ReadPositions(w)
  <2> DEFINE metric == FundingMetric(Instrument[w], view[w].cutoff)
  <2>1. PICK selected \in SUBSET OpenKeys : ReadRows(w, selected)
    BY <1>4 DEF ReadPositions, OpenPositions
  <2>2. metric \in 0 .. MaxMetric /\ metric <= vector
    <3>1. view[w].cutoff \in 0 .. MaxVector
      BY <1>1 DEF Views
    <3>2. metric \in 0 .. MaxMetric /\ metric <= view[w].cutoff
      BY <3>1, FundingMetricType
    <3> HIDE DEF metric
    <3>3. QED
      BY <1>1, <1>2, <3>1, <3>2, Bounds
  <2> DEFINE rows == [p \in OpenKeys |->
                        IF p \in selected THEN Funded(position[p], metric) ELSE NoRow]
  <2>3. PICK below, charged :
          view' = [view EXCEPT ![w] = [@ EXCEPT !.below_limit = below, !.rows = rows,
                                                !.charged = charged]]
    BY <2>1 DEF ReadRows
  <2> HIDE DEF rows, metric
  <2>4. view'[w].cutoff = view[w].cutoff /\ view'[w].rows = rows
    BY <1>1, <2>3 DEF Views
  <2>5. ASSUME NEW p \in OpenKeys PROVE ChargedOnce(rows[p])
    <3>1. position[p] \in Rows /\ ChargedOnce(position[p])
      BY DEF TypeOK, FundingInv, FundingOncePerMetric
    <3>2. rows[p] = Funded(position[p], metric) \/ rows[p] = NoRow
      BY DEF rows
    <3>3. QED
      BY <1>1, <2>2, <3>1, <3>2, FundedCharged, NothingCharged
  <2>6. QED
    BY <1>2, <2>4, <2>5
<1>5. CASE AutoExit(w) \/ SkipEntry(w) \/ Enter(w) \/ Leave(w) \/ Hold(w) \/ ReserveOrder(w)
  BY <1>2, <1>5 DEF AutoExit, SkipEntry, Enter, Leave, Hold, ReserveOrder
<1>6. CASE Predict(w)
  <2>1. view'[w].cutoff = view[w].cutoff /\ view'[w].rows = view[w].rows
    BY <1>1, <1>6 DEF Predict, Views
  <2>2. QED
    BY <1>2, <2>1
<1>7. CASE CommitIdle(w) \/ CommitOpen(w) \/ CommitRejected(w) \/ CommitClose(w) \/ Abort(w)
  <2>1. view' = [view EXCEPT ![w] = NoView]
    BY <1>7 DEF CommitIdle, CommitOpen, CommitRejected, CommitClose, CommitCycle, Abort
  <2>2. view'[w].cutoff = 0 /\ \A p \in OpenKeys : view'[w].rows[p] = NoRow
    BY <1>1, <2>1 DEF NoView
  <2>3. QED
    BY <1>1, <2>2, NothingCharged
<1>8. QED
  BY <1>3, <1>4, <1>5, <1>6, <1>7 DEF Cycle

\* A worker neither publishes a vector nor stores a metric.
LEMMA MarketAlone ==
  ASSUME NEW w \in Workers, Cycle(w)
  PROVE  vector' = vector
  BY DEF Cycle, BeginCycle, ReadPositions, ReadRows, AutoExit, SkipEntry, Predict, Enter,
     Leave, Hold, ReserveOrder, CommitIdle, CommitOpen, CommitRejected, CommitClose, CommitCycle,
     Abort, market

\* Every step of a worker keeps the funding invariant.
LEMMA FundingCycle ==
  ASSUME TypeInv, FundingInv, NEW w \in Workers, Cycle(w)
  PROVE  FundingInv'
<1>1. vector' = vector
  BY MarketAlone
<1>2. \A p \in OpenKeys : ChargedOnce(position'[p])
  <2>1. CASE CommitIdle(w) \/ CommitOpen(w) \/ CommitRejected(w) \/ CommitClose(w)
    BY <2>1, CommitCharged
  <2>2. CASE position' = position
    BY <2>2 DEF FundingInv, FundingOncePerMetric
  <2>3. QED
    BY <2>1, <2>2 DEF Cycle, tables, BeginCycle, ReadPositions, ReadRows, AutoExit, SkipEntry,
       Predict, Enter, Leave, Hold, ReserveOrder, Abort
<1>3. ASSUME NEW v \in Workers
      PROVE  view'[v].cutoff <= vector /\ \A p \in OpenKeys : ChargedOnce(view'[v].rows[p])
  <2>1. CASE v = w
    BY <2>1, ReadCharged
  <2>2. CASE v # w
    BY <2>2, Locality DEF FundingInv
  <2>3. QED
    BY <2>1, <2>2
<1>4. QED
  BY <1>1, <1>2, <1>3 DEF FundingInv, FundingOncePerMetric, ChargedOnce

\* The funding invariant holds for any number of workers.
THEOREM FundingInvariant == Spec => []FundingInv
<1>1. Init => FundingInv
  <2> SUFFICES ASSUME Init PROVE FundingInv
    OBVIOUS
  <2>1. ChargedOnce(NoRow)
    BY NothingCharged DEF Init
  <2>2. NoView.cutoff = 0 /\ \A p \in OpenKeys : NoView.rows[p] = NoRow
    BY DEF NoView
  <2>3. QED
    BY <2>1, <2>2 DEF Init, FundingInv, FundingOncePerMetric
<1>2. FundingInv /\ TypeInv /\ [Next]_vars => FundingInv'
  <2> SUFFICES ASSUME FundingInv, TypeInv, [Next]_vars PROVE FundingInv'
    OBVIOUS
  <2>1. CASE NewVector \/ GrowOld \/ StoreMetric \/ UNCHANGED vars
    <3>1. /\ position' = position /\ view' = view
          /\ vector' = vector \/ vector' = vector + 1
      BY <2>1 DEF NewVector, GrowOld, StoreMetric, tables, vars
    <3>2. /\ vector \in Nat /\ \A w \in Workers : view[w].cutoff \in Nat
          /\ \A p \in OpenKeys : position[p].last_funding_at \in Nat
          /\ \A w \in Workers : \A p \in OpenKeys : view[w].rows[p].last_funding_at \in Nat
      BY Bounds DEF TypeInv, TypeOK, Views, Rows
    <3>3. QED
      BY <3>1, <3>2 DEF FundingInv, FundingOncePerMetric, ChargedOnce
  <2>2. QED
    BY <2>1, FundingCycle DEF Next
<1>3. QED
  BY <1>1, <1>2, TypeInvariant, PTL DEF Spec

\* No position is ever charged twice for one metric, whatever the order in which metrics
\* are stored and however many workers there are: the charge is computed at the read and
\* written at the commit, with last_funding_at.  (Two workers of one instrument may lose
\* a charge.)
THEOREM FundedOnce == Spec => []FundingOncePerMetric
  BY FundingInvariant, PTL DEF FundingInv
-----------------------------------------------------------------------------
(* One worker per instrument *)

\* What the deployment is meant to keep: no two workers serve one instrument.
OneWorkerPerInstrument == \A v, w \in Workers : Instrument[v] = Instrument[w] => v = w

\* Where a cycle is once it has read the positions.
Reading == {"exits", "policy", "reserve", "execute", "commit"}

\* A row that a cycle has read: the one of the table, charged for at most one metric,
\* which was observed not after the vector of the cycle.
AsRead(row, p, cutoff) ==
  \E metric \in 0 .. MaxMetric : metric <= cutoff /\ row = Funded(position[p], metric)

\* What a cycle has read of the positions of its instrument is still so.
ReadInv ==
  \A w \in Workers : pc[w] \in Reading =>
    /\ Held(w) = {p \in OpenPositions : p.instrument = Instrument[w]}
    /\ \A p \in Held(w) : AsRead(view[w].rows[p], p, view[w].cutoff)
    /\ view[w].charged \subseteq Held(w)

\* An order opens the position of the cycle's event, while none is held, or closes
\* one that is held.
PlacedInv ==
  \A w \in Workers : \A o \in order[w] :
    /\ pc[w] \in {"reserve", "execute"}
    /\ \/ /\ o.op = "OPEN" /\ Held(w) = {}
          /\ o.key = BusinessKey(w) /\ o.position = BusinessKey(w)
       \/ o.op = "CLOSE" /\ o.position \in Held(w)

\* A debit is booked under the key that names its position.
DebitsNamed == \A e \in ledger : e.op = "OPEN" => e.key = e.position

CycleInv == ReadInv /\ PlacedInv

TableInv == PositionMatchesLedger /\ DebitsNamed /\ OnePositionPerInstrument

\* What a step of a worker does to positions and ledger: only funding ...
Charges(w) == pc[w] \in Reading /\ position' = FundedRows(w) /\ ledger' = ledger

\* ... an opening ...
Opens(w, p, cost) ==
  /\ pc[w] \in Reading /\ Held(w) = {} /\ p = BusinessKey(w)
  /\ position[p].status = "NONE" /\ \A e \in ledger : e.key # p
  /\ position' = [FundedRows(w) EXCEPT ![p] = NewRow]
  /\ ledger' = ledger \cup {[key |-> p, op |-> "OPEN", position |-> p, amount |-> -cost]}

\* ... or a close.
Closes(w, p, key, paid) ==
  /\ pc[w] \in Reading /\ p \in Held(w)
  /\ \A e \in ledger : e.key # key
  /\ position' = [FundedRows(w) EXCEPT ![p].status = "CLOSED"]
  /\ ledger' = ledger \cup {[key |-> key, op |-> "CLOSE", position |-> p, amount |-> paid]}

\* Nothing in the ledger has the key of an order about to be committed.
LEMMA KeyUnbooked ==
  ASSUME TypeInv, ClaimInv, FillBookedOnce, NEW w \in Workers, pc[w] = "execute",
         NEW o \in order[w]
  PROVE  o \in Orders /\ \A e \in ledger : e.key # o.key
<1>1. o \in Orders /\ orders[o.key] = "ABSENT" /\ o.key \in Keys
  BY DEF TypeInv, TypeOK, ClaimInv, ClaimFresh, Orders
<1>2. QED
  BY <1>1 DEF FillBookedOnce

\* Every step of a worker is one of these, or leaves positions and ledger alone.
LEMMA CycleEffects ==
  ASSUME OrderInv, CycleInv, TableInv, NEW w \in Workers, Cycle(w)
  PROVE  \/ position' = position /\ ledger' = ledger
         \/ Charges(w)
         \/ \E p \in OpenKeys, cost \in Costs : Opens(w, p, cost)
         \/ \E p \in OpenKeys, key \in Keys, paid \in Payouts : Closes(w, p, key, paid)
<1> USE DEF OrderInv
<1>1. CASE CommitIdle(w) \/ CommitRejected(w)
  BY <1>1 DEF CommitIdle, CommitRejected, Transition, Charges, Reading
<1>2. CASE CommitOpen(w)
  <2>1. PICK o \in order[w], cost \in Costs :
          /\ o.op = "OPEN"
          /\ Book([key |-> o.key, op |-> "OPEN", position |-> o.position, amount |-> -cost])
          /\ position' = [FundedRows(w) EXCEPT ![o.position] = NewRow]
    BY <1>2 DEF CommitOpen
  <2>2. pc[w] = "execute" /\ pc[w] \in Reading
    BY <1>2 DEF CommitOpen, Transition, Reading
  <2>3. o \in Orders /\ \A e \in ledger : e.key # o.key
    BY <2>2, KeyUnbooked
  <2>4. /\ Held(w) = {} /\ o.key = BusinessKey(w) /\ o.position = BusinessKey(w)
        /\ o.position \in OpenKeys
    BY <2>1, <2>3 DEF CycleInv, PlacedInv, Orders
  <2>5. position[o.position].status = "NONE"
    BY <2>3, <2>4 DEF TableInv, PositionMatchesLedger, DebitsNamed
  <2>6. Opens(w, o.position, cost)
    BY <2>1, <2>2, <2>3, <2>4, <2>5 DEF Opens, Book
  <2>7. QED
    BY <2>4, <2>6
<1>3. CASE CommitClose(w)
  <2>1. PICK o \in order[w], paid \in Payouts :
          /\ o.op = "CLOSE"
          /\ Book([key |-> o.key, op |-> "CLOSE", position |-> o.position, amount |-> paid])
          /\ position' = [FundedRows(w) EXCEPT ![o.position].status = "CLOSED"]
    BY <1>3 DEF CommitClose
  <2>2. pc[w] = "execute" /\ pc[w] \in Reading
    BY <1>3 DEF CommitClose, Transition, Reading
  <2>3. o \in Orders /\ \A e \in ledger : e.key # o.key
    BY <2>2, KeyUnbooked
  <2>4. o.position \in Held(w) /\ o.position \in OpenKeys /\ o.key \in Keys
    BY <2>1, <2>3 DEF CycleInv, PlacedInv, Orders
  <2>5. Closes(w, o.position, o.key, paid)
    BY <2>1, <2>2, <2>3, <2>4 DEF Closes, Book
  <2>6. QED
    BY <2>4, <2>5
<1>4. CASE UNCHANGED <<position, ledger>>
  BY <1>4
<1>5. QED
  BY <1>1, <1>2, <1>3, <1>4 DEF Cycle, tables, BeginCycle, ReadPositions, ReadRows, AutoExit,
     SkipEntry, Predict, Enter, Leave, Hold, ReserveOrder, Abort

\* The funding written back is that of rows the cycle holds, each charged for the
\* metric it has read or not at all.
LEMMA FundedEither ==
  ASSUME TypeInv, ReadInv, NEW w \in Workers, pc[w] \in Reading, NEW p \in OpenKeys
  PROVE  \/ FundedRows(w)[p] = position[p]
         \/ p \in Held(w) /\ AsRead(FundedRows(w)[p], p, view[w].cutoff)
<1>1. CASE p \notin view[w].charged
  BY <1>1 DEF FundedRows
<1>2. CASE p \in view[w].charged
  <2>1. p \in Held(w)
    BY <1>2 DEF ReadInv
  <2>2. PICK metric \in 0 .. MaxMetric :
          metric <= view[w].cutoff /\ view[w].rows[p] = Funded(position[p], metric)
    BY <2>1 DEF ReadInv, AsRead
  <2>3. position[p] \in Rows
    BY DEF TypeInv, TypeOK
  <2> DEFINE row == Funded(position[p], metric)
  <2>4. row \in Rows /\ row.status = position[p].status
    BY <2>3, FundedType
  <2>5. FundedRows(w)[p] = [position[p] EXCEPT !.funding = view[w].rows[p].funding,
                              !.last_funding_at = view[w].rows[p].last_funding_at]
    BY <1>2 DEF FundedRows
  <2>6. \A f \in Rows : f.status = position[p].status =>
          [position[p] EXCEPT !.funding = f.funding, !.last_funding_at = f.last_funding_at] = f
    BY <2>3 DEF Rows
  <2> HIDE DEF row
  <2>7. FundedRows(w)[p] = row
    BY <2>2, <2>4, <2>5, <2>6 DEF row
  <2>8. QED
    BY <2>1, <2>2, <2>7 DEF AsRead, row
<1>3. QED
  BY <1>1, <1>2

\* Outside the worker's instrument no position changes.
LEMMA OtherInstruments ==
  ASSUME OrderInv, CycleInv, TableInv, NEW w \in Workers, Cycle(w),
         NEW p \in OpenKeys, p.instrument # Instrument[w]
  PROVE  position'[p] = position[p]
<1>1. pc[w] \in Reading => p \notin Held(w)
  BY DEF CycleInv, ReadInv
<1>2. pc[w] \in Reading => FundedRows(w)[p] = position[p]
  BY <1>1, FundedEither DEF OrderInv, CycleInv
<1>3. BusinessKey(w) # p
  BY DEF BusinessKey
<1>4. FundedRows(w) \in [OpenKeys -> Rows]
  BY FundedRowsType DEF OrderInv, TypeInv
<1>5. CASE Charges(w)
  BY <1>2, <1>5 DEF Charges
<1>6. ASSUME NEW q \in OpenKeys, NEW cost \in Costs, Opens(w, q, cost)
      PROVE  position'[p] = position[p]
  BY <1>2, <1>3, <1>4, <1>6 DEF Opens
<1>7. ASSUME NEW q \in OpenKeys, NEW key \in Keys, NEW paid \in Payouts,
             Closes(w, q, key, paid)
      PROVE  position'[p] = position[p]
  BY <1>1, <1>2, <1>4, <1>7 DEF Closes
<1>8. QED
  BY <1>5, <1>6, <1>7, CycleEffects

\* The worker's own reads.
LEMMA OwnReads ==
  ASSUME TypeInv, ReadInv, NEW w \in Workers, Cycle(w), pc'[w] \in Reading
  PROVE  /\ position' = position
         /\ Held(w)' = {p \in OpenPositions : p.instrument = Instrument[w]}
         /\ \A p \in Held(w)' : AsRead(view'[w].rows[p], p, view'[w].cutoff)
         /\ view'[w].charged \subseteq Held(w)'
<1> USE DEF TypeInv
<1>1. CASE ReadPositions(w)
  <2> DEFINE selected == {p \in OpenPositions : p.instrument = Instrument[w]}
             metric == FundingMetric(Instrument[w], view[w].cutoff)
             rows == [p \in OpenKeys |->
                        IF p \in selected THEN Funded(position[p], metric) ELSE NoRow]
  <2>1. /\ view' = [view EXCEPT ![w] =
             [@ EXCEPT !.below_limit = Cardinality(OpenPositions) < MaxOpenPositions,
                       !.rows = rows,
                       !.charged = {p \in selected : rows[p] # position[p]}]]
        /\ position' = position
    BY <1>1 DEF ReadPositions, ReadRows, tables
  <2>2. view[w] \in Views /\ position \in [OpenKeys -> Rows]
    BY DEF TypeOK
  <2>0. metric \in 0 .. MaxMetric /\ metric <= view[w].cutoff
    <3>1. view[w].cutoff \in 0 .. MaxVector
      BY <2>2 DEF Views
    <3>2. QED
      BY <3>1, FundingMetricType
  <2> HIDE DEF rows, metric
  <2>3. /\ view'[w].rows = rows /\ view'[w].cutoff = view[w].cutoff
        /\ view'[w].charged \subseteq selected
    BY <2>1, <2>2 DEF Views, TypeOK
  <2>4. \A p \in selected : rows[p].status = "OPEN"
    BY <2>0, <2>2, FundedType DEF rows, OpenPositions
  <2>5. \A p \in OpenKeys \ selected : rows[p].status = "NONE"
    BY DEF rows, NoRow
  <2>6. Held(w)' = selected
    BY <2>3, <2>4, <2>5 DEF Held, OpenPositions
  <2>7. \A p \in selected : AsRead(rows[p], p, view[w].cutoff)
    BY <2>0 DEF rows, OpenPositions, AsRead
  <2>8. QED
    BY <2>1, <2>3, <2>6, <2>7
<1>2. CASE \/ AutoExit(w) \/ SkipEntry(w) \/ Predict(w) \/ Enter(w) \/ Leave(w) \/ Hold(w)
           \/ ReserveOrder(w)
  <2>1. /\ pc[w] \in Reading /\ position' = position
        /\ view' = view \/ view' = [view EXCEPT ![w].predicted = TRUE]
    BY <1>2 DEF AutoExit, SkipEntry, Predict, Enter, Leave, Hold, ReserveOrder, Transition,
                Reading, tables
  <2>2. /\ view'[w].rows = view[w].rows /\ view'[w].charged = view[w].charged
        /\ view'[w].cutoff = view[w].cutoff
    BY <2>1 DEF TypeOK, Views
  <2>3. QED
    BY <2>1, <2>2 DEF ReadInv, Held
<1>3. CASE BeginCycle(w) \/ CommitIdle(w) \/ CommitOpen(w) \/ CommitRejected(w)
             \/ CommitClose(w) \/ Abort(w)
  <2>1. pc'[w] \in {"idle", "positions"}
    BY <1>3 DEF BeginCycle, CommitIdle, CommitOpen, CommitRejected, CommitClose, Abort,
                Transition, TypeOK
  <2>2. QED
    BY <2>1 DEF Reading
<1>4. QED
  BY <1>1, <1>2, <1>3 DEF Cycle

\* No other worker of its instrument invalidates what a worker has read.
LEMMA ReadStep ==
  ASSUME OneWorkerPerInstrument, OrderInv, CycleInv, TableInv, NEW w \in Workers, Cycle(w)
  PROVE  ReadInv'
<1> DEFINE AsReadNext(v, p) ==
      \E metric \in 0 .. MaxMetric :
        /\ metric <= view'[v].cutoff
        /\ view'[v].rows[p] = Funded(position'[p], metric)
<1> SUFFICES ASSUME NEW v \in Workers, pc'[v] \in Reading
             PROVE  /\ Held(v)' = {p \in OpenPositions' : p.instrument = Instrument[v]}
                    /\ \A p \in Held(v)' : AsReadNext(v, p)
                    /\ view'[v].charged \subseteq Held(v)'
  BY DEF ReadInv, AsRead
<1>1. CASE v = w
  <2>1. OpenPositions' = OpenPositions
    BY <1>1, OwnReads DEF OrderInv, CycleInv, OpenPositions
  <2>2. QED
    BY <1>1, <2>1, OwnReads DEF OrderInv, CycleInv, AsRead
<1>2. CASE v # w
  <2>1. pc[v] \in Reading /\ view'[v] = view[v]
    BY <1>2, Locality DEF OrderInv
  <2>2. Held(v)' = Held(v)
    BY <2>1 DEF Held
  <2>3. \A p \in OpenKeys : p.instrument = Instrument[v] => position'[p] = position[p]
    BY <1>2, OtherInstruments DEF OneWorkerPerInstrument
  <2>4. {p \in OpenPositions' : p.instrument = Instrument[v]}
          = {p \in OpenPositions : p.instrument = Instrument[v]}
    BY <2>3 DEF OpenPositions
  <2>5. Held(v) \subseteq OpenKeys /\ \A p \in Held(v) : p.instrument = Instrument[v]
    BY <2>1 DEF CycleInv, ReadInv, Held
  <2>6. QED
    BY <2>1, <2>2, <2>3, <2>4, <2>5 DEF CycleInv, ReadInv, AsRead
<1>3. QED
  BY <1>1, <1>2

\* An order is placed on what the cycle holds, which it does not change afterwards.
LEMMA PlacedStep ==
  ASSUME TypeInv, CycleInv, NEW w \in Workers, Cycle(w)
  PROVE  PlacedInv'
<1> USE DEF TypeInv
<1> SUFFICES ASSUME NEW v \in Workers, NEW o \in order'[v]
             PROVE  /\ pc'[v] \in {"reserve", "execute"}
                    /\ \/ /\ o.op = "OPEN" /\ Held(v)' = {}
                          /\ o.key = BusinessKey(v)' /\ o.position = BusinessKey(v)'
                       \/ o.op = "CLOSE" /\ o.position \in Held(v)'
  BY DEF PlacedInv
<1>1. CASE v # w
  BY <1>1, Locality DEF CycleInv, PlacedInv, Held, BusinessKey
<1>2. CASE v = w
  <2>1. CASE AutoExit(w) \/ Enter(w) \/ Leave(w)
    <3>1. view' = view /\ pc'[w] = "reserve"
      BY <2>1 DEF AutoExit, Enter, Leave, Transition, TypeOK
    <3>2. \/ /\ o.op = "OPEN" /\ Held(w) = {}
             /\ o.key = BusinessKey(w) /\ o.position = BusinessKey(w)
          \/ o.op = "CLOSE" /\ o.position \in Held(w)
      BY <1>2, <2>1 DEF AutoExit, Enter, Leave, TypeOK
    <3>3. QED
      BY <1>2, <3>1, <3>2 DEF Held, BusinessKey
  <2>2. CASE ReserveOrder(w)
    <3>1. view' = view /\ order'[w] \subseteq order[w]
          /\ (order'[w] # {} => pc'[w] = "execute")
      BY <2>2 DEF ReserveOrder, Transition, TypeOK
    <3>2. QED
      BY <1>2, <3>1 DEF CycleInv, PlacedInv, Held, BusinessKey
  <2>3. CASE BeginCycle(w) \/ ReadPositions(w) \/ SkipEntry(w) \/ Predict(w) \/ Hold(w)
    <3>1. order' = order /\ pc[w] \notin {"reserve", "execute"}
      BY <2>3 DEF BeginCycle, ReadPositions, ReadRows, SkipEntry, Predict, Hold, Transition
    <3>2. QED
      BY <1>2, <3>1 DEF CycleInv, PlacedInv
  <2>4. CASE CommitIdle(w) \/ CommitOpen(w) \/ CommitRejected(w) \/ CommitClose(w)
               \/ Abort(w)
    <3>1. order'[w] = {}
      BY <2>4 DEF CommitIdle, CommitOpen, CommitRejected, CommitClose, CommitCycle, Abort,
                  TypeOK
    <3>2. QED
      BY <1>2, <3>1
  <2>5. QED
    BY <2>1, <2>2, <2>3, <2>4 DEF Cycle
<1>3. QED
  BY <1>1, <1>2

\* What a close leaves of the rows.
LEMMA ClosedRows ==
  ASSUME TypeInv, NEW w \in Workers, NEW p \in OpenKeys, NEW key, NEW paid,
         Closes(w, p, key, paid)
  PROVE  /\ position'[p] = [FundedRows(w)[p] EXCEPT !.status = "CLOSED"]
         /\ position'[p].status = "CLOSED"
         /\ \A q \in OpenKeys \ {p} : position'[q] = FundedRows(w)[q]
<1>1. FundedRows(w) \in [OpenKeys -> Rows]
  BY FundedRowsType DEF TypeInv
<1>2. QED
  BY <1>1 DEF Closes, Rows

\* What an opening leaves of the rows.
LEMMA OpenedRows ==
  ASSUME TypeInv, NEW w \in Workers, NEW p \in OpenKeys, NEW cost, Opens(w, p, cost)
  PROVE  /\ position'[p] = NewRow /\ position'[p].status = "OPEN"
         /\ \A q \in OpenKeys \ {p} : position'[q] = FundedRows(w)[q]
<1>1. FundedRows(w) \in [OpenKeys -> Rows]
  BY FundedRowsType DEF TypeInv
<1>2. NewRow.status = "OPEN"
  BY DEF NewRow, NoRow
<1>3. QED
  BY <1>1, <1>2 DEF Opens

\* Positions and ledger keep agreeing, and each instrument keeps at most one position.
LEMMA TableStep ==
  ASSUME OrderInv, CycleInv, TableInv, NEW w \in Workers, Cycle(w)
  PROVE  TableInv'
<1> USE DEF OrderInv
<1>1. \A p \in OpenKeys : FundedRows(w)[p].status = position[p].status
  BY FundedRowsType DEF TypeInv
<1>2. CASE position' = position /\ ledger' = ledger
  BY <1>2 DEF TableInv, PositionMatchesLedger, DebitsNamed, OnePositionPerInstrument
<1>3. CASE Charges(w)
  BY <1>1, <1>3 DEF Charges, TableInv, PositionMatchesLedger, DebitsNamed,
                    OnePositionPerInstrument
<1>4. ASSUME NEW p \in OpenKeys, NEW cost \in Costs, Opens(w, p, cost) PROVE TableInv'
  <2> DEFINE debit == [key |-> p, op |-> "OPEN", position |-> p, amount |-> -cost]
  <2>1. /\ ledger' = ledger \cup {debit} /\ position[p].status = "NONE"
        /\ debit.op = "OPEN" /\ debit.position = p /\ debit.key = p
    BY <1>4 DEF Opens
  <2> HIDE DEF debit
  <2>2. /\ position'[p].status = "OPEN"
        /\ \A q \in OpenKeys \ {p} : position'[q].status = position[q].status
    BY <1>1, <1>4, OpenedRows
  <2>3. \A e \in ledger : e.position # p \/ e.op \notin {"OPEN", "CLOSE"}
    BY <2>1 DEF TableInv, PositionMatchesLedger
  <2>4. PositionMatchesLedger'
    BY <2>1, <2>2, <2>3 DEF TableInv, PositionMatchesLedger
  <2>5. DebitsNamed'
    BY <2>1 DEF TableInv, DebitsNamed
  <2>6. p.instrument = Instrument[w] /\ \A q \in OpenPositions : q.instrument # Instrument[w]
    BY <1>4 DEF Opens, BusinessKey, CycleInv, ReadInv
  <2>7. OnePositionPerInstrument'
    BY <2>2, <2>6 DEF TableInv, OnePositionPerInstrument, OpenPositions
  <2>8. QED
    BY <2>4, <2>5, <2>7 DEF TableInv
<1>5. ASSUME NEW p \in OpenKeys, NEW key \in Keys, NEW paid \in Payouts,
             Closes(w, p, key, paid)
      PROVE  TableInv'
  <2> DEFINE credit == [key |-> key, op |-> "CLOSE", position |-> p, amount |-> paid]
  <2>1. /\ ledger' = ledger \cup {credit}
        /\ credit.op = "CLOSE" /\ credit.position = p
    BY <1>5 DEF Closes
  <2> HIDE DEF credit
  <2>2. /\ position'[p].status = "CLOSED"
        /\ \A q \in OpenKeys \ {p} : position'[q].status = position[q].status
    BY <1>1, <1>5, ClosedRows
  <2>3. position[p].status = "OPEN"
    BY <1>5 DEF Closes, CycleInv, ReadInv, OpenPositions
  <2>4. \A e \in ledger : e.position # p \/ e.op # "CLOSE"
    BY <2>3 DEF TableInv, PositionMatchesLedger
  <2>5. PositionMatchesLedger'
    BY <2>1, <2>2, <2>3, <2>4 DEF TableInv, PositionMatchesLedger
  <2>6. DebitsNamed'
    BY <2>1 DEF TableInv, DebitsNamed
  <2>7. OnePositionPerInstrument'
    BY <2>2 DEF TableInv, OnePositionPerInstrument
  <2>8. QED
    BY <2>5, <2>6, <2>7 DEF TableInv
<1>6. QED
  BY <1>2, <1>3, <1>4, <1>5, CycleEffects

AloneInv == OrderInv /\ CycleInv /\ TableInv

\* Publishing a vector, growing old and polling leave what the cycles have read alone.
LEMMA OutsideStep ==
  ASSUME AloneInv, NewVector \/ GrowOld \/ StoreMetric \/ UNCHANGED vars
  PROVE  (CycleInv /\ TableInv)'
<1>1. position' = position /\ ledger' = ledger /\ pc' = pc /\ view' = view /\ order' = order
  BY DEF NewVector, GrowOld, StoreMetric, tables, vars
<1>2. CycleInv'
  BY <1>1 DEF AloneInv, CycleInv, ReadInv, AsRead, PlacedInv, Held, OpenPositions, BusinessKey
<1>3. TableInv'
  BY <1>1 DEF AloneInv, TableInv, PositionMatchesLedger, DebitsNamed, OnePositionPerInstrument
<1>4. QED
  BY <1>2, <1>3

\* Every step keeps the invariant of a worker that is alone on its instrument.
LEMMA AloneStep ==
  ASSUME OneWorkerPerInstrument
  PROVE  AloneInv /\ OrderInv' /\ [Next]_vars => AloneInv'
<1> SUFFICES ASSUME AloneInv, OrderInv', [Next]_vars PROVE AloneInv'
  OBVIOUS
<1>1. ASSUME NEW w \in Workers, Cycle(w) PROVE AloneInv'
  BY <1>1, ReadStep, PlacedStep, TableStep
  DEF AloneInv, CycleInv, OrderInv
<1>2. CASE NewVector \/ GrowOld \/ StoreMetric \/ UNCHANGED vars
  BY <1>2, OutsideStep DEF AloneInv
<1>3. QED
  BY <1>1, <1>2 DEF Next

\* Initially nothing is held, placed or booked.
LEMMA InitAlone == Init => CycleInv /\ TableInv
<1> SUFFICES ASSUME Init PROVE CycleInv /\ TableInv
  OBVIOUS
<1>1. NoRow.status = "NONE"
  BY DEF NoRow
<1>2. CycleInv
  BY DEF Init, CycleInv, ReadInv, PlacedInv, Reading
<1>3. TableInv
  BY <1>1 DEF Init, TableInv, PositionMatchesLedger, DebitsNamed, OnePositionPerInstrument
<1>4. QED
  BY <1>2, <1>3

\* The invariant behind all that follows: what a cycle has read of its instrument stays
\* so until it commits.
THEOREM AloneInvariant ==
  ASSUME OneWorkerPerInstrument PROVE Spec => []AloneInv
<1>1. Init /\ OrderInv => AloneInv
  BY InitAlone DEF AloneInv
<1>2. AloneInv /\ OrderInv' /\ [Next]_vars => AloneInv'
  BY AloneStep
<1>3. QED
  BY <1>1, <1>2, OrderInvariant, PTL DEF Spec

\* With one worker per instrument, the row of every position and the ledger tell the
\* same story: OPEN after one debit, CLOSED after one debit and one credit.  (Two
\* workers of one instrument could both credit a close: record_close does not look
\* whether the row is still OPEN.)
THEOREM PositionsAgree ==
  ASSUME OneWorkerPerInstrument PROVE Spec => []PositionMatchesLedger
<1>1. AloneInv => PositionMatchesLedger
  BY DEF AloneInv, TableInv
<1>2. QED
  BY <1>1, AloneInvariant, PTL

\* With one worker per instrument, no instrument ever has two OPEN positions: what
\* the policy has read as positions[0] cannot change before the cycle commits.
THEOREM OnePosition ==
  ASSUME OneWorkerPerInstrument PROVE Spec => []OnePositionPerInstrument
<1>1. AloneInv => OnePositionPerInstrument
  BY DEF AloneInv, TableInv
<1>2. QED
  BY <1>1, AloneInvariant, PTL

-----------------------------------------------------------------------------
(* The abstract account *)

Settled == {p \in OpenKeys : position[p].status = "CLOSED"}

AccountStep == \E p \in OpenKeys : Account!Open(p) \/ Account!Close(p)

AccountBook == <<OpenPositions, Settled, ledger>>

\* An opening of the worker is one of the account.
LEMMA OpenMapped ==
  ASSUME AloneInv, NEW w \in Workers, NEW p \in OpenKeys, NEW cost \in Costs, Opens(w, p, cost)
  PROVE  Account!Open(p)
<1> USE DEF AloneInv, OrderInv
<1>1. /\ position[p].status = "NONE" /\ (\A e \in ledger : e.key # p) /\ p \in Keys
      /\ ledger' = ledger \cup {[key |-> p, op |-> "OPEN", position |-> p, amount |-> -cost]}
  BY DEF Opens, Keys
<1>2. /\ position'[p].status = "OPEN"
      /\ \A q \in OpenKeys \ {p} : position'[q].status = position[q].status
  BY OpenedRows, FundedRowsType DEF TypeInv
<1>3. p \notin OpenPositions \cup Settled
  BY <1>1 DEF OpenPositions, Settled
<1>4. OpenPositions' = OpenPositions \cup {p} /\ Settled' = Settled
  BY <1>1, <1>2 DEF OpenPositions, Settled
<1>5. Account!BookOnce(p, "OPEN", p, -cost)
  BY <1>1 DEF Account!BookOnce
<1>6. -cost \in {-c : c \in Costs}
  OBVIOUS
<1>7. QED
  BY <1>1, <1>3, <1>4, <1>5, <1>6 DEF Account!Open, Settled

\* A close of the worker is one of the account.
LEMMA CloseMapped ==
  ASSUME AloneInv, NEW w \in Workers, NEW p \in OpenKeys, NEW key \in Keys,
         NEW paid \in Payouts, Closes(w, p, key, paid)
  PROVE  Account!Close(p)
<1> USE DEF AloneInv, OrderInv
<1>1. /\ \A e \in ledger : e.key # key
      /\ ledger' = ledger \cup {[key |-> key, op |-> "CLOSE", position |-> p, amount |-> paid]}
  BY DEF Closes
<1>2. /\ position'[p].status = "CLOSED"
      /\ \A q \in OpenKeys \ {p} : position'[q].status = position[q].status
  <2>1. /\ position'[p].status = "CLOSED"
        /\ \A q \in OpenKeys \ {p} : position'[q] = FundedRows(w)[q]
    BY ClosedRows
  <2>2. \A q \in OpenKeys : FundedRows(w)[q].status = position[q].status
    BY FundedRowsType DEF TypeInv
  <2>3. QED
    BY <2>1, <2>2
<1>3. p \in OpenPositions
  BY DEF Closes, CycleInv, ReadInv
<1>4. OpenPositions' = OpenPositions \ {p} /\ Settled' = Settled \cup {p}
  BY <1>2, <1>3 DEF OpenPositions, Settled
<1>5. Account!BookOnce(key, "CLOSE", p, paid)
  BY <1>1 DEF Account!BookOnce
<1>6. QED
  BY <1>3, <1>4, <1>5 DEF Account!Close, Settled

\* Every step maps to one of the account or to none.
LEMMA StepMapped == AloneInv /\ [Next]_vars => [AccountStep]_AccountBook
<1> SUFFICES ASSUME AloneInv, [Next]_vars PROVE AccountStep \/ UNCHANGED AccountBook
  OBVIOUS
<1>1. CASE UNCHANGED <<position, ledger>>
  BY <1>1 DEF AccountBook, OpenPositions, Settled
<1>2. ASSUME NEW w \in Workers, Charges(w) PROVE UNCHANGED AccountBook
  <2>1. \A p \in OpenKeys : position'[p].status = position[p].status
    BY <1>2, FundedRowsType DEF Charges, AloneInv, OrderInv, TypeInv
  <2>2. QED
    BY <1>2, <2>1 DEF Charges, AccountBook, OpenPositions, Settled
<1>3. ASSUME NEW w \in Workers, Cycle(w) PROVE AccountStep \/ UNCHANGED AccountBook
  <2>1. \/ UNCHANGED <<position, ledger>> \/ Charges(w)
        \/ \E p \in OpenKeys, cost \in Costs : Opens(w, p, cost)
        \/ \E p \in OpenKeys, key \in Keys, paid \in Payouts : Closes(w, p, key, paid)
    BY <1>3, CycleEffects DEF AloneInv
  <2>2. QED
    BY <1>1, <1>2, <2>1, OpenMapped, CloseMapped DEF AccountStep
<1>4. CASE NewVector \/ GrowOld \/ StoreMetric \/ UNCHANGED vars
  BY <1>1, <1>4 DEF NewVector, GrowOld, StoreMetric, tables, vars
<1>5. QED
  BY <1>3, <1>4 DEF Next

\* With one worker per instrument, the transactions of the workers implement the
\* lifecycle of PaperAccount: what commits opens a position with its debit, closes an
\* open one with its credit, or changes nothing the account shows.
THEOREM AccountImplemented ==
  ASSUME OneWorkerPerInstrument PROVE Spec => ImplementsAccount
<1>1. Init => Account!Empty
  BY DEF Init, Account!Empty, OpenPositions, NoRow
<1>2. AloneInv /\ [Next]_vars
        => [\E p \in OpenKeys : Account!Open(p) \/ Account!Close(p)]_(Account!book)
  BY StepMapped DEF AccountStep, AccountBook, Account!book, Settled
<1>3. QED
  BY <1>1, <1>2, AloneInvariant, PTL DEF Spec, ImplementsAccount, Account!Lifecycle
-----------------------------------------------------------------------------
(* The cash is a fold over the set of entries.  That the order of the fold   *)
(* does not matter, and what an entry that is booked adds, is shown by least *)
(* counterexamples in the number of entries.                                 *)

\* Every nonempty set of natural numbers has a least element.
LEMMA LeastNumber ==
  ASSUME NEW T \in SUBSET Nat, T # {}
  PROVE  \E n \in T : \A m \in T : n <= m
<1>1. PICK n \in T : \A m \in T : <<m, n>> \notin OpToRel(<, Nat)
  BY WFMin, NatLessThanWellFounded, Zenon
<1>2. \A m \in T : m \in Nat /\ n \in Nat /\ ~(m < n)
  BY <1>1 DEF OpToRel
<1>3. \A m \in T : n <= m
  BY <1>2
<1>4. QED
  BY <1>3

\* Every nonempty set of finite sets has one of least cardinality.
LEMMA SmallestSet ==
  ASSUME NEW X, X # {}, \A T \in X : IsFiniteSet(T)
  PROVE  \E T \in X : \A U \in X : Cardinality(T) <= Cardinality(U)
<1> DEFINE sizes == {Cardinality(T) : T \in X}
<1>1. sizes \in SUBSET Nat /\ sizes # {}
  BY FS_CardinalityType
<1>2. PICK n \in sizes : \A m \in sizes : n <= m
  BY <1>1, LeastNumber
<1>3. QED
  BY <1>2

\* Taking an element away leaves a smaller set.
LEMMA SmallerSet ==
  ASSUME NEW T, IsFiniteSet(T), NEW x \in T
  PROVE  /\ IsFiniteSet(T \ {x}) /\ Cardinality(T) \in Nat
         /\ Cardinality(T \ {x}) \in Nat /\ Cardinality(T \ {x}) = Cardinality(T) - 1
  BY FS_RemoveElement, FS_CardinalityType

\* The entry that the fold takes next.
First(T) == CHOOSE e \in T : TRUE

\* What the fold makes of T, if g is what it makes of smaller sets.
Added(g, T) == IF T = {} THEN 0 ELSE First(T).amount + g[T \ {First(T)}]

\* The function by which the fold adds up the entries in S.
AddsUp(g, S) == g = [T \in SUBSET S |-> Added(g, T)]

\* There is such a function for every finite set.
LEMMA AddsUpExists ==
  ASSUME NEW S, IsFiniteSet(S)
  PROVE  \E g : AddsUp(g, S)
<1> DEFINE Upto(g, n) == /\ g = [T \in SUBSET S |-> g[T]]
                         /\ \A T \in SUBSET S : Cardinality(T) <= n => g[T] = Added(g, T)
           missing == {n \in Nat : ~\E g : Upto(g, n)}
<1>1. \A T \in SUBSET S : IsFiniteSet(T) /\ Cardinality(T) \in Nat
  BY FS_Subset, FS_CardinalityType
<1>2. missing = {}
  <2> SUFFICES ASSUME missing # {} PROVE FALSE
    OBVIOUS
  <2>1. PICK n \in missing : \A m \in missing : n <= m
    <3>1. missing \in SUBSET Nat
      OBVIOUS
    <3>2. QED
      BY <3>1, LeastNumber
  <2> HIDE DEF Upto
  <2>2. CASE n = 0
    <3> DEFINE g == [T \in SUBSET S |-> 0]
    <3>1. \A T \in SUBSET S : Cardinality(T) <= n => T = {}
      BY <1>1, <2>2, FS_EmptySet
    <3>2. Upto(g, n)
      BY <3>1 DEF Added, Upto
    <3>3. QED
      BY <3>2
  <2>3. CASE n # 0
    <3>1. n - 1 \in Nat /\ n - 1 \notin missing
      <4>1. n \in Nat /\ n - 1 \in Nat /\ ~(n <= n - 1)
        BY <2>3
      <4>2. QED
        BY <2>1, <4>1
    <3>2. PICK g : Upto(g, n - 1)
      BY <3>1
    <3> DEFINE h == [T \in SUBSET S |-> Added(g, T)]
    <3>3. \A T \in SUBSET S : h[T] = Added(g, T)
      OBVIOUS
    <3>4. \A T \in SUBSET S : Cardinality(T) <= n - 1 => h[T] = g[T]
      BY <3>2, <3>3 DEF Upto
    <3> HIDE DEF h
    <3>5. ASSUME NEW T \in SUBSET S, Cardinality(T) <= n PROVE h[T] = Added(h, T)
      <4>1. CASE T = {}
        BY <3>3, <4>1 DEF Added
      <4>2. CASE T # {}
        <5>1. First(T) \in T /\ T \ {First(T)} \in SUBSET S
          BY <4>2 DEF First
        <5>2. Cardinality(T \ {First(T)}) <= n - 1
          BY <1>1, <3>5, <5>1, SmallerSet
        <5>3. h[T \ {First(T)}] = g[T \ {First(T)}]
          BY <3>4, <5>1, <5>2
        <5>4. QED
          BY <3>3, <4>2, <5>3 DEF Added
      <4>3. QED
        BY <4>1, <4>2
    <3>6. h = [T \in SUBSET S |-> h[T]]
      BY DEF h
    <3>7. Upto(h, n)
      BY <3>5, <3>6 DEF Upto
    <3>8. QED
      BY <3>7
  <2>4. QED
    BY <2>2, <2>3
<1>3. PICK g : Upto(g, Cardinality(S))
  BY <1>1, <1>2
<1>4. \A T \in SUBSET S : Cardinality(T) <= Cardinality(S)
  BY FS_Subset
<1>5. QED
  BY <1>3, <1>4 DEF AddsUp

\* The order of the entries does not matter.
LEMMA AnyOrder ==
  ASSUME NEW S, IsFiniteSet(S), \A e \in S : e.amount \in Int, NEW g, AddsUp(g, S)
  PROVE  \A T \in SUBSET S :
           g[T] \in Int /\ \A x \in T : g[T] = x.amount + g[T \ {x}]
<1> DEFINE Good(T) == g[T] \in Int /\ \A x \in T : g[T] = x.amount + g[T \ {x}]
           bad == {T \in SUBSET S : ~Good(T)}
<1> SUFFICES ASSUME bad # {} PROVE FALSE
  OBVIOUS
<1>1. \A T \in SUBSET S : IsFiniteSet(T) /\ Cardinality(T) \in Nat
  BY FS_Subset, FS_CardinalityType
<1>2. PICK T \in bad : \A U \in bad : Cardinality(T) <= Cardinality(U)
  BY <1>1, SmallestSet
<1>3. T \in SUBSET S /\ ~Good(T)
  OBVIOUS
<1>4. ASSUME NEW U \in SUBSET S, Cardinality(U) < Cardinality(T) PROVE Good(U)
  <2>1. ~(Cardinality(T) <= Cardinality(U))
    BY <1>1, <1>3, <1>4
  <2> HIDE DEF Good
  <2>2. QED
    BY <1>2, <2>1
<1> HIDE DEF bad, Good
<1>5. \A U \in SUBSET S : g[U] = Added(g, U)
  BY DEF AddsUp
<1>6. CASE T = {}
  <2>1. g[T] = 0
    BY <1>3, <1>5, <1>6 DEF Added
  <2>2. QED
    BY <1>3, <1>6, <2>1 DEF Good
<1>7. CASE T # {}
  <2> DEFINE c == First(T)
  <2>1. c \in T /\ c.amount \in Int
    BY <1>3, <1>7 DEF First
  <2>2. g[T] = c.amount + g[T \ {c}]
    BY <1>3, <1>5, <1>7 DEF Added
  <2> HIDE DEF c
  <2>3. ASSUME NEW x \in T
        PROVE  /\ T \ {x} \in SUBSET S /\ IsFiniteSet(T \ {x}) /\ Good(T \ {x})
               /\ Cardinality(T \ {x}) \in Nat /\ Cardinality(T \ {x}) < Cardinality(T)
    <3>1. /\ T \ {x} \in SUBSET S /\ IsFiniteSet(T \ {x})
          /\ Cardinality(T \ {x}) \in Nat /\ Cardinality(T \ {x}) < Cardinality(T)
      BY <1>1, <1>3, SmallerSet
    <3>2. QED
      BY <1>4, <3>1
  <2>4. ASSUME NEW x \in T, x # c PROVE g[T] = x.amount + g[T \ {x}]
    <3> DEFINE rest == (T \ {c}) \ {x}
    <3>1. x \in T \ {c} /\ c \in T \ {x} /\ rest = (T \ {x}) \ {c}
      BY <2>1, <2>4
    <3>2. g[T \ {c}] = x.amount + g[rest]
      BY <2>1, <2>3, <3>1 DEF Good
    <3>3. g[T \ {x}] = c.amount + g[rest]
      BY <2>3, <3>1 DEF Good
    <3>4. x.amount \in Int /\ g[rest] \in Int
      <4>1. rest \in SUBSET S /\ Cardinality(rest) < Cardinality(T \ {c})
        <5>1. IsFiniteSet(T \ {c}) /\ T \ {c} \in SUBSET S
          BY <2>1, <2>3
        <5> DEFINE U == T \ {c}
        <5>2. IsFiniteSet(U) /\ x \in U /\ rest = U \ {x}
          BY <3>1, <5>1
        <5> HIDE DEF U, rest
        <5>3. Cardinality(U \ {x}) = Cardinality(U) - 1 /\ Cardinality(U) \in Nat
          BY <5>2, SmallerSet
        <5>4. Cardinality(rest) < Cardinality(U)
          BY <5>2, <5>3
        <5>5. QED
          BY <5>1, <5>4 DEF U, rest
      <4>2. Cardinality(rest) < Cardinality(T)
        BY <1>1, <1>3, <2>1, <2>3, <4>1
      <4>3. QED
        BY <1>3, <1>4, <4>1, <4>2 DEF Good
    <3> HIDE DEF rest
    <3>5. QED
      BY <2>1, <2>2, <3>2, <3>3, <3>4
  <2>5. g[T] \in Int
    <3>1. g[T \ {c}] \in Int
      BY <2>1, <2>3 DEF Good
    <3>2. QED
      BY <2>1, <2>2, <3>1
  <2>6. Good(T)
    BY <2>2, <2>4, <2>5 DEF Good
  <2>7. QED
    BY <1>3, <2>6
<1>8. QED
  BY <1>6, <1>7

\* Some of the entries add up to the same among more of them.
LEMMA AddsUpAgree ==
  ASSUME NEW S, IsFiniteSet(S), \A e \in S : e.amount \in Int, NEW R \in SUBSET S,
         NEW g, AddsUp(g, R), NEW h, AddsUp(h, S)
  PROVE  \A T \in SUBSET R : g[T] = h[T]
<1> DEFINE bad == {T \in SUBSET R : g[T] # h[T]}
<1> SUFFICES ASSUME bad # {} PROVE FALSE
  OBVIOUS
<1>1. \A T \in SUBSET R : T \in SUBSET S /\ IsFiniteSet(T) /\ Cardinality(T) \in Nat
  BY FS_Subset, FS_CardinalityType
<1>2. PICK T \in bad : \A U \in bad : Cardinality(T) <= Cardinality(U)
  BY <1>1, SmallestSet
<1>3. T \in SUBSET R /\ g[T] # h[T]
  OBVIOUS
<1>4. g[T] = Added(g, T) /\ h[T] = Added(h, T)
  BY <1>1, <1>3 DEF AddsUp
<1>5. CASE T = {}
  BY <1>3, <1>4, <1>5 DEF Added
<1>6. CASE T # {}
  <2> DEFINE U == T \ {First(T)}
  <2>1. First(T) \in T
    BY <1>6 DEF First
  <2>2. U \in SUBSET R /\ Cardinality(U) < Cardinality(T)
    <3>1. Cardinality(U) = Cardinality(T) - 1 /\ Cardinality(T) \in Nat
      BY <1>1, <1>3, <2>1, SmallerSet
    <3>2. QED
      BY <1>3, <3>1
  <2>3. U \notin bad
    <3>1. ~(Cardinality(T) <= Cardinality(U))
      BY <1>1, <1>3, <2>2
    <3>2. QED
      BY <1>2, <3>1
  <2>4. g[U] = h[U]
    BY <2>2, <2>3
  <2>5. QED
    BY <1>3, <1>4, <1>6, <2>4 DEF Added
<1>7. QED
  BY <1>5, <1>6

\* The sum of the amounts of the entries in S.
Sum(S) == MapThenSumSet(LAMBDA entry : entry.amount, S)

\* The sum is what the fold adds up.
LEMMA SumAdds ==
  ASSUME NEW S, IsFiniteSet(S)
  PROVE  \E g : AddsUp(g, S) /\ Sum(S) = g[S]
<1>1. Sum(S) = (CHOOSE g : g = [T \in SUBSET S |->
                  IF T = {} THEN 0
                  ELSE (CHOOSE e \in T : TRUE).amount + g[T \ {CHOOSE e \in T : TRUE}]])[S]
  BY DEF Sum, MapThenSumSet, MapThenFoldSet
<1>2. Sum(S) = (CHOOSE g : AddsUp(g, S))[S]
  BY <1>1 DEF AddsUp, Added, First
<1>3. QED
  BY <1>2, AddsUpExists

\* An entry that is booked adds its amount to the sum.
LEMMA SumAfter ==
  ASSUME NEW S, IsFiniteSet(S), NEW x, x \notin S, \A e \in S \cup {x} : e.amount \in Int
  PROVE  /\ Sum(S) \in Int
         /\ Sum(S \cup {x}) = Sum(S) + x.amount
<1> DEFINE T == S \cup {x}
<1>1. IsFiniteSet(T) /\ S \in SUBSET T /\ T \in SUBSET T /\ x \in T /\ T \ {x} = S
  BY FS_AddElement
<1>2. \A e \in T : e.amount \in Int
  OBVIOUS
<1>3. PICK g : AddsUp(g, S) /\ Sum(S) = g[S]
  BY SumAdds
<1> HIDE DEF T
<1>4. PICK h : AddsUp(h, T) /\ Sum(T) = h[T]
  BY <1>1, SumAdds
<1>5. g[S] = h[S]
  <2>1. \A R \in SUBSET S : g[R] = h[R]
    BY <1>1, <1>2, <1>3, <1>4, AddsUpAgree
  <2>2. QED
    BY <2>1
<1>6. h[S] \in Int /\ h[T] = x.amount + h[T \ {x}]
  BY <1>1, <1>2, <1>4, AnyOrder
<1>7. Sum(T) = Sum(S) + x.amount /\ Sum(S) \in Int
  <2>1. x.amount \in Int /\ Sum(S) \in Int /\ Sum(T) = x.amount + Sum(S)
    BY <1>1, <1>2, <1>3, <1>4, <1>5, <1>6
  <2>2. QED
    BY <2>1
<1>8. QED
  BY <1>7 DEF T

\* Without entries the sum is zero.
LEMMA SumEmpty == Sum({}) = 0
<1>1. PICK g : AddsUp(g, {}) /\ Sum({}) = g[{}]
  BY SumAdds, FS_EmptySet
<1>2. QED
  BY <1>1 DEF AddsUp, Added
-----------------------------------------------------------------------------
(* The balance of a single worker *)

SingleWorker == \A v, w \in Workers : v = w

\* What a cycle may spend: the balance, or what the exchange is about to bring.
Budget == IF converted THEN Cash ELSE Capital

\* Nothing is booked before the exchange, and what a single worker has read of the
\* balance is still so.
BalanceInv ==
  /\ IsFiniteSet(ledger)
  /\ converted \/ ledger = {}
  /\ \A w \in Workers : pc[w] # "idle" =>
       view[w].convert = ~converted /\ view[w].covered = Covered(Budget)

\* The cash, before and after a step, is the capital exchanged and the sum of the ledger.
LEMMA CashIs ==
  /\ Cash = (IF converted THEN Capital ELSE 0) + Sum(ledger)
  /\ Cash' = (IF converted' THEN Capital ELSE 0) + Sum(ledger')
  BY DEF Cash, Sum, MapThenSumSet, MapThenFoldSet

\* The budget does not change while ledger and exchange stay.
LEMMA BudgetKept ==
  ASSUME UNCHANGED <<converted, ledger>>
  PROVE  Covered(Budget)' = Covered(Budget)
<1>1. Cash' = Cash
  BY CashIs
<1>2. Budget' = Budget
  BY <1>1 DEF Budget
<1>3. QED
  BY <1>2 DEF Covered

\* A new entry under a new key.
LEMMA Booked ==
  ASSUME NEW entry, Book(entry)
  PROVE  \/ ledger' = ledger
         \/ entry \notin ledger /\ ledger' = ledger \cup {entry}
  BY DEF Book

\* What a committing cycle leaves of the balance.
LEMMA CommitBalance ==
  ASSUME SingleWorker, BalanceInv, TypeInv, NEW w \in Workers, Transition(w, pc[w], "idle"),
         \/ UNCHANGED <<converted, ledger>>
         \/ /\ pc[w] # "idle" /\ CommitCycle(w)
            /\ ledger' = ledger \/ \E entry : Book(entry)
  PROVE  BalanceInv'
<1>1. \A v \in Workers : pc'[v] = "idle"
  BY DEF SingleWorker, Transition, TypeInv, TypeOK
<1>2. IsFiniteSet(ledger')
  BY Booked, FS_AddElement DEF BalanceInv
<1>3. converted' \/ ledger' = {}
  BY DEF BalanceInv, CommitCycle, TypeInv, TypeOK
<1>4. QED
  BY <1>1, <1>2, <1>3 DEF BalanceInv

\* Every step of a single worker keeps its balance as it has read it.
LEMMA BalanceStep ==
  ASSUME SingleWorker, TypeInv, BalanceInv, [Next]_vars
  PROVE  BalanceInv'
<1>1. ASSUME NEW w \in Workers, BeginCycle(w) PROVE BalanceInv'
  <2> DEFINE convert == ~converted /\ Cash <= 0
  <2>1. UNCHANGED <<converted, ledger>>
    BY <1>1 DEF BeginCycle, tables
  <2>2. /\ view'[w].convert = convert
        /\ view'[w].covered = Covered(IF convert THEN Capital ELSE Cash)
    BY <1>1 DEF BeginCycle, TypeInv, TypeOK, Views
  <2>3. convert = ~converted
    <3>1. CASE converted
      BY <3>1
    <3>2. CASE ~converted
      <4>1. Cash = 0
        BY <3>2, CashIs, SumEmpty DEF BalanceInv
      <4>2. QED
        BY <3>2, <4>1
    <3>3. QED
      BY <3>1, <3>2
  <2>4. view'[w].covered = Covered(Budget)
    BY <2>2, <2>3 DEF Budget, TypeInv, TypeOK
  <2>5. QED
    BY <2>1, <2>2, <2>3, <2>4, BudgetKept DEF BalanceInv, SingleWorker
<1>2. ASSUME NEW w \in Workers, pc[w] # "idle", UNCHANGED <<converted, ledger>>,
             view'[w].convert = view[w].convert, view'[w].covered = view[w].covered
      PROVE  BalanceInv'
  BY <1>2, BudgetKept DEF BalanceInv, SingleWorker
<1>3. ASSUME NEW w \in Workers,
             \/ ReadPositions(w) \/ AutoExit(w) \/ SkipEntry(w) \/ Predict(w)
             \/ Enter(w) \/ Leave(w) \/ Hold(w) \/ ReserveOrder(w)
      PROVE  BalanceInv'
  <2>1. pc[w] # "idle" /\ UNCHANGED <<converted, ledger>>
    BY <1>3 DEF ReadPositions, ReadRows, AutoExit, SkipEntry, Predict, Enter, Leave, Hold,
       ReserveOrder, Transition, tables
  <2>2. view'[w].convert = view[w].convert /\ view'[w].covered = view[w].covered
    <3>1. view \in [Workers -> Views]
      BY DEF TypeInv, TypeOK
    <3>2. ASSUME NEW l, NEW rows, NEW c, view' = [view EXCEPT ![w] =
                   [@ EXCEPT !.below_limit = l, !.rows = rows, !.charged = c]]
          PROVE  view'[w].convert = view[w].convert /\ view'[w].covered = view[w].covered
      BY <3>1, <3>2 DEF Views
    <3>3. CASE ReadPositions(w)
      BY <3>2, <3>3 DEF ReadPositions, ReadRows
    <3>4. CASE Predict(w)
      BY <3>1, <3>4 DEF Predict, Views
    <3>5. CASE UNCHANGED view
      BY <3>5
    <3>6. QED
      BY <1>3, <3>3, <3>4, <3>5 DEF AutoExit, SkipEntry, Enter, Leave, Hold, ReserveOrder
  <2>3. QED
    BY <1>2, <2>1, <2>2
<1>4. ASSUME NEW w \in Workers,
             \/ CommitIdle(w) \/ CommitOpen(w) \/ CommitRejected(w) \/ CommitClose(w)
             \/ Abort(w)
      PROVE  BalanceInv'
  <2>1. Transition(w, pc[w], "idle") /\ pc[w] # "idle"
    BY <1>4 DEF CommitIdle, CommitOpen, CommitRejected, CommitClose, Abort, Transition
  <2>2. \/ UNCHANGED <<converted, ledger>>
        \/ /\ CommitCycle(w)
           /\ ledger' = ledger \/ \E entry : Book(entry)
    BY <1>4 DEF CommitIdle, CommitOpen, CommitRejected, CommitClose, Abort, tables
  <2>3. QED
    BY <2>1, <2>2, CommitBalance
<1>5. CASE NewVector \/ GrowOld \/ StoreMetric \/ UNCHANGED vars
  <2>1. UNCHANGED <<converted, ledger, pc, view>>
    BY <1>5 DEF NewVector, GrowOld, StoreMetric, tables, vars
  <2>2. QED
    BY <2>1, BudgetKept DEF BalanceInv
<1>6. QED
  BY <1>1, <1>3, <1>4, <1>5 DEF Next, Cycle

\* An opening that a single worker books is covered by the balance.
LEMMA OpeningCovered ==
  ASSUME TypeInv, BalanceInv, [Next]_vars, NEW e \in ledger' \ ledger, e.op = "OPEN"
  PROVE  Cash' >= 0
<1>1. PICK w \in Workers : CommitOpen(w) \/ CommitClose(w)
  BY DEF Next, Cycle, vars, tables, NewVector, GrowOld, StoreMetric, BeginCycle, ReadPositions,
     ReadRows, AutoExit, SkipEntry, Predict, Enter, Leave, Hold, ReserveOrder, CommitIdle,
     CommitRejected, Abort
<1>2. CASE CommitClose(w)
  <2>1. PICK o \in order[w], paid \in Payouts :
          Book([key |-> o.key, op |-> "CLOSE", position |-> o.position, amount |-> paid])
    BY <1>2 DEF CommitClose
  <2>2. QED
    BY <2>1, Booked
<1>3. CASE CommitOpen(w)
  <2>1. PICK o \in order[w], cost \in Costs :
          /\ cost \in view[w].covered
          /\ Book([key |-> o.key, op |-> "OPEN", position |-> o.position, amount |-> -cost])
    BY <1>3 DEF CommitOpen
  <2> DEFINE entry == [key |-> o.key, op |-> "OPEN", position |-> o.position, amount |-> -cost]
  <2>2. entry \notin ledger /\ ledger' = ledger \cup {entry}
    BY <2>1, Booked
  <2>3. cost \in Nat /\ Capital \in Nat /\ entry.amount = -cost
    BY Amounts
  <2>4. \A f \in ledger \cup {entry} : f.amount \in Int
    BY <2>3 DEF TypeInv, TypeOK, Entries
  <2> HIDE DEF entry
  <2>5. Sum(ledger) \in Int /\ Sum(ledger') = Sum(ledger) - cost
    <3>1. /\ Sum(ledger) \in Int
          /\ Sum(ledger \cup {entry}) = Sum(ledger) + entry.amount
      BY <2>2, <2>4, SumAfter DEF BalanceInv
    <3>2. QED
      BY <2>2, <2>3, <3>1
  <2>6. pc[w] # "idle" /\ CommitCycle(w)
    BY <1>3 DEF CommitOpen, Transition
  <2>7. converted' = TRUE /\ cost <= Budget
    BY <2>1, <2>6 DEF CommitCycle, BalanceInv, Covered, TypeInv, TypeOK
  <2>8. Cash' = Capital + Sum(ledger) - cost
    <3>1. Cash' = Capital + Sum(ledger')
      BY <2>7, CashIs
    <3>2. QED
      BY <2>3, <2>5, <3>1
  <2>9. Budget = Capital + Sum(ledger)
    <3>1. CASE converted
      BY <3>1, CashIs DEF Budget
    <3>2. CASE ~converted
      <4>1. Budget = Capital /\ ledger = {}
        BY <3>2 DEF Budget, BalanceInv
      <4>2. Sum(ledger) = 0
        BY <4>1, SumEmpty
      <4>3. QED
        BY <2>3, <4>1, <4>2
    <3>3. QED
      BY <3>1, <3>2
  <2>10. QED
    BY <2>3, <2>5, <2>7, <2>8, <2>9
<1>4. QED
  BY <1>1, <1>2, <1>3

\* Initially nothing is booked and nobody at work.
LEMMA InitBalance == Init => BalanceInv
  BY FS_EmptySet DEF Init, BalanceInv

\* With a single worker, an opening is never booked beyond the balance, whatever the
\* closes before it have cost: the balance read at the start of the cycle is the one
\* it is paid from.
THEOREM CashCovers ==
  ASSUME SingleWorker PROVE Spec => OpeningKeepsCash
<1>1. TypeInv /\ BalanceInv /\ [Next]_vars => BalanceInv'
  BY BalanceStep
<1>2. TypeInv /\ BalanceInv /\ [Next]_vars
        => [(\E e \in ledger' \ ledger : e.op = "OPEN") => Cash' >= 0]_vars
  BY OpeningCovered
<1>3. QED
  BY <1>1, <1>2, InitBalance, TypeInvariant, PTL DEF Spec, OpeningKeepsCash
=============================================================================
