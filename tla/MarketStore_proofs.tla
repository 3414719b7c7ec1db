------------------------- MODULE MarketStore_proofs -------------------------
(***************************************************************************)
(* Theorems about MarketStore for every deployment, every lag, window and   *)
(* chunk, and every number of bars, polls, books and faults.                *)
(***************************************************************************)
EXTENDS MarketStore, TLAPS, FiniteSetTheorems, SequenceTheorems, WellFoundedInduction

-----------------------------------------------------------------------------
(* Numbers *)

\* Every nonempty set of natural numbers has a least element.
LEMMA LeastNumber ==
  ASSUME NEW T \in SUBSET Nat, T # {}
  PROVE  \E n \in T : \A m \in T : n <= m
<1>1. PICK n \in T : \A m \in T : <<m, n>> \notin OpToRel(<, Nat)
  BY WFMin, NatLessThanWellFounded, Zenon
<1>2. \A m \in T : m \in Nat /\ n \in Nat /\ ~(m < n)
  BY <1>1 DEF OpToRel
<1>3. \A m \in T : n <= m
  BY <1>2
<1>4. QED
  BY <1>3

\* A nonempty set of integers with an upper bound has a greatest element.
LEMMA MaxIn ==
  ASSUME NEW S \in SUBSET Int, S # {}, NEW u \in Int, \A x \in S : x <= u
  PROVE  Max(S) \in S /\ \A x \in S : Max(S) >= x
<1> DEFINE T == {u - x : x \in S}
<1>1. T \in SUBSET Nat /\ T # {}
  OBVIOUS
<1>2. PICK n \in T : \A m \in T : n <= m
  BY <1>1, LeastNumber
<1>3. PICK x \in S : n = u - x
  BY <1>2
<1>4. \A y \in S : x >= y
  <2> SUFFICES ASSUME NEW y \in S PROVE x >= y
    OBVIOUS
  <2>1. u - y \in T /\ n <= u - y
    BY <1>2
  <2>2. QED
    BY <1>3, <2>1
<1>5. QED
  BY <1>4 DEF Max

\* The later of two times.
LEMMA MaxOfTwo ==
  ASSUME NEW x \in Int, NEW y \in Int
  PROVE  Max({x, y}) \in {x, y} /\ Max({x, y}) >= x /\ Max({x, y}) >= y
<1>1. \A z \in {x, y} : z <= (IF x >= y THEN x ELSE y)
  OBVIOUS
<1>2. {x, y} \in SUBSET Int /\ {x, y} # {}
  OBVIOUS
<1>3. Max({x, y}) \in {x, y} /\ \A z \in {x, y} : Max({x, y}) >= z
  BY <1>1, <1>2, MaxIn
<1>4. QED
  BY <1>3

\* The earlier of two times.
LEMMA MinOfTwo ==
  ASSUME NEW x \in Int, NEW y \in Int
  PROVE  Min({x, y}) \in {x, y} /\ Min({x, y}) <= x /\ Min({x, y}) <= y
<1>1. \E z \in {x, y} : \A v \in {x, y} : z <= v
  OBVIOUS
<1>2. Min({x, y}) \in {x, y} /\ \A v \in {x, y} : Min({x, y}) <= v
  BY <1>1 DEF Min
<1>3. QED
  BY <1>2
-----------------------------------------------------------------------------
(* What deleting rows leaves of the books *)

\* The function by which FlattenSeq joins the first n of the sequences s.
Joins(f, s, n) == f = [i \in 1 .. n |-> IF i = 1 THEN s[i] ELSE f[i - 1] \o s[i]]

\* There is such a function.
LEMMA JoinsExists ==
  ASSUME NEW s
  PROVE  \A n \in Nat : \E f : Joins(f, s, n)
<1> DEFINE T == {n \in Nat : ~\E f : Joins(f, s, n)}
<1> SUFFICES ASSUME T # {} PROVE FALSE
  OBVIOUS
<1>1. PICK n \in T : \A m \in T : n <= m
  BY LeastNumber
<1>2. CASE n = 0
  <2> DEFINE f == [i \in 1 .. n |-> 0]
  <2>1. 1 .. n = {}
    BY <1>2
  <2>2. Joins(f, s, n)
    BY <2>1 DEF Joins
  <2>3. QED
    BY <2>2
<1>3. CASE n # 0
  <2>1. n - 1 \in Nat /\ n - 1 \notin T
    BY <1>1, <1>3
  <2>2. PICK f : Joins(f, s, n - 1)
    BY <2>1
  <2> DEFINE g == [i \in 1 .. n |->
                     IF i = n THEN IF n = 1 THEN s[n] ELSE f[n - 1] \o s[n] ELSE f[i]]
  <2>3. ASSUME NEW i \in 1 .. n
        PROVE  g[i] = IF i = 1 THEN s[i] ELSE g[i - 1] \o s[i]
    <3>1. CASE i = n
      <4>1. n # 1 => g[n - 1] = f[n - 1]
        OBVIOUS
      <4>2. QED
        BY <3>1, <4>1
    <3>2. CASE i # n
      <4>1. i \in 1 .. (n - 1) /\ g[i] = f[i]
        BY <3>2
      <4>2. f[i] = IF i = 1 THEN s[i] ELSE f[i - 1] \o s[i]
        BY <2>2, <4>1 DEF Joins
      <4>3. i # 1 => g[i - 1] = f[i - 1]
        BY <4>1
      <4>4. QED
        BY <4>1, <4>2, <4>3
    <3>3. QED
      BY <3>1, <3>2
  <2>4. Joins(g, s, n)
    BY <2>3 DEF Joins
  <2>5. QED
    BY <2>4
<1>4. QED
  BY <1>2, <1>3

\* What a batch keeps of the books b when it deletes the ids D.
Kept(b, D) == FlattenSeq([i \in DOMAIN b |-> IF i \in D THEN <<>> ELSE <<b[i]>>])

\* r is b without the ids D, as far as the first k: in the same order.
Thinned(r, b, D, k) ==
  /\ r \in Seq(Int) /\ Len(r) <= k
  /\ \A i, j \in DOMAIN r : i <= j =>
       \E m, n \in (1 .. k) \ D : m <= n /\ r[i] = b[m] /\ r[j] = b[n]

\* One more row is kept.
LEMMA OneMore ==
  ASSUME NEW b \in Seq(Int), NEW D, NEW k \in DOMAIN b, k \notin D,
         NEW r, Thinned(r, b, D, k - 1)
  PROVE  Thinned(r \o <<b[k]>>, b, D, k)
<1> DEFINE q == r \o <<b[k]>>
<1>1. /\ k \in Nat /\ k >= 1 /\ b[k] \in Int /\ r \in Seq(Int) /\ Len(r) \in Nat /\ Len(r) <= k - 1
  BY DEF Thinned
<1>2. /\ q \in Seq(Int) /\ Len(q) = Len(r) + 1 /\ DOMAIN q = 1 .. (Len(r) + 1)
      /\ q[Len(r) + 1] = b[k] /\ \A i \in 1 .. Len(r) : q[i] = r[i]
  BY <1>1
<1>3. DOMAIN r = 1 .. Len(r)
  BY <1>1
<1> HIDE DEF q
<1>4. ASSUME NEW i \in DOMAIN q, NEW j \in DOMAIN q, i <= j
      PROVE  \E m, n \in (1 .. k) \ D : m <= n /\ q[i] = b[m] /\ q[j] = b[n]
  <2>0. i \in Nat /\ j \in Nat /\ 1 <= i /\ j <= Len(r) + 1 /\ i <= j /\ Len(r) \in Nat
    BY <1>1, <1>2, <1>4
  <2>1. CASE j <= Len(r)
    <3>0. i \in 1 .. Len(r) /\ j \in 1 .. Len(r)
      BY <2>0, <2>1
    <3>1. i \in DOMAIN r /\ j \in DOMAIN r /\ q[i] = r[i] /\ q[j] = r[j]
      BY <1>2, <1>3, <3>0
    <3>2. PICK m, n \in (1 .. (k - 1)) \ D : m <= n /\ r[i] = b[m] /\ r[j] = b[n]
      BY <1>4, <3>1 DEF Thinned
    <3>3. m \in (1 .. k) \ D /\ n \in (1 .. k) \ D
      BY <1>1
    <3>4. QED
      BY <3>1, <3>2, <3>3
  <2>2. CASE i <= Len(r) /\ j = Len(r) + 1
    <3>1. i \in DOMAIN r /\ q[i] = r[i] /\ i <= i
      BY <1>1, <1>2, <1>3, <2>2
    <3>2. PICK m \in (1 .. (k - 1)) \ D : r[i] = b[m]
      BY <3>1 DEF Thinned
    <3>3. m \in (1 .. k) \ D /\ k \in (1 .. k) \ D /\ m <= k
      BY <1>1
    <3>4. QED
      BY <1>2, <2>2, <3>1, <3>2, <3>3
  <2>3. CASE i = Len(r) + 1 /\ j = Len(r) + 1
    <3>1. k \in (1 .. k) \ D /\ k <= k
      BY <1>1
    <3>2. QED
      BY <1>2, <2>3, <3>1
  <2>4. QED
    BY <1>1, <1>2, <1>4, <2>1, <2>2, <2>3
<1>5. Len(q) <= k
  BY <1>1, <1>2
<1>6. QED
  BY <1>2, <1>4, <1>5 DEF Thinned, q

\* What is left are the rows that are not deleted, in the order of their ids.
LEMMA KeptThinned ==
  ASSUME NEW b \in Seq(Int), NEW D
  PROVE  Thinned(Kept(b, D), b, D, Len(b))
<1> DEFINE s == [i \in DOMAIN b |-> IF i \in D THEN <<>> ELSE <<b[i]>>]
<1>1. /\ Len(b) \in Nat /\ DOMAIN b = 1 .. Len(b) /\ \A i \in DOMAIN b : b[i] \in Int
      /\ Len(s) = Len(b)
  <2>1. Len(b) \in Nat /\ DOMAIN b = 1 .. Len(b) /\ \A i \in DOMAIN b : b[i] \in Int
    OBVIOUS
  <2>2. DOMAIN s = 1 .. Len(b)
    BY <2>1
  <2>3. s \in Seq({<<>>} \cup {<<b[i]>> : i \in DOMAIN b})
    BY <2>1
  <2>4. QED
    BY <2>1, <2>2, <2>3
<1>2. CASE Len(b) = 0
  <2>1. Kept(b, D) = s
    BY <1>1, <1>2 DEF Kept, FlattenSeq
  <2>2. s \in Seq(Int) /\ DOMAIN s = {}
    BY <1>1, <1>2
  <2>3. QED
    BY <1>1, <1>2, <2>1, <2>2 DEF Thinned
<1>3. CASE Len(b) # 0
  <2> DEFINE f == CHOOSE g : Joins(g, s, Len(b))
  <2>1. Joins(f, s, Len(b))
    BY <1>1, JoinsExists
  <2>2. Kept(b, D) = f[Len(b)]
    BY <1>1, <1>3 DEF Kept, FlattenSeq, Joins
  <2> DEFINE T == {k \in 1 .. Len(b) : ~Thinned(f[k], b, D, k)}
  <2>3. T = {}
    <3> SUFFICES ASSUME T # {} PROVE FALSE
      OBVIOUS
    <3>1. T \in SUBSET Nat
      BY <1>1
    <3>2. PICK k \in T : \A j \in T : k <= j
      BY <3>1, LeastNumber
    <3>3. k \in DOMAIN b /\ k \in 1 .. Len(b) /\ k \in Nat
      BY <1>1
    <3>4. f[k] = IF k = 1 THEN s[k] ELSE f[k - 1] \o s[k]
      BY <2>1, <3>3 DEF Joins
    <3>5. k # 1 => Thinned(f[k - 1], b, D, k - 1)
      <4>1. k # 1 => k - 1 \in 1 .. Len(b) /\ ~(k <= k - 1)
        BY <3>3
      <4>2. QED
        BY <3>2, <4>1
    <3>6. s[k] = IF k \in D THEN <<>> ELSE <<b[k]>>
      BY <3>3
    <3>7. ~Thinned(f[k], b, D, k)
      BY <3>2
    <3> HIDE DEF f, T, s
    <3>8. PICK r : Thinned(r, b, D, k - 1) /\ f[k] = r \o s[k]
      <4>1. CASE k = 1
        <5>1. s[k] \in Seq(Int)
          BY <1>1, <3>3, <3>6
        <5>2. f[k] = <<>> \o s[k]
          <6>1. <<>> \o s[k] = s[k]
            BY <5>1, ConcatEmptySeq, Zenon
          <6>2. QED
            BY <3>4, <4>1, <6>1, Zenon
        <5>3. Thinned(<<>>, b, D, k - 1)
          BY <4>1 DEF Thinned
        <5>4. QED
          BY <5>2, <5>3
      <4>2. CASE k # 1
        BY <3>4, <3>5, <4>2
      <4>3. QED
        BY <4>1, <4>2
    <3>9. CASE k \in D
      <4>1. r \in Seq(Int) /\ s[k] = <<>>
        BY <3>6, <3>8, <3>9 DEF Thinned
      <4>2. f[k] = r
        BY <3>8, <4>1
      <4>3. Len(r) <= k
        BY <3>3, <3>8, <4>1 DEF Thinned
      <4> DEFINE Few == (1 .. (k - 1)) \ D
                 Many == (1 .. k) \ D
      <4>4. Few \subseteq Many
        BY <3>3
      <4>5. \A i, j \in DOMAIN r : i <= j =>
              \E m, n \in Few : m <= n /\ r[i] = b[m] /\ r[j] = b[n]
        BY <3>8 DEF Thinned
      <4> HIDE DEF Few, Many
      <4>6. \A i, j \in DOMAIN r : i <= j =>
              \E m, n \in Many : m <= n /\ r[i] = b[m] /\ r[j] = b[n]
        BY <4>4, <4>5
      <4>7. Thinned(r, b, D, k)
        BY <4>1, <4>3, <4>6 DEF Thinned, Many
      <4>8. QED
        BY <3>7, <4>2, <4>7
    <3>10. CASE k \notin D
      BY <3>3, <3>6, <3>7, <3>8, <3>10, OneMore
    <3>11. QED
      BY <3>9, <3>10
  <2>4. Len(b) \in 1 .. Len(b)
    BY <1>1, <1>3
  <2>5. QED
    BY <2>2, <2>3, <2>4
<1>4. QED
  BY <1>2, <1>3
-----------------------------------------------------------------------------
(* Types *)

Event == [bar : Nat, closed : BOOLEAN]
Fetch == [end : Int, cursor : Int, answered : Int]
Row == {NoCandle} \cup [closed : BOOLEAN, final : BOOLEAN, stored : {TRUE}]

TimeType == now \in Now0 .. Horizon
UsedType == used \in [updates : Nat, polls : Nat, faults : Nat] /\ used.faults <= MaxFaults
ModeType == mode \in [Providers -> {"STARTING", "STREAMING"}]
FetchType == fetch \in [Providers -> Fetch]
QueueType == /\ queue \in [Providers -> Seq(Event)]
             /\ \A p \in Providers : Len(queue[p]) <= MaxQueue
StoreType == store \in [Providers -> [Bars -> Row]]
BooksType == books \in Seq(Int) /\ Len(books) <= MaxBooks
SweepType == /\ sweep \in [cutoff : Int, batches : Int] /\ sweep.cutoff <= now
             /\ swept \in Int /\ swept <= now

CandleTypes == ModeType /\ FetchType /\ QueueType /\ StoreType

TypeInv == TimeType /\ UsedType /\ CandleTypes /\ BooksType /\ SweepType

\* The bounds are natural numbers.
LEMMA Numbers ==
  /\ Now0 \in Nat /\ Horizon \in Nat /\ Now0 <= Horizon /\ CandleLag \in Nat
  /\ BookAge \in Nat /\ BookSkew \in Nat /\ MaxQueue \in Nat /\ MaxBooks \in Nat
  /\ MaxFaults \in Nat /\ GapWindow \in Nat /\ BackfillHours \in Nat /\ ChunkBars \in Nat
  /\ MinCandles \in Nat \ {0} /\ BookWindow \in Nat \ {0} /\ Retention \in Nat \ {0}
  /\ BatchSize \in Nat \ {0} /\ MaxBatches \in Nat
  BY MarketAssumption

\* A backfill asks for a range that ends now and does not begin before time 0.
LEMMA BackfillType ==
  ASSUME NEW n \in Nat, NEW bars \in Nat
  PROVE  [end |-> n, cursor |-> Max({0, n - bars}), answered |-> Unanswered] \in Fetch
<1>1. 0 \in Int /\ n - bars \in Int
  OBVIOUS
<1>2. Max({0, n - bars}) \in {0, n - bars}
  BY <1>1, MaxOfTwo
<1>3. QED
  BY <1>1, <1>2 DEF Fetch, Unanswered

\* The last bar of a chunk is a time, and none after the end of the range.
LEMMA ChunkType ==
  ASSUME NEW f \in Fetch
  PROVE  ChunkEnd(f) \in Int /\ ChunkEnd(f) <= f.end
<1>1. f.cursor + ChunkBars \in Int /\ f.end \in Int
  BY Numbers DEF Fetch
<1>2. QED
  BY <1>1, MinOfTwo DEF ChunkEnd

\* A row that is written says something.
LEMMA CandleType ==
  ASSUME NEW c \in BOOLEAN, NEW f \in BOOLEAN
  PROVE  Candle(c, f) \in Row
  BY DEF Candle, Row

\* What happens to the queue of a collector: an event is published ...
LEMMA QueueAppended ==
  ASSUME QueueType, NEW p \in Providers, NEW e \in Event, Len(queue[p]) < MaxQueue
  PROVE  Append(queue[p], e) \in Seq(Event) /\ Len(Append(queue[p], e)) <= MaxQueue
<1>1. queue[p] \in Seq(Event)
  BY DEF QueueType
<1>2. QED
  BY <1>1, Numbers

\* ... or is handled, or all of them are lost.
LEMMA QueueReplaced ==
  ASSUME QueueType, NEW p \in Providers, NEW q \in Seq(Event), Len(q) <= MaxQueue,
         queue' = [queue EXCEPT ![p] = q]
  PROVE  QueueType'
<1>1. queue' \in [Providers -> Seq(Event)]
  BY DEF QueueType
<1>2. \A r \in Providers : queue'[r] = IF r = p THEN q ELSE queue[r]
  BY DEF QueueType
<1>3. QED
  BY <1>1, <1>2 DEF QueueType

\* A queue without events.
LEMMA QueueEmpty == <<>> \in Seq(Event) /\ Len(<<>>) <= MaxQueue
  BY Numbers

\* A fault is counted.
LEMMA FaultCounted == UsedType /\ Fault => UsedType'
  BY Numbers DEF UsedType, Fault

\* A collector that is started again backfills before anything else.
LEMMA RestartTypes ==
  ASSUME TypeInv, NEW p \in Providers, Restarted(p), store' = store
  PROVE  CandleTypes'
<1>1. BackfillOf(BackfillHours) \in Fetch
  <2>1. now \in Nat /\ BackfillHours \in Nat
    BY Numbers DEF TypeInv, TimeType
  <2>2. QED
    BY <2>1, BackfillType DEF BackfillOf
<1>2. FetchType'
  BY <1>1 DEF Restarted, TypeInv, CandleTypes, FetchType
<1>3. QueueType'
  BY QueueEmpty, QueueReplaced DEF Restarted, TypeInv, CandleTypes
<1>4. ModeType'
  BY DEF Restarted, TypeInv, CandleTypes, ModeType
<1>5. QED
  BY <1>2, <1>3, <1>4 DEF TypeInv, CandleTypes, StoreType

\* A step of a collector keeps the types.
LEMMA CollectTypes ==
  ASSUME TypeInv, NEW p \in Providers, Collect(p)
  PROVE  TypeInv'
<1>1. /\ now \in Nat /\ fetch[p] \in Fetch /\ queue[p] \in Seq(Event)
      /\ UsedType /\ ModeType /\ FetchType /\ QueueType /\ StoreType
  BY Numbers DEF TypeInv, CandleTypes, TimeType, FetchType, QueueType
<1>2. UNCHANGED <<now, books, retention>>
  BY DEF Collect, Publish, Disconnect, Restart, Handle, Poll, Answer, Save, FetchFails
<1>3. TimeType' /\ BooksType' /\ SweepType'
  BY <1>2 DEF TypeInv, TimeType, BooksType, SweepType, retention
<1>4. ASSUME UsedType', CandleTypes' PROVE TypeInv'
  BY <1>3, <1>4 DEF TypeInv
<1>5. CASE Publish(p)
  <2>1. [bar |-> now, closed |-> FALSE] \in Event
    BY <1>1 DEF Event
  <2>2. QueueType'
    BY <1>1, <1>5, <2>1, QueueAppended, QueueReplaced DEF Publish
  <2>3. UsedType'
    BY <1>1, <1>5 DEF Publish, UsedType
  <2>4. ModeType' /\ FetchType' /\ StoreType'
    BY <1>1, <1>5 DEF Publish, ModeType, FetchType, StoreType
  <2>5. QED
    BY <1>4, <2>2, <2>3, <2>4 DEF CandleTypes
<1>6. CASE Disconnect(p)
  <2>1. QueueType'
    BY <1>1, <1>6, QueueEmpty, QueueReplaced DEF Disconnect
  <2>2. UsedType'
    BY <1>1, <1>6, FaultCounted DEF Disconnect
  <2>3. ModeType' /\ FetchType' /\ StoreType'
    BY <1>1, <1>6 DEF Disconnect, ModeType, FetchType, StoreType
  <2>4. QED
    BY <1>4, <2>1, <2>2, <2>3 DEF CandleTypes
<1>7. CASE Restart(p)
  <2>1. UsedType'
    BY <1>1, <1>7, FaultCounted DEF Restart
  <2>2. CandleTypes'
    BY <1>7, RestartTypes DEF Restart
  <2>3. QED
    BY <1>4, <2>1, <2>2
<1>8. CASE Handle(p)
  <2> DEFINE event == Head(queue[p])
  <2>1. event \in Event /\ Tail(queue[p]) \in Seq(Event) /\ Len(Tail(queue[p])) <= MaxQueue
    <3>1. Len(queue[p]) <= MaxQueue /\ queue[p] # <<>> /\ queue' = [queue EXCEPT ![p] = Tail(@)]
      BY <1>1, <1>8 DEF QueueType, Handle
    <3>2. QED
      BY <1>1, <3>1, Numbers
  <2>2. QueueType'
    BY <1>1, <1>8, <2>1, QueueReplaced DEF Handle
  <2>3. Candle(event.closed, event.closed) \in Row
    BY <2>1, CandleType DEF Event
  <2>4. store' = store \/ store' = [store EXCEPT ![p][event.bar] =
                                      Candle(event.closed, event.closed)]
    BY <1>8 DEF Handle
  <2> HIDE DEF event
  <2>5. StoreType'
    BY <1>1, <2>3, <2>4 DEF StoreType
  <2>6. UsedType' /\ ModeType' /\ FetchType'
    BY <1>1, <1>8 DEF Handle, UsedType, ModeType, FetchType
  <2>7. QED
    BY <1>4, <2>2, <2>5, <2>6 DEF CandleTypes
<1>9. CASE Poll(p)
  <2>1. BackfillOf(GapWindow) \in Fetch
    BY <1>1, Numbers, BackfillType DEF BackfillOf
  <2>2. FetchType'
    BY <1>1, <1>9, <2>1 DEF Poll, FetchType
  <2>3. UsedType'
    BY <1>1, <1>9 DEF Poll, UsedType
  <2>4. ModeType' /\ QueueType' /\ StoreType'
    BY <1>1, <1>9 DEF Poll, ModeType, QueueType, StoreType
  <2>5. QED
    BY <1>4, <2>2, <2>3, <2>4 DEF CandleTypes
<1>10. CASE Answer(p)
  <2>1. [fetch[p] EXCEPT !.answered = now] \in Fetch
    BY <1>1 DEF Fetch
  <2>2. FetchType'
    BY <1>1, <1>10, <2>1 DEF Answer, FetchType
  <2>3. UsedType' /\ ModeType' /\ QueueType' /\ StoreType'
    BY <1>1, <1>10 DEF Answer, UsedType, ModeType, QueueType, StoreType
  <2>4. QED
    BY <1>4, <2>2, <2>3 DEF CandleTypes
<1>11. CASE Save(p)
  <2> DEFINE f == fetch[p]
             next == IF ChunkEnd(f) = f.end THEN NoFetch
                     ELSE [f EXCEPT !.cursor = ChunkEnd(f), !.answered = Unanswered]
  <2>1. next \in Fetch
    <3>1. f \in Fetch /\ ChunkEnd(f) \in Int /\ NoFetch \in Fetch /\ Unanswered \in Int
      BY <1>1, ChunkType DEF Fetch, NoFetch, Unanswered
    <3> HIDE DEF f
    <3>2. QED
      BY <3>1 DEF Fetch
  <2>2. fetch' = [fetch EXCEPT ![p] = next]
    BY <1>11 DEF Save
  <2>3. \A b \in Bars : Parsed(p, f, b) \in Row
    <3> SUFFICES ASSUME NEW b \in Bars PROVE Parsed(p, f, b) \in Row
      OBVIOUS
    <3>1. (b + 1 <= IF p = "bybit" THEN now ELSE f.answered) \in BOOLEAN
          /\ (b + 1 <= f.answered) \in BOOLEAN
      BY <1>1 DEF Bars, Fetch
    <3>2. QED
      BY <3>1, CandleType DEF Parsed
  <2>4. StoreType'
    BY <1>1, <1>11, <2>3 DEF Save, StoreType
  <2>5. ModeType'
    BY <1>1, <1>11 DEF Save, ModeType
  <2> HIDE DEF next
  <2>6. FetchType'
    BY <1>1, <2>1, <2>2 DEF FetchType
  <2>7. UsedType' /\ QueueType'
    BY <1>1, <1>11 DEF Save, UsedType, QueueType
  <2>8. QED
    BY <1>4, <2>4, <2>5, <2>6, <2>7 DEF CandleTypes
<1>12. CASE FetchFails(p)
  <2>1. UsedType'
    BY <1>1, <1>12, FaultCounted DEF FetchFails
  <2>2. CASE Restarted(p)
    BY <1>4, <1>12, <2>1, <2>2, RestartTypes DEF FetchFails
  <2>3. CASE fetch' = [fetch EXCEPT ![p] = NoFetch] /\ UNCHANGED <<mode, queue>>
    <3>1. NoFetch \in Fetch
      BY DEF NoFetch, Fetch
    <3>2. FetchType'
      BY <1>1, <2>3, <3>1 DEF FetchType
    <3>3. ModeType' /\ QueueType' /\ StoreType'
      BY <1>1, <1>12, <2>3 DEF FetchFails, ModeType, QueueType, StoreType
    <3>4. QED
      BY <1>4, <2>1, <3>2, <3>3 DEF CandleTypes
  <2>4. QED
    BY <1>12, <2>2, <2>3 DEF FetchFails
<1>13. QED
  BY <1>5, <1>6, <1>7, <1>8, <1>9, <1>10, <1>11, <1>12 DEF Collect

\* So does a step of anybody else.
LEMMA OtherTypes ==
  ASSUME TypeInv,
         Tick \/ InsertBook \/ ReadPrimary \/ Build \/ StartSweep \/ DeleteBatch
           \/ UNCHANGED vars
  PROVE  TypeInv'
<1>1. /\ now \in Nat /\ books \in Seq(Int) /\ Len(books) <= MaxBooks
      /\ UsedType /\ ModeType /\ FetchType /\ QueueType /\ StoreType
      /\ sweep \in [cutoff : Int, batches : Int] /\ sweep.cutoff <= now
      /\ swept \in Int /\ swept <= now
  BY Numbers DEF TypeInv, CandleTypes, TimeType, BooksType, SweepType
<1>2. CASE Tick
  <2> DEFINE e == [bar |-> now, closed |-> TRUE]
             s == {p \in Providers : mode[p] = "STREAMING"}
  <2>1. e \in Event
    BY <1>1 DEF Event
  <2>2. PICK heard \in SUBSET s :
          /\ IF heard = s THEN UNCHANGED used ELSE Fault
          /\ queue' = [p \in Providers |->
                         IF p \in heard THEN Append(queue[p], e) ELSE queue[p]]
    BY <1>2 DEF Tick
  <2>3. \A p \in s : Len(queue[p]) < MaxQueue
    BY <1>2 DEF Tick
  <2>4. UsedType'
    BY <1>1, <2>2, FaultCounted DEF UsedType
  <2> HIDE DEF e
  <2>5. \A p \in Providers : queue'[p] \in Seq(Event) /\ Len(queue'[p]) <= MaxQueue
    BY <1>1, <2>1, <2>2, <2>3, QueueAppended DEF QueueType
  <2>6. QueueType'
    BY <2>2, <2>5 DEF QueueType
  <2>7. ModeType' /\ FetchType' /\ StoreType'
    BY <1>1, <1>2 DEF Tick, ModeType, FetchType, StoreType
  <2>8. TimeType' /\ BooksType' /\ SweepType'
    BY <1>1, <1>2, Numbers DEF Tick, TypeInv, TimeType, BooksType, SweepType, retention
  <2>9. QED
    BY <2>4, <2>6, <2>7, <2>8 DEF TypeInv, CandleTypes
<1>3. ASSUME UNCHANGED <<now, candles, used>>, BooksType', SweepType' PROVE TypeInv'
  BY <1>1, <1>3 DEF TypeInv, CandleTypes, TimeType, UsedType, ModeType, FetchType,
                    QueueType, StoreType, candles
<1>4. CASE InsertBook
  <2>1. PICK at \in Max({0, now - BookAge}) .. (now + BookSkew) : books' = Append(books, at)
    BY <1>4 DEF InsertBook
  <2>2. BooksType'
    BY <1>1, <1>4, <2>1, Numbers DEF InsertBook, BooksType
  <2>3. SweepType'
    BY <1>1, <1>4 DEF InsertBook, SweepType, retention
  <2>4. QED
    BY <1>3, <1>4, <2>2, <2>3 DEF InsertBook
<1>5. CASE ReadPrimary \/ Build \/ UNCHANGED vars
  <2>1. UNCHANGED <<now, candles, books, retention, used>>
    BY <1>5 DEF ReadPrimary, Build, vars, candles, retention
  <2>2. QED
    BY <1>1, <1>3, <2>1 DEF BooksType, SweepType, retention
<1>6. CASE StartSweep
  <2>1. SweepType'
    BY <1>1, <1>6, Numbers DEF StartSweep, SweepType
  <2>2. QED
    BY <1>1, <1>3, <1>6, <2>1 DEF StartSweep, BooksType
<1>7. CASE DeleteBatch
  <2>1. books' = Kept(books, Expired)
    BY <1>7 DEF DeleteBatch, Kept
  <2>2. BooksType'
    BY <1>1, <2>1, KeptThinned, Numbers DEF Thinned, BooksType
  <2>3. SweepType'
    <3>1. sweep' = NoSweep \/ sweep' = [sweep EXCEPT !.batches = @ - 1]
      BY <1>7 DEF DeleteBatch
    <3>2. swept' \in {swept, sweep.cutoff} /\ now' = now
      BY <1>7 DEF DeleteBatch
    <3>3. NoSweep \in [cutoff : Int, batches : Int] /\ NoSweep.cutoff <= now
      BY <1>1 DEF NoSweep
    <3>4. QED
      BY <1>1, <3>1, <3>2, <3>3 DEF SweepType
  <2>4. QED
    BY <1>3, <1>7, <2>2, <2>3 DEF DeleteBatch
<1>8. QED
  BY <1>2, <1>4, <1>5, <1>6, <1>7

\* A step of the system.
LEMMA Steps ==
  ASSUME [Next]_vars
  PROVE  \/ \E p \in Providers : Collect(p)
         \/ Tick \/ InsertBook \/ ReadPrimary \/ Build \/ StartSweep \/ DeleteBatch
         \/ UNCHANGED vars
  BY DEF Next

\* Nothing has happened yet.
LEMMA InitTypes == Init => TypeInv
<1> SUFFICES ASSUME Init PROVE TypeInv
  OBVIOUS
<1>1. TimeType /\ UsedType /\ ModeType
  BY Numbers DEF Init, TimeType, UsedType, ModeType
<1>2. FetchType
  <2>1. BackfillOf(BackfillHours) \in Fetch
    <3>1. now \in Nat /\ BackfillHours \in Nat
      BY Numbers DEF Init
    <3>2. QED
      BY <3>1, BackfillType DEF BackfillOf
  <2>2. QED
    BY <2>1 DEF Init, FetchType
<1>3. QueueType /\ StoreType /\ BooksType
  BY Numbers, QueueEmpty DEF Init, QueueType, StoreType, Row, BooksType
<1>4. SweepType
  BY Numbers DEF Init, SweepType, NoSweep, Never
<1>5. QED
  BY <1>1, <1>2, <1>3, <1>4 DEF TypeInv, CandleTypes

\* The types hold always; TypeOK is what the module says of them.
THEOREM TypeInvariant == Spec => [](TypeInv /\ TypeOK)
<1>1. TypeInv /\ [Next]_vars => TypeInv'
  BY Steps, CollectTypes, OtherTypes
<1>2. TypeInv => TypeOK
  BY DEF TypeInv, TypeOK, TimeType, UsedType, CandleTypes, ModeType, QueueType, StoreType,
         Row, BooksType, SweepType
<1>3. QED
  BY <1>1, <1>2, InitTypes, PTL DEF Spec
-----------------------------------------------------------------------------
(* What says closed is final *)

\* A range that is asked for has ended, also when the exchange answered.
FetchInv ==
  \A p \in Providers : fetch[p] # NoFetch =>
    /\ fetch[p].end <= now
    /\ \/ fetch[p].answered = Unanswered
       \/ fetch[p].end <= fetch[p].answered /\ fetch[p].answered <= now

\* An event that says closed is sent after its bar ...
EventsInv ==
  \A p \in Providers : \A i \in DOMAIN queue[p] :
    queue[p][i].closed => queue[p][i].bar + 1 <= now

\* ... and so is a row.
PastInv == \A p \in Providers, b \in Bars : store[p][b].closed => b + 1 <= now

CandleInv == TypeInv /\ FetchInv /\ EventsInv /\ PastInv /\ ClosedIsFinal

\* Candles are written by events and by answers only.
LEMMA StoreChanges ==
  ASSUME [Next]_vars
  PROVE  \/ store' = store
         \/ \E p \in Providers : Handle(p) \/ Save(p)
<1>1. ASSUME NEW p \in Providers, Collect(p) PROVE store' = store \/ Handle(p) \/ Save(p)
  BY <1>1 DEF Collect, Publish, Disconnect, Restart, Poll, Answer, FetchFails
<1>2. ASSUME Tick \/ InsertBook \/ ReadPrimary \/ Build \/ StartSweep \/ DeleteBatch
               \/ UNCHANGED vars
      PROVE  store' = store
  BY <1>2 DEF Tick, InsertBook, ReadPrimary, Build, StartSweep, DeleteBatch, vars, candles
<1>3. QED
  BY <1>1, <1>2, Steps

\* An event that is in time replaces the row of its bar, and nothing else is written.
LEMMA HandleStores ==
  ASSUME TypeInv, NEW p \in Providers, Handle(p)
  PROVE  \E e \in Event :
           /\ \E i \in DOMAIN queue[p] : e = queue[p][i]
           /\ \A q \in Providers, b \in Bars :
                \/ store'[q][b] = store[q][b]
                \/ /\ q = p /\ b = e.bar /\ now - ObservedAt(e) <= CandleLag
                   /\ store'[q][b] = Candle(e.closed, e.closed)
<1> DEFINE e == Head(queue[p])
<1>1. e \in Event /\ 1 \in DOMAIN queue[p] /\ e = queue[p][1]
  <2>1. queue[p] \in Seq(Event) /\ queue[p] # <<>>
    BY DEF TypeInv, CandleTypes, QueueType, Handle
  <2>2. QED
    BY <2>1
<1>2. store' = IF now - ObservedAt(e) <= CandleLag
                 THEN [store EXCEPT ![p][e.bar] = Candle(e.closed, e.closed)]
                 ELSE store
  BY DEF Handle
<1> HIDE DEF e
<1>3. \A q \in Providers, b \in Bars :
        \/ store'[q][b] = store[q][b]
        \/ /\ q = p /\ b = e.bar /\ now - ObservedAt(e) <= CandleLag
           /\ store'[q][b] = Candle(e.closed, e.closed)
  BY <1>2 DEF TypeInv, CandleTypes, StoreType
<1>4. QED
  BY <1>1, <1>3

\* An answer is stored as far as its bars were closed when the exchange answered: a
\* bar that ends with the chunk is left out, and the chunk ends before the answer.
LEMMA SaveStores ==
  ASSUME TypeInv, FetchInv, NEW p \in Providers, Save(p)
  PROVE  \A q \in Providers, b \in Bars :
           \/ store'[q][b] = store[q][b]
           \/ store'[q][b].closed /\ store'[q][b].final /\ b + 1 <= now
<1> DEFINE f == fetch[p]
<1>1. /\ f \in Fetch /\ now \in Nat
      /\ f.end <= f.answered /\ f.answered <= now
      /\ ChunkEnd(f) \in Int /\ ChunkEnd(f) <= f.end
  BY Numbers, ChunkType DEF TypeInv, TimeType, CandleTypes, FetchType, FetchInv, Save
<1>2. store' = [store EXCEPT ![p] = [b \in Bars |->
                  IF b \in Normalized(p, f) THEN Parsed(p, f, b) ELSE @[b]]]
  BY DEF Save
<1> HIDE DEF f
<1>3. ASSUME NEW b \in Bars, b \in Normalized(p, f)
      PROVE  Parsed(p, f, b).closed /\ Parsed(p, f, b).final /\ b + 1 <= now
  <2>1. b < ChunkEnd(f) /\ Parsed(p, f, b).closed
    BY <1>3 DEF Normalized
  <2>2. b \in Int /\ b + 1 <= f.answered
    BY <1>1, <2>1 DEF Bars, Fetch
  <2>3. Parsed(p, f, b).final
    BY <2>2 DEF Parsed, Candle
  <2>4. b + 1 <= now
    BY <1>1, <2>2 DEF Fetch
  <2>5. QED
    BY <2>1, <2>3, <2>4
<1>4. QED
  BY <1>2, <1>3 DEF TypeInv, CandleTypes, StoreType

\* The ranges that are asked for.
LEMMA FetchStep ==
  ASSUME CandleInv, [Next]_vars
  PROVE  FetchInv'
<1> USE Numbers
<1>1. now \in Nat /\ fetch \in [Providers -> Fetch] /\ NoFetch \in Fetch
  BY DEF CandleInv, TypeInv, TimeType, CandleTypes, FetchType, Fetch, NoFetch
<1>2. CASE fetch' = fetch /\ now' \in {now, now + 1}
  BY <1>1, <1>2 DEF CandleInv, FetchInv, Fetch, Unanswered
<1>3. ASSUME NEW p \in Providers, NEW g \in Fetch, fetch' = [fetch EXCEPT ![p] = g],
             now' = now,
             g # NoFetch => /\ g.end <= now
                            /\ \/ g.answered = Unanswered
                               \/ g.end <= g.answered /\ g.answered <= now
      PROVE  FetchInv'
  BY <1>1, <1>3 DEF CandleInv, FetchInv
<1>4. ASSUME NEW p \in Providers, NEW bars \in Nat,
             fetch' = [fetch EXCEPT ![p] = BackfillOf(bars)], now' = now
      PROVE  FetchInv'
  <2>1. BackfillOf(bars) \in Fetch
    BY <1>1, BackfillType DEF BackfillOf
  <2>2. BackfillOf(bars).end <= now /\ BackfillOf(bars).answered = Unanswered
    BY <1>1 DEF BackfillOf
  <2>3. QED
    BY <1>3, <1>4, <2>1, <2>2
<1>5. ASSUME NEW p \in Providers, Collect(p) PROVE FetchInv'
  <2>1. CASE Publish(p) \/ Disconnect(p) \/ Handle(p)
    BY <1>2, <2>1 DEF Publish, Disconnect, Handle
  <2>2. CASE Restart(p)
    BY <1>4, <2>2 DEF Restart, Restarted
  <2>3. CASE Poll(p)
    BY <1>4, <2>3 DEF Poll
  <2>4. CASE Answer(p)
    <3> DEFINE g == [fetch[p] EXCEPT !.answered = now]
    <3>1. g \in Fetch /\ g.end = fetch[p].end /\ g.answered = now
      BY <1>1 DEF Fetch
    <3>2. fetch[p].end <= now
      BY <2>4 DEF Answer, CandleInv, FetchInv
    <3>3. fetch' = [fetch EXCEPT ![p] = g] /\ now' = now
      BY <1>1, <2>4 DEF Answer
    <3> HIDE DEF g
    <3>4. g.end <= now /\ g.end <= g.answered /\ g.answered <= now
      BY <1>1, <3>1, <3>2
    <3>5. QED
      BY <1>3, <3>1, <3>3, <3>4
  <2>5. CASE Save(p)
    <3> DEFINE f == fetch[p]
               g == IF ChunkEnd(f) = f.end THEN NoFetch
                    ELSE [f EXCEPT !.cursor = ChunkEnd(f), !.answered = Unanswered]
    <3>1. f \in Fetch /\ ChunkEnd(f) \in Int /\ Unanswered \in Int /\ f.end <= now
      BY <1>1, <2>5, ChunkType DEF Save, CandleInv, FetchInv, Unanswered
    <3>2. fetch' = [fetch EXCEPT ![p] = g] /\ now' = now
      BY <2>5 DEF Save
    <3> HIDE DEF f
    <3>3. CASE ChunkEnd(f) = f.end
      BY <1>1, <1>3, <3>2, <3>3
    <3>4. CASE ChunkEnd(f) # f.end
      <4>1. g \in Fetch /\ g.end = f.end /\ g.answered = Unanswered
        BY <1>1, <3>1, <3>4 DEF Fetch
      <4> HIDE DEF g
      <4>2. QED
        BY <1>3, <3>1, <3>2, <4>1
    <3>5. QED
      BY <3>3, <3>4
  <2>6. CASE FetchFails(p)
    <3>1. CASE fetch' = [fetch EXCEPT ![p] = NoFetch]
      BY <1>1, <1>3, <2>6, <3>1 DEF FetchFails
    <3>2. CASE Restarted(p)
      BY <1>4, <2>6, <3>2 DEF FetchFails, Restarted
    <3>3. QED
      BY <2>6, <3>1, <3>2 DEF FetchFails
  <2>7. QED
    BY <1>5, <2>1, <2>2, <2>3, <2>4, <2>5, <2>6 DEF Collect
<1>6. ASSUME Tick \/ InsertBook \/ ReadPrimary \/ Build \/ StartSweep \/ DeleteBatch
               \/ UNCHANGED vars
      PROVE  fetch' = fetch /\ now' \in {now, now + 1}
  BY <1>6 DEF Tick, InsertBook, ReadPrimary, Build, StartSweep, DeleteBatch, vars, candles
<1>7. QED
  BY <1>2, <1>5, <1>6, Steps

\* The events under way.
LEMMA EventsStep ==
  ASSUME CandleInv, [Next]_vars
  PROVE  EventsInv'
<1>1. now \in Nat /\ queue \in [Providers -> Seq(Event)]
  BY Numbers DEF CandleInv, TypeInv, TimeType, CandleTypes, QueueType
<1> DEFINE Past(q, n) == \A i \in DOMAIN q : q[i].closed => q[i].bar + 1 <= n
<1>2. \A p \in Providers : Past(queue[p], now)
  BY DEF CandleInv, EventsInv
<1>3. ASSUME NEW q \in Seq(Event), NEW n \in Nat, Past(q, n) PROVE Past(q, n + 1)
  <2>1. \A i \in DOMAIN q : q[i] \in Event
    BY <1>3
  <2>2. \A e \in Event : e.bar \in Nat
    BY DEF Event
  <2>3. QED
    BY <1>3, <2>1, <2>2
<1>4. ASSUME NEW q \in Seq(Event), NEW n \in Nat, Past(q, n),
             NEW e \in Event, e.closed => e.bar + 1 <= n
      PROVE  Past(Append(q, e), n)
  <2>1. /\ DOMAIN q = 1 .. Len(q) /\ Len(q) \in Nat
        /\ DOMAIN Append(q, e) = 1 .. (Len(q) + 1)
        /\ Append(q, e)[Len(q) + 1] = e
        /\ \A i \in 1 .. Len(q) : Append(q, e)[i] = q[i]
    BY <1>4
  <2>2. \A i \in 1 .. (Len(q) + 1) : i \in 1 .. Len(q) \/ i = Len(q) + 1
    BY <2>1
  <2>3. QED
    BY <1>4, <2>1, <2>2
<1>5. ASSUME NEW q \in Seq(Event), NEW n \in Nat, Past(q, n), q # <<>>
      PROVE  Past(Tail(q), n)
  <2>1. /\ DOMAIN q = 1 .. Len(q) /\ Len(q) \in Nat
        /\ DOMAIN Tail(q) = 1 .. (Len(q) - 1)
        /\ \A i \in 1 .. (Len(q) - 1) : Tail(q)[i] = q[i + 1] /\ i + 1 \in 1 .. Len(q)
    BY <1>5
  <2>2. QED
    BY <1>5, <2>1
<1>6. Past(<<>>, now)
  OBVIOUS
<1>7. EventsInv' <=> \A p \in Providers : Past(queue'[p], now')
  BY DEF EventsInv
<1> HIDE DEF Past
<1>8. ASSUME NEW p \in Providers, NEW q, queue' = [queue EXCEPT ![p] = q], now' = now,
             Past(q, now)
      PROVE  EventsInv'
  BY <1>1, <1>2, <1>7, <1>8
<1>9. CASE queue' = queue /\ now' = now
  BY <1>2, <1>7, <1>9
<1>10. ASSUME NEW p \in Providers, Collect(p) PROVE EventsInv'
  <2>1. CASE Publish(p)
    <3> DEFINE e == [bar |-> now, closed |-> FALSE]
    <3>1. e \in Event /\ ~e.closed
      BY <1>1 DEF Event
    <3>2. queue' = [queue EXCEPT ![p] = Append(@, e)] /\ now' = now
      BY <2>1 DEF Publish
    <3> HIDE DEF e
    <3>3. Past(Append(queue[p], e), now)
      BY <1>1, <1>2, <1>4, <3>1
    <3>4. QED
      BY <1>1, <1>8, <3>2, <3>3
  <2>2. CASE Handle(p)
    <3>1. Past(Tail(queue[p]), now)
      BY <1>1, <1>2, <1>5, <2>2 DEF Handle
    <3>2. QED
      BY <1>1, <1>8, <2>2, <3>1 DEF Handle
  <2>3. CASE queue' = [queue EXCEPT ![p] = <<>>] /\ now' = now
    BY <1>6, <1>8, <2>3
  <2>4. QED
    BY <1>9, <1>10, <2>1, <2>2, <2>3
       DEF Collect, Disconnect, Restart, Restarted, Poll, Answer, Save, FetchFails
<1>11. CASE Tick
  <2> DEFINE e == [bar |-> now, closed |-> TRUE]
  <2>1. e \in Event /\ e.bar + 1 <= now + 1 /\ now + 1 \in Nat
    BY <1>1 DEF Event
  <2>2. now' = now + 1
    BY <1>11 DEF Tick
  <2>3. \A p \in Providers : queue'[p] \in {queue[p], Append(queue[p], e)}
    BY <1>11 DEF Tick
  <2> HIDE DEF e
  <2>4. \A p \in Providers :
          Past(queue[p], now + 1) /\ Past(Append(queue[p], e), now + 1)
    BY <1>1, <1>2, <1>3, <1>4, <2>1
  <2>5. QED
    BY <1>7, <2>2, <2>3, <2>4
<1>12. CASE InsertBook \/ ReadPrimary \/ Build \/ StartSweep \/ DeleteBatch \/ UNCHANGED vars
  BY <1>9, <1>12 DEF InsertBook, ReadPrimary, Build, StartSweep, DeleteBatch, vars, candles
<1>13. QED
  BY <1>10, <1>11, <1>12, Steps

\* Time does not go back.
LEMMA TimeStep ==
  ASSUME TypeInv, [Next]_vars
  PROVE  now \in Nat /\ now' \in {now, now + 1}
<1>1. \A p \in Providers : Collect(p) => now' = now
  BY DEF Collect, Publish, Disconnect, Restart, Handle, Poll, Answer, Save, FetchFails
<1>2. Tick => now' = now + 1
  BY DEF Tick
<1>3. InsertBook \/ ReadPrimary \/ Build \/ StartSweep \/ DeleteBatch \/ UNCHANGED vars
        => now' = now
  BY DEF InsertBook, ReadPrimary, Build, StartSweep, DeleteBatch, vars
<1>4. QED
  BY <1>1, <1>2, <1>3, Steps, Numbers DEF TypeInv, TimeType

\* The rows that say closed.
LEMMA RowsStep ==
  ASSUME CandleInv, [Next]_vars
  PROVE  (PastInv /\ ClosedIsFinal)'
<1>1. now \in Nat /\ now' \in {now, now + 1} /\ \A b \in Bars : b \in Nat
  BY TimeStep DEF CandleInv, Bars
<1>2. ASSUME \A p \in Providers, b \in Bars :
               \/ store'[p][b] = store[p][b]
               \/ store'[p][b].closed => store'[p][b].final /\ b + 1 <= now
      PROVE  (PastInv /\ ClosedIsFinal)'
  BY <1>1, <1>2 DEF CandleInv, PastInv, ClosedIsFinal
<1>3. CASE store' = store
  BY <1>2, <1>3
<1>4. ASSUME NEW p \in Providers, Handle(p) PROVE (PastInv /\ ClosedIsFinal)'
  <2>1. PICK e \in Event :
          /\ \E i \in DOMAIN queue[p] : e = queue[p][i]
          /\ \A q \in Providers, b \in Bars :
               \/ store'[q][b] = store[q][b]
               \/ b = e.bar /\ store'[q][b] = Candle(e.closed, e.closed)
    BY <1>4, HandleStores DEF CandleInv
  <2>2. e.closed => e.bar + 1 <= now
    BY <2>1 DEF CandleInv, EventsInv
  <2>3. QED
    BY <1>2, <2>1, <2>2 DEF Candle
<1>5. ASSUME NEW p \in Providers, Save(p) PROVE (PastInv /\ ClosedIsFinal)'
  BY <1>2, <1>5, SaveStores DEF CandleInv
<1>6. QED
  BY <1>3, <1>4, <1>5, StoreChanges

\* Requests, events and rows in every reachable state.
THEOREM CandleInvariant == Spec => []CandleInv
<1>1. Init /\ TypeInv => CandleInv
  <2> SUFFICES ASSUME Init, TypeInv PROVE CandleInv
    OBVIOUS
  <2>1. FetchInv
    BY Numbers DEF Init, FetchInv, BackfillOf
  <2>2. EventsInv
    BY DEF Init, EventsInv
  <2>3. PastInv /\ ClosedIsFinal
    BY DEF Init, PastInv, ClosedIsFinal, NoCandle
  <2>4. QED
    BY <2>1, <2>2, <2>3 DEF CandleInv
<1>2. CandleInv /\ TypeInv' /\ [Next]_vars => CandleInv'
  BY FetchStep, EventsStep, RowsStep DEF CandleInv
<1>3. QED
  BY <1>1, <1>2, TypeInvariant, PTL DEF Spec

\* A row that says closed has the final values, in whatever order events, answers and
\* polls arrive.
THEOREM FinalWhenClosed == Spec => []ClosedIsFinal
<1>1. CandleInv => ClosedIsFinal
  BY DEF CandleInv
<1>2. QED
  BY <1>1, CandleInvariant, PTL

\* A closed candle stays closed once the last event of its bar would be too late.
THEOREM ClosedForGood == Spec => OldStaysClosed
<1> DEFINE Stays == \A p \in Providers, b \in Bars :
                      store[p][b].closed /\ now > b + CandleLag => store'[p][b].closed
<1>1. CandleInv /\ [Next]_vars => [Stays]_vars
  <2> SUFFICES ASSUME CandleInv, [Next]_vars,
                      NEW q \in Providers, NEW b \in Bars, store[q][b].closed,
                      now > b + CandleLag
               PROVE  store'[q][b].closed
    OBVIOUS
  <2>1. CASE store' = store
    BY <2>1
  <2>2. ASSUME NEW p \in Providers, Handle(p) PROVE store'[q][b].closed
    <3>1. PICK e \in Event :
            \/ store'[q][b] = store[q][b]
            \/ /\ b = e.bar /\ now - ObservedAt(e) <= CandleLag
               /\ store'[q][b] = Candle(e.closed, e.closed)
      BY <2>2, HandleStores DEF CandleInv
    <3>2. CASE e.closed
      BY <3>1, <3>2 DEF Candle
    <3>3. CASE ~e.closed
      <4>1. ~(b = e.bar /\ now - ObservedAt(e) <= CandleLag)
        BY <3>3, TimeStep, Numbers DEF ObservedAt, CandleInv, Bars
      <4>2. QED
        BY <3>1, <4>1
    <3>4. QED
      BY <3>2, <3>3
  <2>3. ASSUME NEW p \in Providers, Save(p) PROVE store'[q][b].closed
    <3>1. store'[q][b] = store[q][b] \/ store'[q][b].closed
      BY <2>3, SaveStores DEF CandleInv
    <3>2. QED
      BY <3>1
  <2>4. QED
    BY <2>1, <2>2, <2>3, StoreChanges
<1>2. OldStaysClosed <=> [][Stays]_vars
  BY PTL DEF OldStaysClosed
<1>3. QED
  BY <1>1, <1>2, CandleInvariant, PTL DEF Spec
-----------------------------------------------------------------------------
(* What a vector rests on *)

\* What build_latest has read is final and past, whatever becomes of the rows.
ReadInv == \A b \in DOMAIN reading : b \in Bars /\ reading[b] = TRUE /\ b + 1 <= now

VectorInv == CandleInv /\ ReadInv /\ (\A v \in vectors : v.as_of \in Int) /\ VectorIsReal

\* The books that a vector may take.
LEMMA FreshestBook ==
  ASSUME books \in Seq(Int), NEW b \in Int, FreshBooks(b) # {}
  PROVE  Max(FreshBooks(b)) \in (b + 1 - BookWindow + 1) .. (b + 1)
<1>1. FreshBooks(b) \in SUBSET Int /\ \A at \in FreshBooks(b) : at <= b + 1
  <2>1. \A i \in DOMAIN books : books[i] \in Int
    OBVIOUS
  <2>2. QED
    BY <2>1 DEF FreshBooks, ToSet
<1>2. b + 1 \in Int
  OBVIOUS
<1>3. Max(FreshBooks(b)) \in FreshBooks(b)
  BY <1>1, <1>2, MaxIn
<1> DEFINE at == Max(FreshBooks(b))
<1>4. at \in Int /\ b + 1 - BookWindow < at /\ at <= b + 1
  BY <1>1, <1>3 DEF FreshBooks
<1> HIDE DEF at
<1>5. at \in (b + 1 - BookWindow + 1) .. (b + 1)
  BY <1>4, Numbers
<1>6. QED
  BY <1>5 DEF at

\* A vector is built of what was read and of what is there now.
LEMMA BuildStep ==
  ASSUME VectorInv, Build
  PROVE  \A v \in vectors' : v \in vectors \/
           /\ v.as_of \in Int
           /\ v.as_of <= now /\ v.reserve /\ v.as_of - 1 \notin Divergent
           /\ Cardinality(DOMAIN v.candles) >= MinCandles
           /\ \A b \in DOMAIN v.candles : b + 1 <= v.as_of /\ v.candles[b]
           /\ v.orderbook_at \in (v.as_of - BookWindow + 1) .. v.as_of
<1> DEFINE bars == {b \in DOMAIN reading : Candidate(b)}
           latest == Max(bars)
           vector == [as_of |-> latest + 1,
                      candles |-> [b \in Before(latest) |-> reading[b]],
                      reserve |-> store["okx"][latest].final,
                      orderbook_at |-> Max(FreshBooks(latest))]
<1>1. vectors' = IF bars = {} \/ (\E v \in vectors : v.as_of = latest + 1)
                   THEN vectors ELSE vectors \cup {vector}
  BY DEF Build
<1>2. CASE bars = {}
  BY <1>1, <1>2
<1>3. CASE bars # {}
  <2>1. /\ bars \in SUBSET Int /\ \A b \in bars : b <= Horizon
        /\ Horizon \in Int /\ now \in Nat /\ Bars \subseteq Nat
    BY Numbers, TimeStep DEF VectorInv, ReadInv, Bars, CandleInv, TypeInv, TimeType
  <2>2. latest \in bars
    BY <1>3, <2>1, MaxIn
  <2>3. /\ latest \in DOMAIN reading /\ latest \in Bars /\ latest + 1 <= now
        /\ Cardinality(Before(latest)) >= MinCandles
        /\ store["okx"][latest].closed /\ latest \notin Divergent
        /\ FreshBooks(latest) # {}
    BY <2>2 DEF VectorInv, ReadInv, Candidate
  <2>4. latest \in Int /\ latest + 1 \in Int /\ latest + 1 - 1 = latest
    BY <2>1, <2>2
  <2>5. Max(FreshBooks(latest)) \in (latest + 1 - BookWindow + 1) .. (latest + 1)
    BY <2>3, <2>4, FreshestBook DEF VectorInv, CandleInv, TypeInv, BooksType
  <2>6. store["okx"][latest].final
    BY <2>3 DEF VectorInv, CandleInv, ClosedIsFinal, Providers
  <2>7. \A b \in Before(latest) : b + 1 <= latest + 1 /\ reading[b]
    <3>1. \A b \in Before(latest) : reading[b]
      BY Zenon DEF Before, VectorInv, ReadInv
    <3>2. \A b \in Before(latest) : b \in Nat /\ b <= latest
      BY <2>1 DEF Before, VectorInv, ReadInv
    <3> HIDE DEF latest
    <3>3. \A b \in Before(latest) : b + 1 <= latest + 1
      BY <2>4, <3>2
    <3>4. QED
      BY <3>1, <3>3
  <2> HIDE DEF latest
  <2>8. /\ vector.as_of = latest + 1 /\ vector.reserve = store["okx"][latest].final
        /\ vector.candles = [b \in Before(latest) |-> reading[b]]
        /\ vector.orderbook_at = Max(FreshBooks(latest))
    OBVIOUS
  <2> HIDE DEF vector
  <2>9. DOMAIN vector.candles = Before(latest)
        /\ \A b \in Before(latest) : vector.candles[b] = reading[b]
    BY <2>8
  <2>10. \A b \in DOMAIN vector.candles : b + 1 <= vector.as_of /\ vector.candles[b]
    BY <2>7, <2>8, <2>9
  <2>11. \A v \in vectors' : v \in vectors \/ v = vector
    BY <1>1
  <2>12. /\ vector.as_of \in Int /\ vector.as_of <= now /\ vector.as_of - 1 \notin Divergent
         /\ Cardinality(DOMAIN vector.candles) >= MinCandles
         /\ vector.orderbook_at \in (vector.as_of - BookWindow + 1) .. vector.as_of
    <3>1. vector.as_of \in Int /\ vector.as_of <= now /\ vector.as_of - 1 = latest
      BY <2>3, <2>4, <2>8
    <3>2. Cardinality(DOMAIN vector.candles) >= MinCandles
      BY <2>3, <2>9
    <3>3. vector.as_of - 1 \notin Divergent
      BY <2>3, <3>1
    <3>4. vector.orderbook_at \in (vector.as_of - BookWindow + 1) .. vector.as_of
      <4> DEFINE at == vector.orderbook_at
      <4>1. at = Max(FreshBooks(latest))
        BY <2>8
      <4> HIDE DEF at
      <4>2. at \in (latest + 1 - BookWindow + 1) .. (latest + 1)
        BY <2>5, <4>1
      <4>3. vector.as_of = latest + 1
        BY <2>8
      <4>4. at \in (vector.as_of - BookWindow + 1) .. vector.as_of
        BY <2>4, <4>2, <4>3, Numbers
      <4>5. QED
        BY <4>4 DEF at
    <3>5. QED
      BY <3>1, <3>2, <3>3, <3>4
  <2>13. QED
    BY <2>6, <2>8, <2>10, <2>11, <2>12
<1>4. QED
  BY <1>2, <1>3

\* Reading, building and waiting.
LEMMA VectorStep ==
  ASSUME VectorInv, [Next]_vars
  PROVE  (ReadInv /\ (\A v \in vectors : v.as_of \in Int) /\ VectorIsReal)'
<1>1. now \in Nat /\ now' \in {now, now + 1} /\ \A b \in Bars : b \in Nat
  BY TimeStep DEF VectorInv, CandleInv, Bars
<1>2. CASE UNCHANGED features
  <2>1. ReadInv'
    BY <1>1, <1>2 DEF VectorInv, ReadInv, features
  <2>2. \A v \in vectors : v.as_of \in Int /\ v.as_of <= now => v.as_of <= now'
    BY <1>1
  <2>3. VectorIsReal'
    BY <1>2, <2>2 DEF VectorInv, VectorIsReal, features
  <2>4. QED
    BY <1>2, <2>1, <2>3 DEF VectorInv, features
<1>3. CASE ReadPrimary
  <2>1. /\ reading' = [b \in Latest(PrimaryCandles) |-> store["bybit"][b].final]
        /\ vectors' = vectors /\ now' = now
    BY <1>3 DEF ReadPrimary
  <2>2. \A b \in Latest(PrimaryCandles) : b \in Bars /\ store["bybit"][b].closed
    BY DEF Latest, PrimaryCandles
  <2>3. \A b \in Latest(PrimaryCandles) :
          /\ b \in Bars /\ store["bybit"][b].final = TRUE /\ b + 1 <= now
    <3>1. "bybit" \in Providers
      BY DEF Providers
    <3>2. \A b \in Bars : store["bybit"][b].final \in BOOLEAN
      <4>1. \A b \in Bars : store["bybit"][b] \in Row
        BY <3>1 DEF VectorInv, CandleInv, TypeInv, CandleTypes, StoreType
      <4>2. \A row \in Row : row.final \in BOOLEAN
        <5>1. NoCandle.final = FALSE
          BY DEF NoCandle
        <5>2. \A row \in [closed : BOOLEAN, final : BOOLEAN, stored : {TRUE}] :
                row.final \in BOOLEAN
          OBVIOUS
        <5>3. QED
          BY <5>1, <5>2 DEF Row
      <4>3. QED
        BY <4>1, <4>2
    <3>3. QED
      BY <2>2, <3>1, <3>2 DEF VectorInv, CandleInv, ClosedIsFinal, PastInv
  <2>4. ReadInv'
    BY <2>1, <2>3 DEF ReadInv
  <2>5. QED
    BY <2>1, <2>4 DEF VectorInv, VectorIsReal
<1>4. CASE Build
  <2>1. reading' = <<>> /\ now' = now
    BY <1>4 DEF Build
  <2>2. ReadInv'
    BY <2>1 DEF ReadInv
  <2>3. QED
    BY <1>4, <2>1, <2>2, BuildStep DEF VectorInv, VectorIsReal
<1>5. \A p \in Providers : Collect(p) => UNCHANGED features
  BY DEF Collect, Publish, Disconnect, Restart, Handle, Poll, Answer, Save, FetchFails
<1>6. Tick \/ InsertBook \/ StartSweep \/ DeleteBatch \/ UNCHANGED vars
        => UNCHANGED features
  BY DEF Tick, InsertBook, StartSweep, DeleteBatch, vars, features
<1>7. QED
  BY <1>2, <1>3, <1>4, <1>5, <1>6, Steps

\* Every vector rests on final candles of both exchanges, none of them divergent or
\* later than itself, and on a book of its time, however the rows change between the queries.
THEOREM VectorsAreReal == Spec => []VectorIsReal
<1>1. Init /\ CandleInv => VectorInv
  BY DEF Init, VectorInv, ReadInv, VectorIsReal
<1>2. VectorInv /\ CandleInv' /\ [Next]_vars => VectorInv'
  BY VectorStep DEF VectorInv
<1>3. VectorInv => VectorIsReal
  BY DEF VectorInv
<1>4. QED
  BY <1>1, <1>2, <1>3, CandleInvariant, PTL DEF Spec
-----------------------------------------------------------------------------
(* What retention leaves *)

\* Books lie in the order of their times but for what the collectors admit of late and
\* early ones; none is older than the last complete run allows.
BooksInv ==
  /\ \A i \in DOMAIN books : /\ books[i] <= now + BookSkew
                             /\ books[i] >= swept - BookAge - BookSkew
  /\ \A i, j \in DOMAIN books : i <= j => books[j] >= books[i] - BookSkew - BookAge

\* A batch that is not full has found every expired book.
LEMMA BatchComplete ==
  ASSUME books \in Seq(Int), sweep.cutoff \in Int, Cardinality(FirstExpired) < BatchSize
  PROVE  \A i \in DOMAIN books : books[i] < sweep.cutoff => i \in FirstExpired
<1> DEFINE old == {i \in DOMAIN books : books[i] < sweep.cutoff}
           missed == {i \in old : i \notin FirstExpired}
<1>1. DOMAIN books = 1 .. Len(books) /\ Len(books) \in Nat
  OBVIOUS
<1>2. FirstExpired = {i \in old : Cardinality({j \in old : j < i}) < BatchSize}
  BY DEF FirstExpired
<1>3. old \in SUBSET Nat /\ IsFiniteSet(FirstExpired)
  <2>1. IsFiniteSet(1 .. Len(books))
    BY <1>1, FS_Interval
  <2>2. FirstExpired \subseteq 1 .. Len(books)
    BY <1>1, <1>2
  <2>3. IsFiniteSet(FirstExpired)
    BY <2>1, <2>2, FS_Subset
  <2>4. old \in SUBSET Nat
    BY <1>1
  <2>5. QED
    BY <2>3, <2>4
<1> SUFFICES ASSUME missed # {} PROVE FALSE
  OBVIOUS
<1>4. PICK i \in missed : \A j \in missed : i <= j
  BY <1>3, LeastNumber
<1> DEFINE before == {j \in old : j < i}
<1>5. before \subseteq FirstExpired
  BY <1>3, <1>4
<1>6. Cardinality(before) <= Cardinality(FirstExpired) /\ Cardinality(before) \in Nat
      /\ Cardinality(FirstExpired) \in Nat
  BY <1>3, <1>5, FS_Subset, FS_CardinalityType
<1>7. i \in old /\ i \notin FirstExpired
  BY <1>4
<1> HIDE DEF old, missed
<1>8. i \in FirstExpired
  BY <1>2, <1>6, <1>7, Numbers
<1>9. QED
  BY <1>7, <1>8

\* What a run that is not cut short leaves is in order, although it may have asked the
\* row with the smallest id only.
LEMMA BatchLeaves ==
  ASSUME TypeInv, BooksInv, Cardinality(Expired) < BatchSize,
         NEW i \in DOMAIN books, i \notin Expired
  PROVE  books[i] >= sweep.cutoff - BookAge - BookSkew
<1>1. /\ books \in Seq(Int) /\ sweep.cutoff \in Int
      /\ 1 \in DOMAIN books /\ 1 <= i /\ i \in Nat /\ books # <<>>
      /\ books[1] \in Int /\ books[i] \in Int /\ Head(books) = books[1]
  BY DEF TypeInv, BooksType, SweepType
<1>2. CASE Head(books) >= sweep.cutoff
  <2>1. books[i] >= books[1] - BookSkew - BookAge
    BY <1>1 DEF BooksInv
  <2>2. QED
    BY <1>1, <1>2, <2>1, Numbers
<1>3. CASE ~(Head(books) >= sweep.cutoff)
  <2>1. Expired = FirstExpired
    BY <1>1, <1>3 DEF Expired
  <2>2. ~(books[i] < sweep.cutoff)
    BY <1>1, <2>1, BatchComplete
  <2>3. QED
    BY <1>1, <2>2, Numbers
<1>4. QED
  BY <1>2, <1>3

\* Books come, time passes, runs delete.
LEMMA BooksStep ==
  ASSUME TypeInv, BooksInv, [Next]_vars
  PROVE  BooksInv'
<1>1. /\ books \in Seq(Int) /\ now \in Nat /\ now' \in {now, now + 1}
      /\ swept \in Int /\ swept <= now /\ sweep.cutoff \in Int
      /\ DOMAIN books = 1 .. Len(books) /\ Len(books) \in Nat
      /\ \A i \in DOMAIN books : books[i] \in Int
  BY TimeStep DEF TypeInv, BooksType, SweepType
<1>2. CASE books' = books /\ swept' = swept
  BY <1>1, <1>2, Numbers DEF BooksInv
<1>3. CASE InsertBook
  <2>1. PICK at \in Max({0, now - BookAge}) .. (now + BookSkew) : books' = Append(books, at)
    BY <1>3 DEF InsertBook
  <2>2. at \in Int /\ at >= now - BookAge /\ at <= now + BookSkew
    <3>1. 0 \in Int /\ now - BookAge \in Int
      BY <1>1, Numbers
    <3>2. Max({0, now - BookAge}) \in Int /\ Max({0, now - BookAge}) >= now - BookAge
      BY <3>1, MaxOfTwo
    <3>3. QED
      BY <3>1, <3>2
  <2>3. now' = now /\ swept' = swept
    BY <1>3 DEF InsertBook, retention
  <2>4. /\ DOMAIN books' = 1 .. (Len(books) + 1) /\ books'[Len(books) + 1] = at
        /\ \A i \in DOMAIN books : books'[i] = books[i]
    BY <1>1, <2>1, <2>2
  <2>5. ASSUME NEW i \in DOMAIN books'
        PROVE  /\ books'[i] <= now + BookSkew /\ books'[i] >= swept - BookAge - BookSkew
    <3>1. CASE i \in DOMAIN books
      BY <2>4, <3>1 DEF BooksInv
    <3>2. CASE i = Len(books) + 1
      BY <1>1, <2>2, <2>4, <3>2, Numbers
    <3>3. QED
      BY <1>1, <2>4, <2>5, <3>1, <3>2
  <2>6. ASSUME NEW i \in DOMAIN books', NEW j \in DOMAIN books', i <= j
        PROVE  books'[j] >= books'[i] - BookSkew - BookAge
    <3>1. CASE i \in DOMAIN books /\ j \in DOMAIN books
      BY <2>4, <2>6, <3>1 DEF BooksInv
    <3>2. CASE j = Len(books) + 1
      <4>1. books'[i] \in Int /\ books'[i] <= now + BookSkew
        BY <1>1, <2>2, <2>4, <2>5
      <4>2. QED
        BY <1>1, <2>2, <2>4, <3>2, <4>1, Numbers
    <3>3. QED
      BY <1>1, <2>4, <2>6, <3>1, <3>2
  <2>7. QED
    BY <2>3, <2>5, <2>6 DEF BooksInv
<1>4. CASE DeleteBatch
  <2>1. books' = Kept(books, Expired) /\ now' = now
    BY <1>4 DEF DeleteBatch, Kept
  <2>2. Thinned(books', books, Expired, Len(books))
    BY <1>1, <2>1, KeptThinned
  <2>3. \A i, j \in DOMAIN books' : i <= j =>
          \E m, n \in DOMAIN books \ Expired :
            m <= n /\ books'[i] = books[m] /\ books'[j] = books[n]
    <3> DEFINE Left == (1 .. Len(books)) \ Expired
    <3>1. DOMAIN books \ Expired = Left
      BY <1>1
    <3>2. \A i, j \in DOMAIN books' : i <= j =>
            \E m, n \in Left : m <= n /\ books'[i] = books[m] /\ books'[j] = books[n]
      BY <2>2 DEF Thinned
    <3> HIDE DEF Left
    <3>3. QED
      BY <3>1, <3>2
  <2>4. \A i \in DOMAIN books' : \E m \in DOMAIN books \ Expired : books'[i] = books[m]
    <3>1. \A i \in DOMAIN books' : i <= i
      BY <2>2 DEF Thinned
    <3>2. QED
      BY <2>3, <3>1
  <2>5. \A m \in DOMAIN books \ Expired : books[m] >= swept' - BookAge - BookSkew
    <3>1. CASE Cardinality(Expired) < BatchSize
      <4>1. swept' = sweep.cutoff
        BY <1>4, <3>1 DEF DeleteBatch
      <4>2. QED
        BY <3>1, <4>1, BatchLeaves
    <3>2. CASE ~(Cardinality(Expired) < BatchSize)
      <4>1. swept' = swept
        BY <1>4, <3>2 DEF DeleteBatch
      <4>2. QED
        BY <4>1 DEF BooksInv
    <3>3. QED
      BY <3>1, <3>2
  <2>6. \A i \in DOMAIN books' : books'[i] <= now' + BookSkew
                                 /\ books'[i] >= swept' - BookAge - BookSkew
    BY <2>1, <2>4, <2>5 DEF BooksInv
  <2>7. \A i, j \in DOMAIN books' : i <= j => books'[j] >= books'[i] - BookSkew - BookAge
    BY <2>3 DEF BooksInv
  <2>8. QED
    BY <2>6, <2>7 DEF BooksInv
<1>5. \A p \in Providers : Collect(p) => books' = books /\ swept' = swept
  BY DEF Collect, Publish, Disconnect, Restart, Handle, Poll, Answer, Save, FetchFails,
         retention
<1>6. Tick \/ ReadPrimary \/ Build \/ StartSweep \/ UNCHANGED vars
        => books' = books /\ swept' = swept
  BY DEF Tick, ReadPrimary, Build, StartSweep, vars, retention
<1>7. QED
  BY <1>2, <1>3, <1>4, <1>5, <1>6, Steps

\* After a complete retention run no book is older than its cutoff by more than the
\* collectors admit, whatever the ids and the times.
THEOREM ExpiredGone == Spec => []ExpiredBounded
<1>1. Init => BooksInv
  BY DEF Init, BooksInv
<1>2. TypeInv /\ BooksInv /\ [Next]_vars => BooksInv'
  BY BooksStep
<1>3. BooksInv => ExpiredBounded
  BY DEF BooksInv, ExpiredBounded
<1>4. QED
  BY <1>1, <1>2, <1>3, TypeInvariant, PTL DEF Spec
=============================================================================
