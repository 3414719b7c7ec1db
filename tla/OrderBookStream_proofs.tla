------------------------ MODULE OrderBookStream_proofs ------------------------
(***************************************************************************)
(* Proofs about OrderBookStream, for any prices and depth, any feed, and    *)
(* any number of updates, lost connections, dropped updates and restarts.   *)
(***************************************************************************)
EXTENDS OrderBookStream, TLAPS, FiniteSetTheorems, SequenceTheorems

\* What the receiver should have held before a message.
Prior(m) == With(Without(m.truth, m.set), m.gone)

\* Levels that are those of the exchange, as far as they are kept.
Agrees(levels, truth) ==
  /\ levels.bid \subseteq truth.bid /\ levels.ask \subseteq truth.ask
  /\ feed.levels <= Depth => levels = truth

\* Whether the collector can know that it has missed nothing since the snapshot.
Sound == feed.chained \/ ~dropped

\* The types the proof needs, and that the exchange's book is not crossed.
TypeInv ==
  /\ feed \in Feeds /\ book \in Book /\ sequence \in Nat \ {0}
  /\ wire \in Seq(Message) /\ online \in BOOLEAN /\ dropped \in BOOLEAN
  /\ local \in [valid : BOOLEAN, sequence : Nat, levels : Book]
  /\ ~Crossed(book)

\* A message is one of consecutive numbers up to the newest, its levels are those that
\* the exchange published then, and it says what changed since the message before it.
Sent(i) ==
  LET m == wire[i]
  IN  /\ m.sequence = sequence - Len(wire) + i
      /\ m.snapshot => i = 1 /\ m.set = m.truth
      /\ ~m.snapshot => /\ m.sequence >= 2
                        /\ m.previous = IF feed.chained THEN m.sequence - 1 ELSE 0
      /\ Without(m.set, m.truth) = Empty /\ Without(m.gone, m.truth) = m.gone
      /\ \E b \in Book : ~Crossed(b) /\ m.truth = Published(b)
      /\ i = Len(wire) => m.truth = Published(book)
      /\ i < Len(wire) => Prior(wire[i + 1]) = m.truth

WireInv ==
  /\ ~online => wire = <<>>
  /\ \A i \in 1 .. Len(wire) : Sent(i)

\* A book that is valid is that of the exchange at its number, and every message that
\* would be applied to it was sent to who has that book.
LocalInv ==
  /\ local.sequence <= sequence
  /\ local.valid /\ Sound =>
       /\ local.sequence = sequence => Agrees(local.levels, Published(book))
       /\ \A i \in 1 .. Len(wire) :
            ~wire[i].snapshot /\ wire[i].sequence = local.sequence + 1 =>
              Agrees(local.levels, Prior(wire[i]))

\* Unless an update was dropped or a snapshot is coming, the next message is the one
\* that follows the local book.
CaughtUp ==
  online /\ ~dropped /\ local.valid /\ (wire = <<>> \/ ~wire[1].snapshot) =>
    local.sequence = sequence - Len(wire)

\* The inductive invariant.
StreamInv == TypeInv /\ WireInv /\ LocalInv /\ CaughtUp
-----------------------------------------------------------------------------
\* Books are made of books.
LEMMA BookTypes ==
  ASSUME NEW b \in Book, NEW c \in Book, NEW n
  PROVE  /\ Without(b, c) \in Book /\ With(b, c) \in Book /\ Best(b, n) \in Book
         /\ Empty \in Book /\ Published(b) \in Book
  BY DEF Book, Without, With, Best, Empty, Published

\* Two books with the same sides are the same.
LEMMA SameBook ==
  ASSUME NEW b \in Book, NEW c \in Book, b.bid = c.bid, b.ask = c.ask
  PROVE  b = c
  BY DEF Book

\* The best levels are levels.
LEMMA BestWithin ==
  ASSUME NEW b \in Book, NEW n
  PROVE  Best(b, n).bid \subseteq b.bid /\ Best(b, n).ask \subseteq b.ask
  BY DEF Best

\* Of levels that are the best n nothing is cut off at n or more.
LEMMA BestOfBest ==
  ASSUME NEW b \in Book, NEW n \in Nat, NEW d \in Nat, n <= d, IsFiniteSet(Prices)
  PROVE  Best(Best(b, n), d) = Best(b, n)
<1> DEFINE c == Best(b, n)
<1>1. c \in Book /\ Best(c, d) \in Book
  BY BookTypes
<1>2. \A p \in c.bid : Cardinality({q \in c.bid : q > p}) < d
  <2> SUFFICES ASSUME NEW p \in c.bid PROVE Cardinality({q \in c.bid : q > p}) < d
    OBVIOUS
  <2> DEFINE kept == {q \in c.bid : q > p}
             all == {q \in b.bid : q > p}
  <2>1. kept \subseteq all /\ all \subseteq Prices
    BY BestWithin DEF Book
  <2>2. Cardinality(all) < n
    BY DEF Best
  <2> HIDE DEF kept, all
  <2>3. IsFiniteSet(all)
    BY <2>1, FS_Subset
  <2>4. Cardinality(kept) <= Cardinality(all) /\ IsFiniteSet(kept)
    BY <2>1, <2>3, FS_Subset
  <2>5. Cardinality(kept) \in Nat /\ Cardinality(all) \in Nat
    BY <2>3, <2>4, FS_CardinalityType
  <2>6. Cardinality(kept) < d
    BY <2>2, <2>4, <2>5
  <2>7. QED
    BY <2>6 DEF kept
<1>3. \A p \in c.ask : Cardinality({q \in c.ask : q < p}) < d
  <2> SUFFICES ASSUME NEW p \in c.ask PROVE Cardinality({q \in c.ask : q < p}) < d
    OBVIOUS
  <2> DEFINE kept == {q \in c.ask : q < p}
             all == {q \in b.ask : q < p}
  <2>1. kept \subseteq all /\ all \subseteq Prices
    BY BestWithin DEF Book
  <2>2. Cardinality(all) < n
    BY DEF Best
  <2> HIDE DEF kept, all
  <2>3. IsFiniteSet(all)
    BY <2>1, FS_Subset
  <2>4. Cardinality(kept) <= Cardinality(all) /\ IsFiniteSet(kept)
    BY <2>1, <2>3, FS_Subset
  <2>5. Cardinality(kept) \in Nat /\ Cardinality(all) \in Nat
    BY <2>3, <2>4, FS_CardinalityType
  <2>6. Cardinality(kept) < d
    BY <2>2, <2>4, <2>5
  <2>7. QED
    BY <2>6 DEF kept
<1> HIDE DEF c
<1>4. Best(c, d).bid = c.bid /\ Best(c, d).ask = c.ask
  BY <1>2, <1>3 DEF Best
<1>5. QED
  BY <1>1, <1>4, SameBook DEF c

\* Levels of a book that is not crossed are not crossed.
LEMMA WithinUncrossed ==
  ASSUME NEW b \in Book, NEW c \in Book, ~Crossed(c), b.bid \subseteq c.bid, b.ask \subseteq c.ask
  PROVE  ~Crossed(b)
  BY DEF Crossed

\* A delta says what changed since the book that was published before it.
LEMMA DeltaSays ==
  ASSUME TypeInv, NEW next \in Book
  PROVE  /\ Delta(next) \in Message
         /\ Prior(Delta(next)) = Published(book)
         /\ Without(Delta(next).set, Delta(next).truth) = Empty
         /\ Without(Delta(next).gone, Delta(next).truth) = Delta(next).gone
<1> DEFINE before == Published(book)
           after == Published(next)
<1>1. before \in Book /\ after \in Book /\ sequence \in Nat
  BY BookTypes DEF TypeInv
<1>2. Delta(next).set = Without(after, before) /\ Delta(next).gone = Without(before, after)
      /\ Delta(next).truth = after
  BY DEF Delta
<1>3. Delta(next) \in Message
  <2>1. Without(after, before) \in Book /\ Without(before, after) \in Book
    BY <1>1, BookTypes
  <2>2. (IF feed.chained THEN sequence ELSE 0) \in Nat
    BY <1>1
  <2> HIDE DEF before, after
  <2>3. QED
    BY <1>1, <2>1, <2>2 DEF Delta, Message, before, after
<1> HIDE DEF before, after
<1>4. Prior(Delta(next)) = before
  BY <1>1, <1>2 DEF Prior, With, Without, Book
<1>5. /\ Without(Delta(next).set, Delta(next).truth) = Empty
      /\ Without(Delta(next).gone, Delta(next).truth) = Delta(next).gone
  <2>1. \A b, c \in Book : Without(Without(b, c), b) = Empty
    BY DEF Without, Empty, Book
  <2>2. ASSUME NEW b \in Book, NEW c \in Book
        PROVE  Without(Without(b, c), c) = Without(b, c)
    <3>1. Without(Without(b, c), c) \in Book /\ Without(b, c) \in Book
      BY BookTypes
    <3>2. /\ Without(Without(b, c), c).bid = Without(b, c).bid
          /\ Without(Without(b, c), c).ask = Without(b, c).ask
      BY DEF Without
    <3>3. QED
      BY <3>1, <3>2, SameBook
  <2>3. QED
    BY <1>1, <1>2, <2>1, <2>2
<1>6. QED
  BY <1>3, <1>4, <1>5 DEF before

\* A delta applied to the book it was sent for gives the book it was sent with.
LEMMA MergedAgrees ==
  ASSUME NEW levels \in Book, NEW m \in Message, feed \in Feeds,
         Agrees(levels, Prior(m)),
         Without(m.set, m.truth) = Empty, Without(m.gone, m.truth) = m.gone,
         NEW b \in Book, m.truth = Published(b)
  PROVE  Agrees(Best(With(Without(levels, m.gone), m.set), Depth), m.truth)
<1> DEFINE merged == With(Without(levels, m.gone), m.set)
<1>1. m.set \in Book /\ m.gone \in Book /\ m.truth \in Book /\ merged \in Book
  BY BookTypes DEF Message
<1>2. Best(merged, Depth) \in Book
  BY <1>1, BookTypes
<1>3. merged.bid \subseteq m.truth.bid /\ merged.ask \subseteq m.truth.ask
  BY <1>1 DEF Agrees, Prior, With, Without, Empty, Book
<1>4. ASSUME feed.levels <= Depth PROVE Best(merged, Depth) = m.truth
  <2>1. levels = Prior(m)
    BY <1>4 DEF Agrees
  <2>2. merged.bid = m.truth.bid /\ merged.ask = m.truth.ask
    BY <1>1, <2>1 DEF Prior, With, Without, Empty, Book
  <2>3. merged = m.truth
    BY <1>1, <2>2, SameBook
  <2>4. feed.levels \in Nat /\ Depth \in Nat /\ IsFiniteSet(Prices)
    BY Inputs DEF Feed
  <2>5. Best(m.truth, Depth) = m.truth
    BY <1>4, <2>4, BestOfBest DEF Published
  <2>6. QED
    BY <2>3, <2>5
<1> HIDE DEF merged
<1>5. /\ Best(merged, Depth).bid \subseteq m.truth.bid
      /\ Best(merged, Depth).ask \subseteq m.truth.ask
  BY <1>1, <1>3, BestWithin
<1>6. QED
  BY <1>4, <1>5 DEF Agrees, merged
-----------------------------------------------------------------------------
\* What is sent later was sent by the same rules: taking the first message off the wire
\* leaves the rest as it is.
LEMMA TailWire ==
  ASSUME TypeInv, WireInv, wire # <<>>, wire' = Tail(wire), UNCHANGED <<feed, book, sequence>>
  PROVE  /\ wire' \in Seq(Message) /\ Len(wire') = Len(wire) - 1 /\ Len(wire) \in Nat \ {0}
         /\ \A i \in 1 .. Len(wire') : wire'[i] = wire[i + 1]
         /\ \A i \in 1 .. Len(wire') : Sent(i)' /\ ~wire'[i].snapshot
<1>1. /\ wire' \in Seq(Message) /\ Len(wire') = Len(wire) - 1 /\ Len(wire) \in Nat \ {0}
      /\ \A i \in 1 .. Len(wire') : wire'[i] = wire[i + 1]
  BY DEF TypeInv
<1>2. ASSUME NEW i \in 1 .. Len(wire')
      PROVE  Sent(i)' /\ ~wire'[i].snapshot
  <2>1. i + 1 \in 1 .. Len(wire) /\ wire'[i] = wire[i + 1] /\ i + 1 # 1
    BY <1>1
  <2>2. Sent(i + 1)
    BY <2>1 DEF WireInv
  <2>3. ~wire'[i].snapshot
    BY <2>1, <2>2 DEF Sent
  <2>4. sequence - Len(wire') + i = sequence - Len(wire) + (i + 1)
    BY <1>1 DEF TypeInv
  <2>5. i = Len(wire') => i + 1 = Len(wire)
    BY <1>1
  <2>6. i < Len(wire') => i + 1 < Len(wire) /\ wire'[i + 1] = wire[(i + 1) + 1]
    BY <1>1
  <2>7. \A b : Published(b)' = Published(b)
    BY DEF Published
  <2>8. wire'[i].sequence = sequence - Len(wire') + i
    BY <2>1, <2>2, <2>4 DEF Sent
  <2>9. Sent(i)'
    BY <2>1, <2>2, <2>3, <2>5, <2>6, <2>7, <2>8 DEF Sent
  <2>10. QED
    BY <2>3, <2>9
<1>3. QED
  BY <1>1, <1>2

\* The message that is applied next was sent by the rules.
LEMMA HeadSent ==
  ASSUME TypeInv, WireInv, wire # <<>>
  PROVE  /\ Head(wire) = wire[1] /\ Head(wire) \in Message /\ Sent(1)
         /\ Len(wire) \in Nat \ {0} /\ online
  BY DEF TypeInv, WireInv

\* Without a valid book the rules about it say nothing.
LEMMA InvalidLocal ==
  ASSUME TypeInv, WireInv, wire # <<>>, wire' = Tail(wire), UNCHANGED <<feed, book, sequence>>,
         local' \in [valid : BOOLEAN, sequence : Nat, levels : Book], local'.valid = FALSE,
         local'.sequence <= sequence, dropped' \in BOOLEAN, online' = online
  PROVE  StreamInv'
<1>1. TypeInv'
  BY TailWire DEF TypeInv
<1>2. WireInv'
  BY TailWire, HeadSent DEF WireInv
<1>3. LocalInv'
  BY DEF LocalInv
<1>4. CaughtUp'
  BY DEF CaughtUp
<1>5. QED
  BY <1>1, <1>2, <1>3, <1>4 DEF StreamInv

\* A new stream starts with an empty wire and an empty book.
LEMMA StartOverStep ==
  ASSUME TypeInv, StartOver, UNCHANGED <<feed, book, sequence>>
  PROVE  StreamInv'
<1>1. /\ wire' = <<>> /\ online' = FALSE /\ dropped' = FALSE
      /\ local' = [valid |-> FALSE, sequence |-> 0, levels |-> Empty]
  BY DEF StartOver, NewBook
<1>2. Empty \in Book /\ <<>> \in Seq(Message)
  BY DEF Empty, Book
<1>3. TypeInv'
  BY <1>1, <1>2 DEF TypeInv
<1>4. WireInv' /\ CaughtUp'
  BY <1>1 DEF WireInv, CaughtUp
<1>5. LocalInv'
  BY <1>1, <1>3 DEF LocalInv, TypeInv
<1>6. QED
  BY <1>3, <1>4, <1>5 DEF StreamInv

\* What is published is sent to who is connected, as a delta to the book before it.
LEMMA PublishStep ==
  ASSUME StreamInv, Publish
  PROVE  StreamInv'
<1>1. PICK next \in Book :
        /\ ~Crossed(next) /\ book' = next
        /\ wire' = IF online THEN Append(wire, Delta(next)) ELSE wire
  BY DEF Publish
<1>2. /\ sequence' = sequence + 1 /\ sequence \in Nat \ {0}
      /\ UNCHANGED <<feed, online, local, dropped>>
  BY DEF Publish, StreamInv, TypeInv
<1>3. TypeInv /\ WireInv /\ LocalInv /\ CaughtUp
  BY DEF StreamInv
<1>4. /\ Delta(next) \in Message /\ Prior(Delta(next)) = Published(book)
      /\ Without(Delta(next).set, Delta(next).truth) = Empty
      /\ Without(Delta(next).gone, Delta(next).truth) = Delta(next).gone
  BY <1>3, DeltaSays
<1>5. TypeInv'
  <2>1. wire' \in Seq(Message)
    BY <1>1, <1>3, <1>4 DEF TypeInv
  <2>2. QED
    BY <1>1, <1>2, <1>3, <2>1 DEF TypeInv, Crossed
<1>6. local.sequence <= sequence /\ local.sequence \in Nat
  BY <1>3 DEF LocalInv, TypeInv
<1>7. CASE ~online
  <2>1. wire = <<>> /\ wire' = <<>>
    BY <1>1, <1>3, <1>7 DEF WireInv
  <2>2. WireInv'
    BY <2>1 DEF WireInv
  <2>3. local'.sequence <= sequence' /\ local'.sequence # sequence'
    BY <1>2, <1>6
  <2>4. LocalInv'
    BY <2>1, <2>3 DEF LocalInv
  <2>5. CaughtUp'
    BY <1>2, <1>7 DEF CaughtUp
  <2>6. QED
    BY <1>5, <2>2, <2>4, <2>5 DEF StreamInv
<1>8. CASE online
  <2>0. PICK n \in Nat : n = Len(wire)
    BY <1>3 DEF TypeInv
  <2>1. /\ wire' = Append(wire, Delta(next)) /\ Len(wire') = n + 1
        /\ wire'[n + 1] = Delta(next)
        /\ \A i \in 1 .. n : wire'[i] = wire[i]
    BY <1>1, <1>3, <1>4, <1>8, <2>0 DEF TypeInv
  <2>2. \A b : Published(b)' = Published(b)
    BY <1>2 DEF Published
  <2>3. ASSUME NEW i \in 1 .. n PROVE Sent(i)'
    <3>1. Sent(i)
      BY <2>0, <1>3, <2>3 DEF WireInv
    <3>2. wire'[i] = wire[i] /\ i \in Nat /\ i # Len(wire')
      BY <2>1
    <3>3. wire'[i].sequence = sequence' - Len(wire') + i
      <4>1. wire[i].sequence = sequence - n + i
        BY <2>0, <3>1 DEF Sent
      <4>2. QED
        BY <1>2, <2>1, <3>2, <4>1
    <3>4. i < Len(wire') => Prior(wire'[i + 1]) = wire'[i].truth
      <4>1. CASE i < n
        <5>1. i + 1 \in 1 .. n
          BY <2>1, <3>2, <4>1
        <5>2. wire'[i + 1] = wire[i + 1]
          BY <2>1, <5>1
        <5>3. QED
          BY <2>0, <3>1, <3>2, <4>1, <5>2 DEF Sent
      <4>2. CASE i = n
        BY <2>0, <1>4, <2>1, <3>1, <3>2, <4>2 DEF Sent
      <4>3. QED
        BY <2>1, <3>2, <4>1, <4>2
    <3>5. QED
      BY <1>2, <2>2, <3>1, <3>2, <3>3, <3>4 DEF Sent
  <2>4. Sent(n + 1)'
    <3>1. /\ Delta(next).sequence = sequence + 1 /\ Delta(next).snapshot = FALSE
          /\ Delta(next).previous = IF feed.chained THEN sequence ELSE 0
          /\ Delta(next).truth = Published(next)
      BY DEF Delta
    <3>2. /\ sequence' - Len(wire') + (n + 1) = sequence + 1
          /\ sequence + 1 >= 2 /\ (sequence + 1) - 1 = sequence /\ ~(n + 1 < Len(wire'))
      BY <1>2, <2>1
    <3>3. Published(book)' = Published(next)
      BY <1>1, <1>2 DEF Published
    <3>4. \E b \in Book : ~Crossed(b) /\ Delta(next).truth = Published(b)'
      BY <1>1, <2>2, <3>1
    <3>5. /\ wire'[n + 1].sequence = sequence' - Len(wire') + (n + 1)
          /\ ~wire'[n + 1].snapshot /\ wire'[n + 1].sequence >= 2
          /\ wire'[n + 1].previous = IF feed'.chained THEN wire'[n + 1].sequence - 1 ELSE 0
          /\ wire'[n + 1].truth = Published(book)'
      BY <1>2, <2>1, <3>1, <3>2, <3>3
    <3>6. QED
      BY <1>4, <2>1, <3>2, <3>4, <3>5 DEF Sent
  <2>5. WireInv'
    <3>1. ASSUME NEW i \in 1 .. Len(wire') PROVE Sent(i)'
      <4>1. i \in 1 .. n \/ i = n + 1
        BY <2>1
      <4>2. QED
        BY <2>3, <2>4, <4>1
    <3>2. QED
      BY <1>2, <1>8, <3>1 DEF WireInv
  <2>6. LocalInv'
    <3>1. local'.sequence <= sequence' /\ local'.sequence # sequence'
      BY <1>2, <1>6
    <3>2. ASSUME local'.valid, Sound', NEW i \in 1 .. Len(wire'),
                 ~wire'[i].snapshot, wire'[i].sequence = local'.sequence + 1
          PROVE  Agrees(local.levels, Prior(wire[i]))'
      <4>1. local.valid /\ Sound
        BY <1>2, <3>2 DEF Sound
      <4>2. CASE i \in 1 .. n
        <5>1. wire'[i] = wire[i]
          BY <2>1, <4>2
        <5>2. Agrees(local.levels, Prior(wire[i]))
          BY <2>0, <1>2, <1>3, <3>2, <4>1, <4>2, <5>1 DEF LocalInv
        <5>3. QED
          BY <1>2, <5>1, <5>2 DEF Agrees, Prior, With, Without
      <4>3. CASE i = n + 1
        <5>1. wire'[i] = Delta(next) /\ Delta(next).sequence = sequence + 1
          BY <2>1, <4>3 DEF Delta
        <5>2. local.sequence = sequence
          BY <1>2, <1>6, <3>2, <5>1
        <5>3. Agrees(local.levels, Published(book))
          BY <1>3, <4>1, <5>2 DEF LocalInv
        <5>4. QED
          BY <1>2, <1>4, <5>1, <5>3 DEF Agrees, Prior, With, Without
      <4>4. QED
        BY <2>1, <3>2, <4>2, <4>3
    <3>3. QED
      BY <3>1, <3>2 DEF LocalInv
  <2>7. CaughtUp'
    <3>1. ASSUME online', ~dropped', local'.valid, wire' = <<>> \/ ~wire'[1].snapshot
          PROVE  local'.sequence = sequence' - Len(wire')
      <4>1. wire = <<>> \/ ~wire[1].snapshot
        <5>1. CASE n = 0
          BY <2>0, <1>3, <5>1, EmptySeq DEF TypeInv
        <5>2. CASE n # 0
          <6>1. 1 \in 1 .. n /\ wire' # <<>>
            BY <2>1, <5>2
          <6>2. QED
            BY <2>1, <3>1, <6>1
        <5>3. QED
          BY <5>1, <5>2
      <4>2. local.sequence = sequence - n
        BY <2>0, <1>2, <1>3, <3>1, <4>1 DEF CaughtUp
      <4>3. QED
        BY <1>2, <2>1, <4>2
    <3>2. QED
      BY <3>1 DEF CaughtUp
  <2>8. QED
    BY <1>5, <2>5, <2>6, <2>7 DEF StreamInv
<1>9. QED
  BY <1>7, <1>8

\* A new subscription begins with the book that is published.
LEMMA SubscribeStep ==
  ASSUME StreamInv, Subscribe
  PROVE  StreamInv'
<1>1. /\ wire' = <<Snapshot>> /\ online' = TRUE
      /\ UNCHANGED <<feed, book, sequence, local, dropped>>
  BY DEF Subscribe, exchange
<1>2. TypeInv /\ LocalInv
  BY DEF StreamInv
<1>3. Published(book) \in Book /\ Empty \in Book
  BY <1>2, BookTypes DEF TypeInv
<1>4. Snapshot \in Message
  BY <1>2, <1>3 DEF Snapshot, Message, TypeInv
<1>5. TypeInv'
  BY <1>1, <1>2, <1>4 DEF TypeInv, Crossed
<1>6. /\ Len(wire') = 1 /\ wire'[1] = Snapshot /\ wire' # <<>>
      /\ Snapshot.snapshot = TRUE /\ Snapshot.sequence = sequence
      /\ Snapshot.set = Published(book) /\ Snapshot.truth = Published(book)
      /\ Snapshot.gone = Empty
  BY <1>1 DEF Snapshot
<1>7. WireInv'
  <2>1. Sent(1)'
    <3>1. /\ Without(Published(book), Published(book)) = Empty
          /\ Without(Empty, Published(book)) = Empty
      BY DEF Without, Empty
    <3>2. \A b : Published(b)' = Published(b)
      BY <1>1 DEF Published
    <3>3. \E b \in Book : ~Crossed(b) /\ wire'[1].truth = Published(b)'
      BY <1>2, <1>6, <3>2 DEF TypeInv
    <3>4. wire'[1].sequence = sequence' - Len(wire') + 1
      BY <1>1, <1>2, <1>6 DEF TypeInv
    <3>5. ~(1 < Len(wire'))
      BY <1>6
    <3>6. QED
      BY <1>1, <1>6, <3>1, <3>2, <3>3, <3>4, <3>5 DEF Sent
  <2>2. \A i \in 1 .. Len(wire') : i = 1
    BY <1>6
  <2>3. QED
    BY <1>1, <2>1, <2>2 DEF WireInv
<1>8. LocalInv'
  <2>1. \A i \in 1 .. Len(wire') : wire'[i].snapshot
    BY <1>6
  <2>2. Published(book)' = Published(book)
    BY <1>1 DEF Published
  <2>3. QED
    BY <1>1, <1>2, <2>1, <2>2 DEF LocalInv, Sound, Agrees
<1>9. CaughtUp'
  BY <1>6 DEF CaughtUp
<1>10. QED
  BY <1>5, <1>7, <1>8, <1>9 DEF StreamInv

\* A lost connection loses what is under way, and the book stays what it is.
LEMMA DisconnectStep ==
  ASSUME StreamInv, Disconnect
  PROVE  StreamInv'
<1>1. /\ wire' = <<>> /\ online' = FALSE
      /\ UNCHANGED <<feed, book, sequence, local, dropped>>
  BY DEF Disconnect, exchange
<1>2. TypeInv /\ LocalInv
  BY DEF StreamInv
<1>3. TypeInv'
  <2>1. <<>> \in Seq(Message)
    OBVIOUS
  <2>2. QED
    BY <1>1, <1>2, <2>1 DEF TypeInv, Crossed
<1>4. WireInv' /\ CaughtUp'
  BY <1>1 DEF WireInv, CaughtUp
<1>5. LocalInv'
  <2>1. Published(book)' = Published(book)
    BY <1>1 DEF Published
  <2>2. QED
    BY <1>1, <1>2, <2>1 DEF LocalInv, Sound, Agrees
<1>6. QED
  BY <1>3, <1>4, <1>5 DEF StreamInv

\* An update that is dropped is known to be missing where updates are not chained, and
\* noticed with the next one where they are.
LEMMA DropStep ==
  ASSUME StreamInv, DropStale
  PROVE  StreamInv'
<1>1. /\ wire # <<>> /\ wire' = Tail(wire) /\ dropped' = TRUE
      /\ UNCHANGED <<feed, book, sequence, local, online>>
  BY DEF DropStale, exchange
<1>2. TypeInv /\ WireInv /\ LocalInv
  BY DEF StreamInv
<1>3. /\ wire' \in Seq(Message) /\ Len(wire') = Len(wire) - 1 /\ Len(wire) \in Nat \ {0}
      /\ \A i \in 1 .. Len(wire') : wire'[i] = wire[i + 1]
      /\ \A i \in 1 .. Len(wire') : Sent(i)' /\ ~wire'[i].snapshot
  BY <1>1, <1>2, TailWire
<1>4. TypeInv'
  BY <1>1, <1>2, <1>3 DEF TypeInv, Crossed
<1>5. WireInv'
  BY <1>1, <1>2, <1>3, HeadSent DEF WireInv
<1>6. LocalInv'
  <2>1. Published(book)' = Published(book)
    BY <1>1 DEF Published
  <2>2. Sound' => Sound
    BY <1>1 DEF Sound
  <2>3. ASSUME NEW i \in 1 .. Len(wire')
        PROVE  i + 1 \in 1 .. Len(wire) /\ wire'[i] = wire[i + 1]
    BY <1>3
  <2>4. ASSUME local'.valid, Sound', NEW i \in 1 .. Len(wire'),
               ~wire'[i].snapshot, wire'[i].sequence = local'.sequence + 1
        PROVE  Agrees(local.levels, Prior(wire[i]))'
    <3>1. Agrees(local.levels, Prior(wire[i + 1]))
      BY <1>1, <1>2, <2>2, <2>3, <2>4 DEF LocalInv
    <3>2. QED
      BY <1>1, <2>3, <3>1 DEF Agrees, Prior, With, Without
  <2>5. QED
    BY <1>1, <1>2, <2>1, <2>2, <2>4 DEF LocalInv, Agrees
<1>7. CaughtUp'
  BY <1>1 DEF CaughtUp
<1>8. QED
  BY <1>4, <1>5, <1>6, <1>7 DEF StreamInv

\* A delta that does not fit the book gives it up; one that finds no book is refused.
LEMMA RefuseStep ==
  ASSUME StreamInv, DetectGap \/ RefuseDelta
  PROVE  StreamInv'
<1>1. /\ wire # <<>> /\ wire' = Tail(wire)
      /\ UNCHANGED <<feed, book, sequence, online, dropped>>
  BY DEF DetectGap, RefuseDelta, exchange
<1>2. TypeInv /\ WireInv /\ LocalInv
  BY DEF StreamInv
<1>3. /\ local' \in [valid : BOOLEAN, sequence : Nat, levels : Book] /\ local'.valid = FALSE
      /\ local'.sequence = local.sequence
  <2>1. CASE DetectGap
    BY <1>2, <2>1, BookTypes DEF DetectGap, Invalidated, TypeInv
  <2>2. CASE RefuseDelta
    BY <1>2, <2>2 DEF RefuseDelta, TypeInv
  <2>3. QED
    BY <2>1, <2>2
<1>4. QED
  BY <1>1, <1>2, <1>3, InvalidLocal DEF LocalInv, TypeInv

\* The book after a message that was applied: that of the message, unless it is given up.
LEMMA InstallStep ==
  ASSUME StreamInv, wire # <<>>, UNCHANGED <<feed, book, sequence>>,
         NEW levels \in Book, NEW missing \in BOOLEAN,
         feed.chained \/ ~missing => Agrees(levels, Head(wire).truth),
         Install(Head(wire), [valid |-> TRUE, sequence |-> Head(wire).sequence,
                              levels |-> levels], missing)
  PROVE  StreamInv'
<1> DEFINE m == Head(wire)
           b == [valid |-> TRUE, sequence |-> m.sequence, levels |-> levels]
<1>1. TypeInv /\ WireInv /\ LocalInv
  BY DEF StreamInv
<1>2. m = wire[1] /\ m \in Message /\ Sent(1) /\ Len(wire) \in Nat \ {0} /\ online
  BY <1>1, HeadSent
<1>3. m.sequence \in Nat /\ m.sequence = sequence - Len(wire) + 1 /\ sequence \in Nat
  BY <1>1, <1>2 DEF Sent, Message, TypeInv
<1>4. /\ b \in [valid : BOOLEAN, sequence : Nat, levels : Book] /\ m.sequence <= sequence
      /\ m.sequence = sequence => Len(wire) = 1
  <2>0. PICK n \in Nat \ {0} : n = Len(wire)
    BY <1>2
  <2>1. PICK k \in Nat : k = m.sequence
    BY <1>3
  <2>2. k = sequence - n + 1
    BY <1>3, <2>0, <2>1
  <2>3. k <= sequence /\ (k = sequence => n = 1)
    BY <1>3, <2>2
  <2>4. QED
    BY <1>3, <2>0, <2>1, <2>3
<1>5. CASE Crossed(b.levels)
  <2>1. /\ local' = Invalidated(b) /\ dropped' = missing /\ wire' = Tail(wire)
        /\ online' = online
    BY <1>5 DEF Install
  <2>2. /\ local' \in [valid : BOOLEAN, sequence : Nat, levels : Book] /\ local'.valid = FALSE
        /\ local'.sequence = m.sequence
    BY <1>4, <2>1, BookTypes DEF Invalidated
  <2>3. QED
    BY <1>1, <1>4, <2>1, <2>2, InvalidLocal
<1>6. CASE ~Crossed(b.levels) /\ TwoSided(b.levels)
  <2>1. /\ local' = b /\ dropped' = missing /\ wire' = Tail(wire) /\ online' = online
    BY <1>6 DEF Install
  <2>2. /\ wire' \in Seq(Message) /\ Len(wire') = Len(wire) - 1
        /\ \A i \in 1 .. Len(wire') : wire'[i] = wire[i + 1]
        /\ \A i \in 1 .. Len(wire') : Sent(i)' /\ ~wire'[i].snapshot
    BY <1>1, <2>1, TailWire
  <2>3. TypeInv'
    BY <1>1, <1>4, <2>1, <2>2 DEF TypeInv, Crossed
  <2>4. WireInv'
    BY <1>2, <2>1, <2>2 DEF WireInv
  <2>5. local'.sequence = m.sequence /\ local'.levels = levels
    BY <2>1
  <2>6. ASSUME Sound' PROVE Agrees(levels, m.truth)
    BY <2>1, <2>6 DEF Sound
  <2>7. ASSUME Sound', m.sequence = sequence
        PROVE  Agrees(local.levels, Published(book))'
    <3>1. 1 = Len(wire)
      BY <1>4, <2>7
    <3>2. m.truth = Published(book)
      BY <1>2, <3>1 DEF Sent
    <3>3. Published(book)' = Published(book)
      BY DEF Published
    <3>4. QED
      BY <2>5, <2>6, <2>7, <3>2, <3>3 DEF Agrees
  <2>8. ASSUME Sound', NEW i \in 1 .. Len(wire'), wire'[i].sequence = m.sequence + 1
        PROVE  Agrees(local.levels, Prior(wire[i]))'
    <3>1. Sent(i)'
      BY <2>2
    <3>2. wire'[i].sequence = sequence - Len(wire') + i
      BY <3>1 DEF Sent
    <3>3. i = 1 /\ 1 < Len(wire)
      BY <1>2, <1>3, <2>2, <2>8, <3>2
    <3>4. wire'[i] = wire[1 + 1] /\ Prior(wire[1 + 1]) = m.truth
      BY <1>2, <2>2, <3>3 DEF Sent
    <3>5. QED
      BY <2>5, <2>6, <2>8, <3>4 DEF Agrees, Prior, With, Without
  <2>9. LocalInv'
    BY <1>4, <2>5, <2>7, <2>8 DEF LocalInv
  <2>10. CaughtUp'
    <3>1. sequence - Len(wire') = m.sequence
      BY <1>2, <1>3, <2>2
    <3>2. QED
      BY <2>5, <3>1 DEF CaughtUp
  <2>11. QED
    BY <2>3, <2>4, <2>9, <2>10 DEF StreamInv
<1>7. CASE ~Crossed(b.levels) /\ ~TwoSided(b.levels)
  <2>1. StartOver
    BY <1>7 DEF Install
  <2>2. QED
    BY <1>1, <2>1, StartOverStep
<1>8. QED
  BY <1>5, <1>6, <1>7

\* A delta that is applied when nothing was missed is the one after the local book, and
\* makes it that of the exchange again.
LEMMA DeltaAgrees ==
  ASSUME StreamInv, wire # <<>>, ~Head(wire).snapshot, local.valid, Contiguous(Head(wire)), Sound
  PROVE  Agrees(Best(Merged(Head(wire)), Depth), Head(wire).truth)
<1> DEFINE m == Head(wire)
<1>1. TypeInv /\ WireInv /\ LocalInv /\ CaughtUp
  BY DEF StreamInv
<1>2. m = wire[1] /\ m \in Message /\ Sent(1) /\ Len(wire) \in Nat \ {0} /\ online
  BY <1>1, HeadSent
<1>3. m.sequence \in Nat /\ m.sequence = sequence - Len(wire) + 1 /\ sequence \in Nat
  BY <1>1, <1>2 DEF Sent, Message, TypeInv
<1>4. local.sequence \in Nat /\ local.levels \in Book /\ feed \in Feeds
  BY <1>1 DEF TypeInv
<1>5. m.sequence >= 2 /\ m.previous = IF feed.chained THEN m.sequence - 1 ELSE 0
  BY <1>2 DEF Sent
<1>6. m.sequence = local.sequence + 1
  <2>1. CASE feed.chained
    <3>1. m.previous = m.sequence - 1 /\ m.previous # 0
      BY <1>3, <1>5, <2>1
    <3>2. m.previous = local.sequence
      BY <3>1 DEF Contiguous
    <3>3. QED
      BY <1>3, <1>4, <3>1, <3>2
  <2>2. CASE ~feed.chained
    <3>1. ~dropped
      BY <2>2 DEF Sound
    <3>2. local.sequence = sequence - Len(wire)
      BY <1>1, <1>2, <3>1 DEF CaughtUp
    <3>3. QED
      BY <1>2, <1>3, <1>4, <3>2
  <2>3. QED
    BY <2>1, <2>2
<1>7. Agrees(local.levels, Prior(m))
  <2>1. 1 \in 1 .. Len(wire)
    BY <1>2
  <2>2. QED
    BY <1>1, <1>2, <1>6, <2>1 DEF LocalInv
<1>8. PICK b \in Book : m.truth = Published(b)
  BY <1>2 DEF Sent
<1>9. Without(m.set, m.truth) = Empty /\ Without(m.gone, m.truth) = m.gone
  BY <1>2 DEF Sent
<1> HIDE DEF m
<1>10. Agrees(Best(With(Without(local.levels, m.gone), m.set), Depth), m.truth)
  BY <1>2, <1>4, <1>7, <1>8, <1>9, MergedAgrees
<1>11. QED
  BY <1>10 DEF Merged, m

\* What either kind of message installs: levels that are those of the exchange when
\* nothing was missed.
LEMMA Installed ==
  ASSUME StreamInv, ApplySnapshot \/ ApplyDelta
  PROVE  /\ wire # <<>> /\ UNCHANGED <<feed, book, sequence>>
         /\ \E levels \in Book, missing \in BOOLEAN :
              /\ feed.chained \/ ~missing => Agrees(levels, Head(wire).truth)
              /\ Install(Head(wire), [valid |-> TRUE, sequence |-> Head(wire).sequence,
                                      levels |-> levels], missing)
<1> DEFINE m == Head(wire)
<1>1. wire # <<>> /\ UNCHANGED <<feed, book, sequence>>
  BY DEF ApplySnapshot, ApplyDelta, exchange
<1>2. TypeInv /\ WireInv
  BY DEF StreamInv
<1>3. m = wire[1] /\ m \in Message /\ Sent(1) /\ m.set \in Book /\ m.gone \in Book
  BY <1>1, <1>2, HeadSent DEF Message
<1>4. CASE ApplySnapshot
  <2>1. m.set = m.truth
    BY <1>3, <1>4 DEF ApplySnapshot, Sent
  <2>2. Agrees(m.set, m.truth)
    BY <2>1 DEF Agrees
  <2>3. Install(m, [valid |-> TRUE, sequence |-> m.sequence, levels |-> m.set], FALSE)
    BY <1>4 DEF ApplySnapshot
  <2>4. QED
    BY <1>1, <1>3, <2>2, <2>3
<1>5. CASE ApplyDelta
  <2>1. /\ ~m.snapshot /\ local.valid /\ Contiguous(m)
        /\ Install(m, [valid |-> TRUE, sequence |-> m.sequence,
                       levels |-> Best(Merged(m), Depth)], dropped)
    BY <1>5 DEF ApplyDelta
  <2>2. feed.chained \/ ~dropped => Agrees(Best(Merged(m), Depth), m.truth)
    BY <1>1, <2>1, DeltaAgrees DEF Sound
  <2>3. local.levels \in Book /\ dropped \in BOOLEAN
    BY <1>2 DEF TypeInv
  <2>4. Best(Merged(m), Depth) \in Book
    BY <1>3, <2>3, BookTypes DEF Merged
  <2>5. QED
    BY <1>1, <2>1, <2>2, <2>3, <2>4
<1>6. QED
  BY <1>4, <1>5

\* Every action keeps the rules of the stream.
LEMMA StreamStep ==
  ASSUME StreamInv, [Next]_vars
  PROVE  StreamInv'
<1>1. CASE Publish
  BY <1>1, PublishStep
<1>2. CASE Subscribe
  BY <1>2, SubscribeStep
<1>3. CASE Disconnect
  BY <1>3, DisconnectStep
<1>4. CASE Restart
  BY <1>4, StartOverStep DEF Restart, exchange, StreamInv
<1>5. CASE DropStale
  BY <1>5, DropStep
<1>6. CASE ApplySnapshot \/ ApplyDelta
  <2>1. /\ wire # <<>> /\ UNCHANGED <<feed, book, sequence>>
        /\ \E levels \in Book, missing \in BOOLEAN :
              /\ feed.chained \/ ~missing => Agrees(levels, Head(wire).truth)
              /\ Install(Head(wire), [valid |-> TRUE, sequence |-> Head(wire).sequence,
                                      levels |-> levels], missing)
    BY <1>6, Installed
  <2>2. QED
    BY <2>1, InstallStep
<1>7. CASE DetectGap \/ RefuseDelta
  BY <1>7, RefuseStep
<1>8. CASE UNCHANGED vars
  <2>1. UNCHANGED <<feed, book, sequence, wire, online, local, dropped>>
    BY <1>8 DEF vars
  <2>2. TypeInv'
    BY <2>1 DEF StreamInv, TypeInv, Crossed
  <2>3. \A b : Published(b)' = Published(b)
    BY <2>1 DEF Published
  <2>4. WireInv'
    <3>1. ASSUME NEW i, Sent(i) PROVE Sent(i)'
      BY <2>1, <2>3, <3>1 DEF Sent
    <3>2. QED
      BY <2>1, <3>1 DEF StreamInv, WireInv
  <2>5. LocalInv'
    <3>1. Published(book)' = Published(book)
      BY <2>1, <2>3
    <3>2. QED
      BY <2>1, <3>1 DEF StreamInv, LocalInv, Sound, Agrees, Prior, With, Without
  <2>6. CaughtUp'
    BY <2>1 DEF StreamInv, CaughtUp
  <2>7. QED
    BY <2>2, <2>4, <2>5, <2>6 DEF StreamInv
<1>9. QED
  BY <1>1, <1>2, <1>3, <1>4, <1>5, <1>6, <1>7, <1>8 DEF Next

\* A stream begins with nothing under way and no book.
LEMMA StreamInit ==
  ASSUME Init
  PROVE  StreamInv
<1>1. /\ feed \in Feeds /\ book \in Book /\ ~Crossed(book) /\ sequence = 1
      /\ wire = <<>> /\ online = FALSE /\ dropped = FALSE
      /\ local = [valid |-> FALSE, sequence |-> 0, levels |-> Empty]
  BY DEF Init, NewBook
<1>2. Empty \in Book /\ <<>> \in Seq(Message)
  BY DEF Empty, Book
<1>3. TypeInv
  <2>1. local \in [valid : BOOLEAN, sequence : Nat, levels : Book]
    BY <1>1, <1>2
  <2>2. wire \in Seq(Message) /\ sequence \in Nat \ {0}
    BY <1>1, <1>2
  <2>3. QED
    BY <1>1, <2>1, <2>2 DEF TypeInv
<1>4. WireInv /\ LocalInv /\ CaughtUp
  BY <1>1 DEF WireInv, LocalInv, CaughtUp
<1>5. QED
  BY <1>3, <1>4 DEF StreamInv

\* What a valid local book holds is what the exchange published under its number, and the
\* messages under way continue from there.
THEOREM StreamInvariant == Spec => []StreamInv
  BY StreamInit, StreamStep, PTL DEF Spec
-----------------------------------------------------------------------------
\* The levels a row was given, as far as the collector can know.
StoredInv == Complete => Agrees(stored.levels, stored.truth)

\* With what it is for.
StreamResultInv == StreamInv /\ StoredInv /\ NoFalseAlarm

\* Cutting levels to the depth of the book keeps them those of the exchange.
LEMMA BestAgrees ==
  ASSUME NEW levels \in Book, NEW b \in Book, feed \in Feeds, Agrees(levels, Published(b))
  PROVE  Agrees(Best(levels, Depth), Published(b))
<1>1. /\ Best(levels, Depth).bid \subseteq levels.bid
      /\ Best(levels, Depth).ask \subseteq levels.ask
  BY BestWithin
<1>2. ASSUME feed.levels <= Depth PROVE Best(levels, Depth) = Published(b)
  <2>1. levels = Published(b)
    BY <1>2 DEF Agrees
  <2>2. feed.levels \in Nat /\ Depth \in Nat /\ IsFiniteSet(Prices)
    BY Inputs DEF Feed
  <2>3. QED
    BY <1>2, <2>1, <2>2, BestOfBest DEF Published
<1>3. QED
  BY <1>1, <1>2 DEF Agrees

\* A message that is applied leaves a row that is real, and gives the book up only when
\* something was missed.
LEMMA InstallResult ==
  ASSUME StreamInv, StoredInv, wire # <<>>, UNCHANGED <<feed, book, sequence>>,
         NEW levels \in Book, NEW missing \in BOOLEAN,
         feed.chained \/ ~missing => Agrees(levels, Head(wire).truth),
         Install(Head(wire), [valid |-> TRUE, sequence |-> Head(wire).sequence,
                              levels |-> levels], missing)
  PROVE  StoredInv' /\ NoFalseAlarm'
<1> DEFINE m == Head(wire)
           b == [valid |-> TRUE, sequence |-> m.sequence, levels |-> levels]
<1>1. TypeInv /\ WireInv /\ feed \in Feeds
  BY DEF StreamInv, TypeInv
<1>2. m = wire[1] /\ Sent(1)
  BY <1>1, HeadSent
<1>3. PICK c \in Book : ~Crossed(c) /\ m.truth = Published(c)
  BY <1>2 DEF Sent
<1>4. ASSUME UNCHANGED stored PROVE StoredInv'
  BY <1>4 DEF StoredInv, Complete, Agrees
<1>5. CASE Crossed(b.levels)
  <2>1. UNCHANGED stored /\ dropped' = missing
    BY <1>5 DEF Install
  <2>2. ASSUME ~missing PROVE FALSE
    <3>1. Agrees(levels, Published(c))
      BY <1>3, <2>2
    <3>2. Published(c).bid \subseteq c.bid /\ Published(c).ask \subseteq c.ask
      BY BestWithin DEF Published
    <3>3. levels.bid \subseteq c.bid /\ levels.ask \subseteq c.ask
      BY <3>1, <3>2 DEF Agrees
    <3>4. QED
      BY <1>3, <1>5, <3>3, WithinUncrossed
  <2>3. QED
    BY <1>4, <2>1, <2>2 DEF NoFalseAlarm
<1>6. CASE ~Crossed(b.levels) /\ TwoSided(b.levels)
  <2>1. local'.valid
    BY <1>6 DEF Install
  <2>2. stored' = [levels |-> Best(levels, Depth), truth |-> m.truth, dropped |-> missing]
    BY <1>6 DEF Install
  <2>3. ASSUME Complete' PROVE Agrees(Best(levels, Depth), m.truth)
    <3>1. Agrees(levels, Published(c))
      BY <1>3, <2>2, <2>3 DEF Complete
    <3>2. QED
      BY <1>1, <1>3, <3>1, BestAgrees
  <2>4. StoredInv'
    BY <2>2, <2>3 DEF StoredInv, Agrees
  <2>5. QED
    BY <2>1, <2>4 DEF NoFalseAlarm
<1>7. CASE ~Crossed(b.levels) /\ ~TwoSided(b.levels)
  BY <1>4, <1>7 DEF Install, StartOver, NoFalseAlarm, NewBook, Empty
<1>8. QED
  BY <1>5, <1>6, <1>7

\* A delta that does not fit the book follows one that was dropped.
LEMMA GapIsReal ==
  ASSUME StreamInv, DetectGap
  PROVE  dropped
<1> SUFFICES ASSUME ~dropped PROVE FALSE
  OBVIOUS
<1>1. TypeInv /\ WireInv /\ CaughtUp
  BY DEF StreamInv
<1>2. wire # <<>> /\ ~Head(wire).snapshot /\ local.valid /\ ~Contiguous(Head(wire))
  BY DEF DetectGap
<1>3. PICK m \in Message : m = Head(wire)
  BY <1>1, <1>2, HeadSent
<1>4. m = wire[1] /\ Sent(1) /\ Len(wire) \in Nat \ {0} /\ online
  BY <1>1, <1>2, <1>3, HeadSent
<1>5. local.sequence = sequence - Len(wire)
  BY <1>1, <1>2, <1>3, <1>4 DEF CaughtUp
<1>6. /\ m.sequence = sequence - Len(wire) + 1 /\ m.sequence >= 2
      /\ m.previous = IF feed.chained THEN m.sequence - 1 ELSE 0
  BY <1>2, <1>3, <1>4 DEF Sent
<1>7. m.sequence \in Nat /\ sequence \in Nat /\ local.sequence \in Nat
  BY <1>1 DEF Message, TypeInv
<1>8. m.sequence = local.sequence + 1
  BY <1>4, <1>5, <1>6, <1>7
<1>9. Contiguous(m)
  <2>1. CASE feed.chained
    BY <1>6, <1>7, <1>8, <2>1 DEF Contiguous
  <2>2. CASE ~feed.chained
    BY <1>6, <1>7, <1>8, <2>2 DEF Contiguous
  <2>3. QED
    BY <2>1, <2>2
<1>10. QED
  BY <1>2, <1>3, <1>9

\* Every action keeps the rows real and the alarms justified.
LEMMA ResultStep ==
  ASSUME StreamResultInv, [Next]_vars
  PROVE  StreamResultInv'
<1>1. StreamInv /\ StoredInv /\ NoFalseAlarm
  BY DEF StreamResultInv
<1>2. StreamInv'
  BY <1>1, StreamStep
<1>3. ASSUME UNCHANGED <<feed, stored>> PROVE StoredInv'
  BY <1>1, <1>3 DEF StoredInv, Complete, Agrees
<1>4. ASSUME UNCHANGED <<local, dropped>> PROVE NoFalseAlarm'
  BY <1>1, <1>4 DEF NoFalseAlarm, NewBook, Empty
<1>5. CASE Publish \/ Subscribe \/ Disconnect \/ RefuseDelta \/ UNCHANGED vars
  BY <1>2, <1>3, <1>4, <1>5
  DEF StreamResultInv, Publish, Subscribe, Disconnect, RefuseDelta, vars, exchange
<1>6. CASE Restart
  BY <1>2, <1>3, <1>6
  DEF StreamResultInv, Restart, StartOver, NoFalseAlarm, NewBook, Empty, exchange
<1>7. CASE DropStale
  BY <1>2, <1>3, <1>7 DEF StreamResultInv, DropStale, NoFalseAlarm, exchange
<1>8. CASE ApplySnapshot \/ ApplyDelta
  <2>1. /\ wire # <<>> /\ UNCHANGED <<feed, book, sequence>>
        /\ \E levels \in Book, missing \in BOOLEAN :
              /\ feed.chained \/ ~missing => Agrees(levels, Head(wire).truth)
              /\ Install(Head(wire), [valid |-> TRUE, sequence |-> Head(wire).sequence,
                                      levels |-> levels], missing)
    BY <1>1, <1>8, Installed
  <2>2. StoredInv' /\ NoFalseAlarm'
    BY <1>1, <2>1, InstallResult
  <2>3. QED
    BY <1>2, <2>2 DEF StreamResultInv
<1>9. CASE DetectGap
  <2>1. dropped' /\ UNCHANGED <<feed, stored>>
    BY <1>1, <1>9, GapIsReal DEF DetectGap, exchange
  <2>2. QED
    BY <1>2, <1>3, <2>1 DEF StreamResultInv, NoFalseAlarm
<1>10. QED
  BY <1>5, <1>6, <1>7, <1>8, <1>9 DEF Next

\* Nothing is stored before the first message.
LEMMA ResultInit ==
  ASSUME Init
  PROVE  StreamResultInv
<1>1. /\ local = NewBook
      /\ stored = [levels |-> Empty, truth |-> Empty, dropped |-> FALSE]
  BY DEF Init
<1>2. StoredInv
  BY <1>1 DEF StoredInv, Agrees
<1>3. QED
  BY <1>1, <1>2, StreamInit DEF StreamResultInv, NoFalseAlarm

\* The rows and the alarms of every behaviour of the stream.
LEMMA ResultInvariant == Spec => []StreamResultInv
  BY ResultInit, ResultStep, PTL DEF Spec

\* No row of orderbook_snapshots holds a level that the exchange did not have at that
\* sequence, whatever was lost, dropped or restarted before it was inserted.
THEOREM StoredReal == Spec => []StoredIsReal
<1>1. StreamResultInv => StoredIsReal
  BY DEF StreamResultInv, StoredInv, Agrees, StoredIsReal
<1>2. QED
  BY <1>1, ResultInvariant, PTL

\* A row of a book as deep as the feed holds every level that was published.
THEOREM StoredComplete == Spec => []StoredIsComplete
<1>1. StreamResultInv => StoredIsComplete
  BY DEF StreamResultInv, StoredInv, Agrees, StoredIsComplete
<1>2. QED
  BY <1>1, ResultInvariant, PTL

\* The collector gives its book up only when an update was dropped.
THEOREM AlarmsAreReal == Spec => []NoFalseAlarm
<1>1. StreamResultInv => NoFalseAlarm
  BY DEF StreamResultInv
<1>2. QED
  BY <1>1, ResultInvariant, PTL
=============================================================================
