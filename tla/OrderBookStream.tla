--------------------------- MODULE OrderBookStream ---------------------------
(***************************************************************************)
(* The order book of one instrument on its way from an exchange into        *)
(* orderbook_snapshots: the WebSocket stream (market_data/transport.py and  *)
(* the adapters), LocalOrderBook (market_data/orderbook.py), handle_orderbook *)
(* (market_data/collector.py) and the task that restarts the stream         *)
(* (market_data/cli.py).                                                    *)
(*                                                                          *)
(* A level is its price: quantities are not told apart, and quantity zero   *)
(* removes the level.  The exchange is external: it numbers its updates,    *)
(* sends a snapshot to every new subscription and deltas after it, in order. *)
(***************************************************************************)
EXTENDS Integers, Sequences, FiniteSets

CONSTANTS
  Prices,
  Depth,        \* LocalOrderBook.depth
  Feeds,        \* how an exchange publishes: see Feed
  MaxSequence,  \* bound: updates of the exchange
  MaxWire       \* bound: messages under way

\* levels: the best levels of each side that are published (orderbook.50 of Bybit,
\* the 400 of OKX' books); chained: whether a delta carries previous_sequence.
Feed == [levels : Nat \ {0}, chained : BOOLEAN]

ASSUME Inputs ==
  /\ Prices \subseteq Nat /\ IsFiniteSet(Prices) /\ Depth \in Nat \ {0} /\ Feeds \subseteq Feed
  /\ MaxSequence \in Nat /\ MaxWire \in Nat

VARIABLES
  feed,      \* the feed of this exchange
  book,      \* the book of the exchange
  sequence,  \* its last update
  wire,      \* messages sent and not handled yet; none while disconnected
  online,    \* whether there is a subscription
  local,     \* LocalOrderBook
  dropped,   \* whether an update was dropped since the last snapshot applied
  stored     \* the row inserted last, with what the exchange had published

vars == <<feed, book, sequence, wire, online, local, dropped, stored>>

Book == [bid : SUBSET Prices, ask : SUBSET Prices]
Empty == [bid |-> {}, ask |-> {}]

Crossed(b) == \E p \in b.bid, q \in b.ask : p >= q

TwoSided(b) == b.bid # {} /\ b.ask # {}

Without(b, c) == [bid |-> b.bid \ c.bid, ask |-> b.ask \ c.ask]

With(b, c) == [bid |-> b.bid \cup c.bid, ask |-> b.ask \cup c.ask]

\* The n best levels of each side.
Best(b, n) ==
  [bid |-> {p \in b.bid : Cardinality({q \in b.bid : q > p}) < n},
   ask |-> {p \in b.ask : Cardinality({q \in b.ask : q < p}) < n}]

Published(b) == Best(b, feed.levels)

\* previous 0 stands for None; truth is what the receiver should arrive at.
Message == [snapshot : BOOLEAN, sequence : Nat, previous : Nat, set : Book, gone : Book,
            truth : Book]

Snapshot == [snapshot |-> TRUE, sequence |-> sequence, previous |-> 0,
             set |-> Published(book), gone |-> Empty, truth |-> Published(book)]

Delta(next) ==
  [snapshot |-> FALSE, sequence |-> sequence + 1,
   previous |-> IF feed.chained THEN sequence ELSE 0,
   set |-> Without(Published(next), Published(book)),
   gone |-> Without(Published(book), Published(next)),
   truth |-> Published(next)]

NewBook == [valid |-> FALSE, sequence |-> 0, levels |-> Empty]

Init ==
  /\ feed \in Feeds
  /\ book \in {b \in Book : ~Crossed(b) /\ TwoSided(b)}
  /\ sequence = 1
  /\ wire = <<>> /\ online = FALSE
  /\ local = NewBook /\ dropped = FALSE
  /\ stored = [levels |-> Empty, truth |-> Empty, dropped |-> FALSE]

exchange == <<feed, book, sequence>>
-----------------------------------------------------------------------------
\* One level comes or goes.
Publish ==
  /\ sequence < MaxSequence
  /\ \E next \in Book :
       /\ ~Crossed(next)
       /\ Cardinality(Without(next, book).bid \cup Without(next, book).ask
                        \cup Without(book, next).bid \cup Without(book, next).ask) = 1
       /\ online => Len(wire) < MaxWire
       /\ wire' = IF online THEN Append(wire, Delta(next)) ELSE wire
       /\ book' = next
  /\ sequence' = sequence + 1
  /\ UNCHANGED <<feed, online, local, dropped, stored>>

\* stream_json connects and sends its subscriptions.
Subscribe ==
  /\ ~online
  /\ online' = TRUE
  /\ wire' = <<Snapshot>>
  /\ UNCHANGED <<exchange, local, dropped, stored>>

\* The connection is lost; stream_json connects again inside the same stream, so
\* that the collector keeps its book.
Disconnect ==
  /\ online
  /\ online' = FALSE /\ wire' = <<>>
  /\ UNCHANGED <<exchange, local, dropped, stored>>

\* An exception ends the stream: _supervise_stream begins another one, with a new
\* collector and a new connection.
StartOver ==
  /\ online' = FALSE /\ wire' = <<>>
  /\ local' = NewBook /\ dropped' = FALSE

Restart == StartOver /\ UNCHANGED <<exchange, stored>>

\* assert_fresh: the update is older than orderbook_maximum_age.
DropStale ==
  /\ wire # <<>> /\ wire' = Tail(wire)
  /\ dropped' = TRUE
  /\ UNCHANGED <<exchange, online, local, stored>>

Invalidated(b) == [b EXCEPT !.valid = FALSE, !.levels = Empty]

\* The end of apply, view and insert_orderbook_snapshot: a crossed book is given up,
\* one without both sides raises.
Install(m, b, missing) ==
  \/ /\ Crossed(b.levels)
     /\ local' = Invalidated(b) /\ dropped' = missing
     /\ wire' = Tail(wire)
     /\ UNCHANGED <<online, stored>>
  \/ /\ ~Crossed(b.levels) /\ TwoSided(b.levels)
     /\ local' = b /\ dropped' = missing
     /\ wire' = Tail(wire)
     /\ stored' = [levels |-> Best(b.levels, Depth), truth |-> m.truth, dropped |-> missing]
     /\ UNCHANGED online
  \/ /\ ~Crossed(b.levels) /\ ~TwoSided(b.levels)
     /\ StartOver
     /\ UNCHANGED stored

ApplySnapshot ==
  /\ wire # <<>>
  /\ LET m == Head(wire)
     IN  /\ m.snapshot
         /\ Install(m, [valid |-> TRUE, sequence |-> m.sequence, levels |-> m.set], FALSE)
  /\ UNCHANGED exchange

\* (mutant) The previous sequence is not compared.
ContiguousByNumber(m) == m.sequence > local.sequence

Contiguous(m) ==
  IF m.previous # 0 THEN m.previous = local.sequence ELSE m.sequence > local.sequence

\* (mutant) Removals are forgotten ...
MergedWithoutRemovals(m) == With(local.levels, m.set)

\* (mutant) ... or additions.
MergedWithoutAdditions(m) == Without(local.levels, m.gone)

Merged(m) == With(Without(local.levels, m.gone), m.set)

ApplyDelta ==
  /\ wire # <<>>
  /\ LET m == Head(wire)
     IN  /\ ~m.snapshot /\ local.valid /\ Contiguous(m)
         /\ Install(m, [valid |-> TRUE, sequence |-> m.sequence,
                        levels |-> Best(Merged(m), Depth)], dropped)
  /\ UNCHANGED exchange

\* OrderBookSequenceGapError
DetectGap ==
  /\ wire # <<>> /\ ~Head(wire).snapshot
  /\ local.valid /\ ~Contiguous(Head(wire))
  /\ local' = Invalidated(local)
  /\ wire' = Tail(wire)
  /\ UNCHANGED <<exchange, online, dropped, stored>>

\* OrderBookNotReadyError
RefuseDelta ==
  /\ wire # <<>> /\ ~Head(wire).snapshot
  /\ ~local.valid
  /\ wire' = Tail(wire)
  /\ UNCHANGED <<exchange, online, local, dropped, stored>>

Next ==
  \/ Publish \/ Subscribe \/ Disconnect \/ Restart
  \/ DropStale \/ ApplySnapshot \/ ApplyDelta \/ DetectGap \/ RefuseDelta

Spec == Init /\ [][Next]_vars
-----------------------------------------------------------------------------
TypeOK ==
  /\ feed \in Feeds /\ book \in Book /\ sequence \in 1 .. MaxSequence
  /\ wire \in Seq(Message) /\ Len(wire) <= MaxWire
  /\ online \in BOOLEAN /\ dropped \in BOOLEAN
  /\ local \in [valid : BOOLEAN, sequence : 0 .. MaxSequence, levels : Book]
  /\ local.valid \/ local.levels = Empty
  /\ stored \in [levels : Book, truth : Book, dropped : BOOLEAN]

\* Whether the collector can know that it has seen everything since the snapshot.
Complete == feed.chained \/ ~stored.dropped

\* No row contains a level the exchange did not have at that sequence, whatever
\* was lost with a connection, dropped as stale or restarted: an update missing from
\* a chain is noticed.
StoredIsReal ==
  Complete =>
    stored.levels.bid \subseteq stored.truth.bid /\ stored.levels.ask \subseteq stored.truth.ask

\* When no more levels are published than the book keeps, a row holds all of them.
StoredIsComplete ==
  Complete /\ feed.levels <= Depth => stored.levels = stored.truth

\* The book is not given up without a reason: as long as no update was dropped it is
\* valid, or has not seen its first snapshot.
NoFalseAlarm == ~dropped => local.valid \/ local = NewBook
=============================================================================
