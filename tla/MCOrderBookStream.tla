------------------------- MODULE MCOrderBookStream -------------------------
(***************************************************************************)
(* An instance of OrderBookStream: the feeds of the two exchanges.          *)
(***************************************************************************)
EXTENDS OrderBookStream

\* Bybit publishes as many levels as are kept, without previous_sequence; OKX
\* publishes more of them, chained.
Bybit == [levels |-> Depth, chained |-> FALSE]
Okx == [levels |-> Depth + 1, chained |-> TRUE]
BothFeeds == {Bybit, Okx}
=============================================================================
