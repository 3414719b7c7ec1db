---------------------------- MODULE MCMarketStore ----------------------------
(* Model values for MarketStore. *)
EXTENDS MarketStore

DivergentBars == {1}

\* Candles and features together; the retention of books with the stream of books.
Tasks == {{"bybit", "okx", "orderbook", "features"}, {"orderbook", "scheduler"}}
=============================================================================
