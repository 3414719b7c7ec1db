------------------------- MODULE MCPortfolioLedger -------------------------
(***************************************************************************)
(* An instance of PortfolioLedger: four updates handled by two tasks.       *)
(***************************************************************************)
EXTENDS PortfolioLedger

CONSTANTS deposit, buy, sell, reconcile, btc, usdt, t1, t2

Blank == [kind |-> "DEPOSIT", asset |-> usdt, amount |-> 0, quote |-> usdt, total |-> 0,
          fee |-> 0, snapshot |-> None]

\* A purchase that the deposit just covers, a sale whose
\* fee exceeds its proceeds, and a snapshot that names one asset.
Dialogue ==
  [m \in Messages |->
     CASE m = deposit -> [Blank EXCEPT !.amount = 3]
       [] m = buy -> [Blank EXCEPT !.kind = "BUY", !.asset = btc, !.amount = 1,
                                   !.total = 2, !.fee = 1]
       [] m = sell -> [Blank EXCEPT !.kind = "SELL", !.asset = btc, !.amount = 1,
                                    !.total = 1, !.fee = 2]
       [] m = reconcile -> [Blank EXCEPT !.kind = "RECONCILE",
                                         !.snapshot = [None EXCEPT ![usdt] = 2]]]
=============================================================================
