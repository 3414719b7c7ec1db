-------------------------- MODULE MCTradingWorker --------------------------
(***************************************************************************)
(* Instances of TradingWorker: the deployed single worker, and two workers  *)
(* with the same arguments.                                                 *)
(***************************************************************************)
EXTENDS TradingWorker

CONSTANTS w1, w2, btc

OneInstrument == [w \in Workers |-> btc]
OneHorizon == [w \in Workers |-> "15m"]

\* A close may return more or less than the margin, or cost more than it.
GainOrLoss == {-1, 2}
Gain == {1}
=============================================================================
