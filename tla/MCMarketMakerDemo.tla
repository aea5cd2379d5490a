------------------------- MODULE MCMarketMakerDemo --------------------------
(***************************************************************************)
(* The configurations give the noise, the batches, the queues' sizes and   *)
(* the position limit.                                                     *)
(***************************************************************************)
EXTENDS MarketMakerDemo
=============================================================================
