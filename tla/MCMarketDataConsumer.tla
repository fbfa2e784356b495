------------------------ MODULE MCMarketDataConsumer ------------------------
(***************************************************************************)
(* TLC instance of MarketDataConsumer: as many faults as it takes to lose  *)
(* an update and to have another come too early or twice.                  *)
(***************************************************************************)
EXTENDS MarketDataConsumer
=============================================================================
