----------------------- MODULE MCMarketDataPublisher -----------------------
(***************************************************************************)
(* TLC instance of MarketDataPublisher: a ring of four slots of which the  *)
(* load leaves one free, and nine updates, so that the indices wrap twice  *)
(* and a burst can fill the buffer of the socket.                          *)
(***************************************************************************)
EXTENDS MarketDataPublisher
=============================================================================
