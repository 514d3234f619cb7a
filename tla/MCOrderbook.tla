----------------------------- MODULE MCOrderbook -----------------------------
(* Model-checking instances of the order book. *)
EXTENDS Orderbook
=============================================================================
