-------------------------- MODULE MCOrderbookArrays --------------------------
(* Model-checking instances of the depth event slots. *)
EXTENDS OrderbookArrays
=============================================================================
