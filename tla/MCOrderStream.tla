---------------------------- MODULE MCOrderStream ----------------------------
(* Model-checking instances of the order stream. *)
EXTENDS OrderStream
=============================================================================
