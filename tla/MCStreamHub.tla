---------------------------- MODULE MCStreamHub ----------------------------
(* Model-checking instances of the streams that share a parser. *)
EXTENDS StreamHub
=============================================================================
