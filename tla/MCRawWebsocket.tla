----------------------------- MODULE MCRawWebsocket -----------------------------
(* Model-checking instances of the raw websocket connection. *)
EXTENDS RawWebsocket
=============================================================================
