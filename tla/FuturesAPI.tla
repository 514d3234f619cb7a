------------------------------ MODULE FuturesAPI ------------------------------
(***************************************************************************)
(* APIManager::Futures::API: the fetch functions over one REST connection  *)
(* and one shared parser.  A fetch sends its request, then decodes the     *)
(* response with the parser locked.  It fills what the caller gave it: a   *)
(* ring that somebody else takes from (fetchCandles, fetchOpenInterest-    *)
(* Hist), a snapshot (fetchOrderbookSnapshot), single fields ("info":      *)
(* fetchOpenInterestCurrent, fetchExchangeInfoForPair) or just the text,   *)
(* without the parser (fetchRaw).                                          *)
(*                                                                         *)
(* Each client makes one kind of fetch into one container of its own, of   *)
(* which only the number of elements matters.  A snapshot has two parts,   *)
(* bids and asks, decoded in this order; anything else has one.            *)
(***************************************************************************)
EXTENDS StreamHolder

CONSTANTS
    RING,       \* places in a caller's ring, 2048 or 1024 in the code
    SIDE,       \* places for each side of a snapshot, 8192 in the code
    MaxItems    \* bound: elements of a part of a response

ASSUME RingAssumption == RING \in Nat \ {0} /\ SIDE \in Nat /\ MaxItems \in Nat

Fetches == {"ring", "snapshot", "info", "raw"}
Parts   == 1 .. 2
Counts  == [Parts -> 0 .. MaxItems]
Nothing == [p \in Parts |-> 0]

VARIABLES
    parserFutures, \* who has locked parserFutures
    fetch,      \* where each client is in its fetch
    what,       \* the kind of its fetches
    left, got,  \* elements of each part of its response: still to be decoded, and all
    filled,     \* elements of each part in its container
    error       \* the FetchError it returned

apiVars == <<parserFutures, fetch, what, left, filled, got, error>>
fetchVars == <<restVars, apiVars>>

APIInit ==
    /\ RestInit
    /\ parserFutures = NoClient
    /\ fetch = [c \in Clients |-> "idle"]
    /\ what \in [Clients -> Fetches]
    /\ left = [c \in Clients |-> Nothing]
    /\ filled = [c \in Clients |-> Nothing]
    /\ got = [c \in Clients |-> Nothing]
    /\ error = [c \in Clients |-> "none"]

GotoFetch(c, from, to) ==
    /\ fetch[c] = from
    /\ fetch' = [fetch EXCEPT ![c] = to]

ReturnError(c, from, e) ==
    /\ GotoFetch(c, from, "idle")
    /\ error' = [error EXCEPT ![c] = e]

\* A snapshot starts from scratch; a ring keeps what has not been taken.
Fetch(c) ==
    /\ GotoFetch(c, "idle", "request")
    /\ sendRequest(c)
    /\ filled' = [filled EXCEPT ![c] = IF what[c] = "snapshot" THEN Nothing ELSE @]
    /\ UNCHANGED <<parserFutures, what, left, got, error>>

FetchFails(c) ==
    /\ at[c] = "idle" /\ outcome[c] = "FAIL"
    /\ ReturnError(c, "request", "BOOST_ERROR")
    /\ UNCHANGED <<restVars, parserFutures, what, left, filled, got>>

fetchRaw(c) ==
    /\ at[c] = "idle" /\ outcome[c] = "SUCCESS" /\ what[c] = "raw"
    /\ ReturnError(c, "request", "SUCCESS")
    /\ UNCHANGED <<restVars, parserFutures, what, left, filled, got>>

\* ThreadSafeParserRAII, and iterateResponse; there are n[p] elements in part p.
LockFutures(c, n) ==
    /\ at[c] = "idle" /\ outcome[c] = "SUCCESS" /\ what[c] # "raw"
    /\ what[c] # "snapshot" => n[2] = 0
    /\ GotoFetch(c, "request", "decode")
    /\ parserFutures = NoClient /\ parserFutures' = c
    /\ left' = [left EXCEPT ![c] = n] /\ got' = [got EXCEPT ![c] = n]
    /\ UNCHANGED <<restVars, what, filled, error>>

\* Mutation: an oversized side goes on past the end of its array.
Decode_Overruns(c, p) ==
    /\ fetch[c] = "decode" /\ left[c][p] > 0
    /\ p = 2 => left[c][1] = 0
    /\ what[c] = "ring" => filled[c][p] < RING
    /\ filled' = [filled EXCEPT ![c][p] = @ + 1]
    /\ left' = [left EXCEPT ![c][p] = @ - 1]
    /\ UNCHANGED <<restVars, parserFutures, fetch, what, got, error>>

\* The next element.  enqueue waits for a place; registerEntry drops what it has no place for.
Decode(c, p) ==
    /\ fetch[c] = "decode" /\ left[c][p] > 0
    /\ p = 2 => left[c][1] = 0
    /\ what[c] = "ring" => filled[c][p] < RING
    /\ filled' = [filled EXCEPT ![c][p] = IF what[c] = "snapshot" /\ @ >= SIDE THEN @ ELSE @ + 1]
    /\ left' = [left EXCEPT ![c][p] = @ - 1]
    /\ UNCHANGED <<restVars, parserFutures, fetch, what, got, error>>

\* All is decoded; the pair asked for may not be in an exchange info.
Decoded(c) ==
    /\ left[c] = Nothing
    /\ \/ ReturnError(c, "decode", "SUCCESS")
       \/ what[c] = "info" /\ ReturnError(c, "decode", "BAD_SYMBOL")
    /\ parserFutures' = NoClient
    /\ UNCHANGED <<restVars, what, left, filled, got>>

\* iterateResponse: not JSON, or an error of the exchange.
Refused(c) ==
    /\ left[c] = got[c]
    /\ ReturnError(c, "decode", "UNEXPECTED_RESP")
    /\ parserFutures' = NoClient
    /\ left' = [left EXCEPT ![c] = Nothing]
    /\ UNCHANGED <<restVars, what, filled, got>>

\* Mutation: what was decoded before the bad field is kept.
DecodeFails_KeepsHalf(c) ==
    /\ left[c] # Nothing
    /\ ReturnError(c, "decode", "BAD_FIELD")
    /\ parserFutures' = NoClient
    /\ left' = [left EXCEPT ![c] = Nothing]
    /\ UNCHANGED <<restVars, what, filled, got>>

\* Mutation: the exception leaves the parser locked.
DecodeFails_KeepsParser(c) ==
    /\ left[c] # Nothing
    /\ ReturnError(c, "decode", "BAD_FIELD")
    /\ left' = [left EXCEPT ![c] = Nothing]
    /\ filled' = [filled EXCEPT ![c] = IF what[c] = "info" THEN @ ELSE Nothing]
    /\ UNCHANGED <<restVars, parserFutures, what, got>>

\* A field does not decode: clearBuffer or reset; single fields stay as they are.
DecodeFails(c) ==
    /\ left[c] # Nothing
    /\ ReturnError(c, "decode", "BAD_FIELD")
    /\ parserFutures' = NoClient
    /\ left' = [left EXCEPT ![c] = Nothing]
    /\ filled' = [filled EXCEPT ![c] = IF what[c] = "info" THEN @ ELSE Nothing]
    /\ UNCHANGED <<restVars, what, got>>

\* Whoever has the other end of a client's ring takes an element.
Take(c) ==
    /\ what[c] = "ring" /\ filled[c][1] > 0
    /\ filled' = [filled EXCEPT ![c][1] = @ - 1]
    /\ UNCHANGED <<restVars, parserFutures, fetch, what, left, got, error>>

FetchStep(c) ==
    \/ ClientStep(c) /\ UNCHANGED apiVars
    \/ FetchFails(c) \/ fetchRaw(c) \/ (\E n \in Counts : LockFutures(c, n))
    \/ (\E p \in Parts : Decode(c, p)) \/ Decoded(c) \/ Refused(c) \/ DecodeFails(c)

APINext ==
    \/ \E c \in Clients : Fetch(c) \/ FetchStep(c) \/ Take(c)
    \/ PeerDrops /\ UNCHANGED apiVars

APISpec == APIInit /\ [][APINext]_fetchVars

-----------------------------------------------------------------------------
\* Type correctness: every client is in one place of its fetch, and no container holds more than it has places.
APITypeOK ==
    /\ RestTypeOK
    /\ parserFutures \in Clients \cup {NoClient}
    /\ fetch \in [Clients -> {"idle", "request", "decode"}]
    /\ left \in [Clients -> Counts] /\ got \in [Clients -> Counts]
    /\ \A c \in Clients, p \in Parts :
          /\ what[c] = "ring" => filled[c][p] \in 0 .. RING
          /\ what[c] = "snapshot" => filled[c][p] \in 0 .. SIDE

\* The elements of a side of n that a snapshot has room for.
Kept(n) == IF n > SIDE THEN SIDE ELSE n

(***************************************************************************)
(* A snapshot is handed over whole or empty: "A half-filled snapshot would *)
(* be applied as if it were the whole book" (api.hpp:211), whichever of    *)
(* the ways a fetch can fail it takes, and whatever an earlier fetch left  *)
(* in the object.  Whole means each side up to its first SIDE levels: the  *)
(* rest of a longer side is dropped without an error.  The request asks    *)
(* for 1000 levels, so an answer that keeps to that is whole to the last.  *)
(***************************************************************************)
WholeOrEmpty ==
    \A c \in Clients, p \in Parts : fetch[c] = "idle" /\ what[c] = "snapshot" =>
        filled[c][p] = IF error[c] = "SUCCESS" THEN Kept(got[c][p]) ELSE 0

(***************************************************************************)
(* What a fetch leaves in the caller's container is never half of a        *)
(* response, but for the levels of a snapshot's side beyond its SIDE       *)
(* places, and never more than the container holds.                        *)
(***************************************************************************)
HandedOverWhole == APITypeOK /\ WholeOrEmpty

(***************************************************************************)
(* Every fetch returns, whoever else fetches: the connection's lock and    *)
(* the parser come back, as long as a ring is taken from while it is       *)
(* filled and the exchange answers or drops the connection.                *)
(***************************************************************************)
FetchesReturn == \A c \in Clients : fetch[c] # "idle" ~> fetch[c] = "idle"
=============================================================================
