----------------------------- MODULE StreamHolder -----------------------------
(***************************************************************************)
(* The REST connection (StreamHolder): one keep-alive HTTPS connection     *)
(* that several threads send requests over, one at a time under a lock.    *)
(* A request that finds the connection broken gets one reconnect and one   *)
(* retry.                                                                  *)
(*                                                                         *)
(* retryConnection, which nothing under src/src calls, is left out.        *)
(*                                                                         *)
(* HTTP has no request ids: whatever the connection delivers next is taken *)
(* for the response.  A request is therefore a number, and the connection  *)
(* the sequence of the numbers whose responses are still to be read.       *)
(***************************************************************************)
EXTENDS Integers, Sequences

CONSTANTS
    Clients,        \* threads that share the connection
    MaxRequests     \* bound: requests sent

ASSUME RequestsAssumption == MaxRequests \in Nat

NoClient == "nobody"

ASSUME ClientsAssumption == NoClient \notin Clients

VARIABLES
    lock,
    connectionStatus,
    peer,           \* the exchange still has its end of the connection
    inbound,        \* responses on the connection that have not been read
    at,             \* where each client is
    request,        \* the request of each client
    answer,         \* the request whose response it was given
    outcome,        \* what its last call returned
    fresh,          \* the connection was made during this call
    troubled,       \* an attempt to connect, or an exchange on a fresh connection, failed during this call
    requests

wire == <<connectionStatus, peer, inbound>>
call == <<request, answer, outcome>>
history == <<fresh, troubled>>
restVars == <<lock, wire, at, call, history, requests>>

\* The constructor connected, at once or after backing off, or gave up.
RestInit ==
    /\ lock = NoClient
    /\ connectionStatus \in {"SUCCESS", "FAIL"}
    /\ peer = (connectionStatus = "SUCCESS")
    /\ inbound = <<>>
    /\ at = [c \in Clients |-> "idle"]
    /\ request = [c \in Clients |-> 0]
    /\ answer = [c \in Clients |-> 0]
    /\ outcome = [c \in Clients |-> "none"]
    /\ fresh = FALSE /\ troubled = [c \in Clients |-> FALSE]
    /\ requests = 0

Move(c, from, to) ==
    /\ at[c] = from
    /\ at' = [at EXCEPT ![c] = to]

\* The guard unlocks on the way out.
ReturnFrom(c, from, result) ==
    /\ Move(c, from, "idle")
    /\ lock' = NoClient
    /\ fresh' = FALSE
    /\ outcome' = [outcome EXCEPT ![c] = result]

-----------------------------------------------------------------------------
(* Calls *)

sendRequest(c) ==
    /\ Move(c, "idle", "lock")
    /\ requests < MaxRequests
    /\ requests' = requests + 1
    /\ request' = [request EXCEPT ![c] = requests']
    /\ outcome' = [outcome EXCEPT ![c] = "none"]
    /\ UNCHANGED <<lock, wire, answer, history>>

\* The lock, and what follows at once: the test of connectionStatus in perform.
Lock(c) ==
    /\ Move(c, "lock", IF connectionStatus = "SUCCESS" THEN "write1" ELSE "connect1")
    /\ lock = NoClient /\ lock' = c
    /\ fresh' = FALSE /\ troubled' = [troubled EXCEPT ![c] = FALSE]
    /\ UNCHANGED <<wire, call, requests>>

-----------------------------------------------------------------------------
(* establishConnection: a new stream, so nothing of the old one is left. *)

establishConnection(result) ==
    /\ connectionStatus' = result
    /\ peer' = (result = "SUCCESS")
    /\ inbound' = <<>>

Connected(c) ==
    /\ establishConnection("SUCCESS")
    /\ fresh' = TRUE
    /\ \/ Move(c, "connect1", "write1")
       \/ Move(c, "connect2", "write2")
    /\ UNCHANGED <<lock, call, troubled, requests>>

ConnectFails(c) ==
    /\ establishConnection("FAIL")
    /\ troubled' = [troubled EXCEPT ![c] = TRUE]
    /\ \/ Move(c, "connect1", "connect2") /\ UNCHANGED <<lock, outcome, fresh>>
       \/ ReturnFrom(c, "connect2", "FAIL")
    /\ UNCHANGED <<request, answer, requests>>

-----------------------------------------------------------------------------
(* exchange: one write and one read on the current connection. *)

\* A write to a peer that has gone may still succeed.
WriteDone(c) ==
    /\ Move(c, "write1", "read1") \/ Move(c, "write2", "read2")
    /\ inbound' = IF peer THEN Append(inbound, request[c]) ELSE inbound
    /\ UNCHANGED <<lock, connectionStatus, peer, call, history, requests>>

\* The exchange may close the connection after the response, and says so in it.
ReadDone(c, keepAlive) ==
    /\ inbound # <<>>
    /\ ReturnFrom(c, "read1", "SUCCESS") \/ ReturnFrom(c, "read2", "SUCCESS")
    /\ answer' = [answer EXCEPT ![c] = Head(inbound)]
    /\ inbound' = Tail(inbound)
    /\ peer' = (peer /\ keepAlive)
    /\ connectionStatus' = IF keepAlive THEN connectionStatus ELSE "FAIL"
    /\ troubled' = [troubled EXCEPT ![c] = FALSE]
    /\ UNCHANGED <<request, requests>>

\* Mutation: the retry uses the connection as it is.
ExchangeFails_NoReconnect(c, first, second) ==
    /\ troubled' = [troubled EXCEPT ![c] = troubled[c] \/ fresh]
    /\ \/ Move(c, first, "write2") /\ UNCHANGED <<lock, connectionStatus, outcome, fresh>>
       \/ ReturnFrom(c, second, "FAIL") /\ connectionStatus' = "FAIL"
    /\ UNCHANGED <<peer, inbound, request, answer, requests>>

\* Mutation: the connection is still good for the next request.
ExchangeFails_StaysConnected(c, first, second) ==
    /\ troubled' = [troubled EXCEPT ![c] = troubled[c] \/ fresh]
    /\ \/ Move(c, first, "connect2") /\ UNCHANGED <<lock, outcome, fresh>>
       \/ ReturnFrom(c, second, "FAIL")
    /\ UNCHANGED <<wire, request, answer, requests>>

\* What had been read is dropped; the rest of the response may still be on the wire.
ExchangeFails(c, first, second) ==
    /\ troubled' = [troubled EXCEPT ![c] = troubled[c] \/ fresh]
    /\ \/ Move(c, first, "connect2") /\ UNCHANGED <<lock, connectionStatus, outcome, fresh>>
       \/ ReturnFrom(c, second, "FAIL") /\ connectionStatus' = "FAIL"
    /\ UNCHANGED <<peer, inbound, request, answer, requests>>

WriteFails(c) == ~peer /\ ExchangeFails(c, "write1", "write2")

\* The connection broke, or the response is not HTTP or exceeds bodyLimit.
ResponseFails(c) == (~peer \/ inbound # <<>>) /\ ExchangeFails(c, "read1", "read2")

\* Idle or not, at any time; responses that are on their way may still arrive.
PeerDrops ==
    /\ peer /\ peer' = FALSE
    /\ inbound' \in {inbound, <<>>}
    /\ UNCHANGED <<lock, connectionStatus, at, call, history, requests>>

-----------------------------------------------------------------------------
ClientStep(c) ==
    \/ Lock(c) \/ Connected(c) \/ ConnectFails(c)
    \/ WriteDone(c) \/ WriteFails(c)
    \/ (\E keepAlive \in BOOLEAN : ReadDone(c, keepAlive)) \/ ResponseFails(c)

-----------------------------------------------------------------------------
\* Type correctness: the lock, the connection and the clients are in one of their states.
RestTypeOK ==
    /\ lock \in Clients \cup {NoClient}
    /\ connectionStatus \in {"SUCCESS", "FAIL"} /\ peer \in BOOLEAN
    /\ \A i \in DOMAIN inbound : inbound[i] \in 1 .. MaxRequests
    /\ at \in [Clients -> {"idle", "lock", "connect1", "write1", "read1",
                           "connect2", "write2", "read2"}]

(***************************************************************************)
(* The response a caller is given is that of its own request, although a   *)
(* request may have failed with its response half read or still on its     *)
(* way, and the next one, perhaps of another thread, uses the same object. *)
(***************************************************************************)
AnswersItsOwnRequest ==
    \A c \in Clients : at[c] = "idle" /\ outcome[c] = "SUCCESS" =>
        answer[c] = request[c]

(***************************************************************************)
(* What streamHolder.hpp:91-94 promises: an idle connection that the       *)
(* exchange has dropped costs a reconnect, never a request.  A request     *)
(* fails only if the exchange could not be connected to meanwhile, or      *)
(* failed on a connection that was made for this very request.             *)
(***************************************************************************)
DroppedIdleIsHidden ==
    \A c \in Clients : outcome[c] = "FAIL" => troubled[c]
=============================================================================
