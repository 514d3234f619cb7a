---------------------------- MODULE StreamsProofs ----------------------------
(***************************************************************************)
(* What connects and fetches, for any number of threads, requests and      *)
(* attempts: the REST connection gives a caller the response to its own    *)
(* request, a fetch hands over a whole snapshot or none, the holder's      *)
(* isRunning() is true, and so is what a stream's constructor leaves.      *)
(***************************************************************************)
EXTENDS UserFuturesStream, FuturesAPI, SequenceTheorems, TLAPS

-----------------------------------------------------------------------------
(* The REST connection *)

RestTypes ==
    /\ lock \in Clients \cup {NoClient}
    /\ connectionStatus \in {"SUCCESS", "FAIL"} /\ peer \in BOOLEAN
    /\ inbound \in Seq(1 .. MaxRequests)
    /\ at \in [Clients -> {"idle", "lock", "connect1", "write1", "read1", "connect2", "write2", "read2"}]
    /\ requests \in 0 .. MaxRequests
    /\ request \in [Clients -> 0 .. MaxRequests]
    /\ answer \in [Clients -> 0 .. MaxRequests]
    /\ outcome \in [Clients -> {"none", "SUCCESS", "FAIL"}]
    /\ troubled \in [Clients -> BOOLEAN] /\ fresh \in BOOLEAN

\* Whoever is past the lock has it, and no call has a result before it returns.
OneAtATime ==
    \A c \in Clients :
        /\ lock = c <=> at[c] \notin {"idle", "lock"}
        /\ at[c] # "idle" => outcome[c] = "none" /\ request[c] > 0

(***************************************************************************)
(* The only response that can be read is that of the request in progress:  *)
(* before its write the connection is empty, and a connection that may     *)
(* hold the rest of a failed exchange is never offered to the next call.   *)
(***************************************************************************)
WireIsClean ==
    /\ lock = NoClient /\ connectionStatus = "SUCCESS" => inbound = <<>>
    /\ \A c \in Clients :
        /\ at[c] \in {"write1", "write2"} => inbound = <<>>
        /\ at[c] \in {"read1", "read2"} => inbound \in {<<>>, <<request[c]>>}
        /\ at[c] \in {"write2", "read2"} => fresh

RestInv == RestTypes /\ OneAtATime /\ WireIsClean /\ AnswersItsOwnRequest /\ DroppedIdleIsHidden

\* What the responses on a connection become when one is added, and when the only one is read.
LEMMA OneResponse ==
    ASSUME NEW r
    PROVE  /\ Append(<<>>, r) = <<r>>
           /\ Head(<<r>>) = r /\ Tail(<<r>>) = <<>> /\ <<r>> # <<>>
OBVIOUS

\* A sequence of requests stays one when a request is added and when one is taken.
LEMMA ResponsesTyped ==
    ASSUME NEW n \in Nat, NEW q \in Seq(1 .. n)
    PROVE  /\ \A i \in DOMAIN q : q[i] \in 1 .. n
           /\ \A r \in 1 .. n : Append(q, r) \in Seq(1 .. n)
           /\ q # <<>> => Head(q) \in 1 .. n /\ Tail(q) \in Seq(1 .. n)
           /\ <<>> \in Seq(1 .. n)
OBVIOUS

\* A connection just made, or given up by the constructor, is empty and has no caller.
LEMMA RestInitInv == RestInit => RestInv
<1> SUFFICES ASSUME RestInit PROVE RestInv
  OBVIOUS
<1> USE RequestsAssumption, ClientsAssumption DEF RestInit
<1>1. RestTypes
  <2>1. peer \in BOOLEAN /\ connectionStatus \in {"SUCCESS", "FAIL"}
    OBVIOUS
  <2>2. inbound \in Seq(1 .. MaxRequests)
    BY ResponsesTyped
  <2>3. troubled \in [Clients -> BOOLEAN] /\ fresh \in BOOLEAN
    OBVIOUS
  <2>4. requests \in 0 .. MaxRequests /\ 0 \in 0 .. MaxRequests
    OBVIOUS
  <2> QED BY <2>1, <2>2, <2>3, <2>4 DEF RestTypes
<1>2. OneAtATime /\ WireIsClean
  BY DEF OneAtATime, WireIsClean
<1>3. AnswersItsOwnRequest /\ DroppedIdleIsHidden
  BY DEF AnswersItsOwnRequest, DroppedIdleIsHidden
<1> QED BY <1>1, <1>2, <1>3 DEF RestInv

\* The step of one caller or of the exchange, over the same connection.
RestStep ==
    \/ \E c \in Clients : sendRequest(c) \/ ClientStep(c)
    \/ PeerDrops
    \/ UNCHANGED restVars

\* Every step keeps the connection and its callers typed.
LEMMA RestTypesStep ==
    ASSUME RestTypes, OneAtATime, RestStep
    PROVE  RestTypes'
<1> USE RequestsAssumption, ClientsAssumption DEF RestTypes, Move, ReturnFrom, wire, call, history
<1>1. CASE UNCHANGED restVars
  BY <1>1 DEF restVars
<1>2. CASE PeerDrops
  BY <1>2, ResponsesTyped DEF PeerDrops
<1>3. ASSUME NEW c \in Clients, sendRequest(c)
      PROVE  RestTypes'
  BY <1>3 DEF sendRequest
<1>4. ASSUME NEW c \in Clients, ClientStep(c)
      PROVE  RestTypes'
  <2>1. CASE Lock(c)
    BY <2>1 DEF Lock
  <2>2. CASE Connected(c)
    BY <2>2, ResponsesTyped DEF Connected, establishConnection
  <2>3. CASE ConnectFails(c)
    BY <2>3, ResponsesTyped DEF ConnectFails, establishConnection
  <2>4. CASE WriteDone(c)
    <3>1. request[c] \in 1 .. MaxRequests
      <4>1. at[c] # "idle"
        BY <2>4 DEF WriteDone
      <4>2. request[c] > 0
        BY <4>1 DEF OneAtATime
      <4> QED BY <4>2
    <3>2. Append(inbound, request[c]) \in Seq(1 .. MaxRequests)
      BY <3>1, ResponsesTyped
    <3>3. inbound' \in Seq(1 .. MaxRequests)
      BY <2>4, <3>2 DEF WriteDone
    <3> QED BY <2>4, <3>3, ResponsesTyped DEF WriteDone
  <2>5. CASE WriteFails(c)
    BY <2>5 DEF WriteFails, ExchangeFails
  <2>6. ASSUME NEW keepAlive \in BOOLEAN, ReadDone(c, keepAlive)
        PROVE  RestTypes'
    <3>1. inbound' \in Seq(1 .. MaxRequests) /\ Head(inbound) \in 1 .. MaxRequests
      BY <2>6, ResponsesTyped DEF ReadDone
    <3>2. Head(inbound) \in 0 .. MaxRequests
      BY <3>1
    <3>3. peer' \in BOOLEAN /\ connectionStatus' \in {"SUCCESS", "FAIL"}
      BY <2>6 DEF ReadDone
    <3>4. lock' \in Clients \cup {NoClient} /\ fresh' \in BOOLEAN /\ troubled' \in [Clients -> BOOLEAN]
      BY <2>6 DEF ReadDone
    <3> QED BY <2>6, <3>1, <3>2, <3>3, <3>4 DEF ReadDone
  <2>7. CASE ResponseFails(c)
    BY <2>7 DEF ResponseFails, ExchangeFails
  <2> QED BY <1>4, <2>1, <2>2, <2>3, <2>4, <2>5, <2>6, <2>7 DEF ClientStep
<1> QED BY <1>1, <1>2, <1>3, <1>4 DEF RestStep

\* A step of one caller leaves the other callers, the connection and the results as RestInv says.
LEMMA RestStepInv ==
    ASSUME RestInv, RestStep
    PROVE  RestInv'
<1>0. RestTypes'
  BY RestTypesStep DEF RestInv
<1> DEFINE Rest == OneAtATime /\ WireIsClean /\ AnswersItsOwnRequest /\ DroppedIdleIsHidden
<1>t. /\ lock \in Clients \cup {NoClient}
      /\ at \in [Clients -> {"idle", "lock", "connect1", "write1", "read1", "connect2", "write2", "read2"}]
      /\ request \in [Clients -> 0 .. MaxRequests] /\ requests \in Nat
      /\ answer \in [Clients -> 0 .. MaxRequests]
      /\ outcome \in [Clients -> {"none", "SUCCESS", "FAIL"}]
      /\ troubled \in [Clients -> BOOLEAN] /\ fresh \in BOOLEAN
  BY RequestsAssumption DEF RestInv, RestTypes
<1> SUFFICES Rest'
  BY <1>0 DEF RestInv
<1> USE <1>t, ClientsAssumption
    DEF OneAtATime, WireIsClean, AnswersItsOwnRequest, DroppedIdleIsHidden, Move, ReturnFrom, wire, call, history
<1>1. CASE UNCHANGED restVars
  <2>1. /\ lock' = lock /\ connectionStatus' = connectionStatus /\ inbound' = inbound /\ at' = at
        /\ request' = request /\ answer' = answer /\ outcome' = outcome
        /\ fresh' = fresh /\ troubled' = troubled
    BY <1>1 DEF restVars
  <2> QED BY <2>1 DEF RestInv
<1>2. CASE PeerDrops
  <2>1. OneAtATime' /\ AnswersItsOwnRequest' /\ DroppedIdleIsHidden'
    BY <1>2 DEF PeerDrops, RestInv
  <2>2. WireIsClean'
    BY <1>2, Zenon DEF PeerDrops, RestInv
  <2> QED BY <2>1, <2>2
<1>3. ASSUME NEW c \in Clients, sendRequest(c)
      PROVE  Rest'
  BY <1>3 DEF sendRequest, RestInv
<1>4. ASSUME NEW c \in Clients, ClientStep(c)
      PROVE  Rest'
  <2>1. CASE Lock(c)
    BY <2>1 DEF Lock, RestInv
  <2>2. CASE Connected(c)
    BY <2>2 DEF Connected, establishConnection, RestInv
  <2>3. CASE ConnectFails(c)
    <3>1. lock = c /\ at[c] # "idle" /\ at[c] # "lock"
      BY <2>3 DEF ConnectFails, RestInv
    <3>2. OneAtATime' /\ AnswersItsOwnRequest'
      <4>1. CASE ReturnFrom(c, "connect2", "FAIL")
        BY <2>3, <3>1, <4>1 DEF ConnectFails, establishConnection, RestInv
      <4>2. CASE ~ReturnFrom(c, "connect2", "FAIL")
        BY <2>3, <3>1, <4>2 DEF ConnectFails, establishConnection, RestInv
      <4> QED BY <4>1, <4>2
    <3>3. WireIsClean'
      BY <2>3, <3>1 DEF ConnectFails, establishConnection, RestInv
    <3>4. DroppedIdleIsHidden'
      BY <2>3 DEF ConnectFails, establishConnection, RestInv
    <3> QED BY <3>2, <3>3, <3>4
  <2>4. CASE WriteDone(c)
    <3>1. inbound = <<>> /\ lock = c
      BY <2>4 DEF WriteDone, RestInv
    <3>2. inbound' \in {<<>>, <<request[c]>>}
      BY <2>4, <3>1, OneResponse DEF WriteDone
    <3>3. WireIsClean'
      BY <2>4, <3>1, <3>2 DEF WriteDone, RestInv
    <3>4. OneAtATime' /\ AnswersItsOwnRequest' /\ DroppedIdleIsHidden'
      BY <2>4 DEF WriteDone, RestInv
    <3> QED BY <3>3, <3>4
  <2>5. CASE WriteFails(c)
    <3>1. lock = c /\ at[c] # "idle" /\ at[c] # "lock"
      BY <2>5 DEF WriteFails, ExchangeFails, RestInv
    <3>2. OneAtATime' /\ AnswersItsOwnRequest'
      <4>1. CASE ReturnFrom(c, "write2", "FAIL")
        BY <2>5, <3>1, <4>1 DEF WriteFails, ExchangeFails, RestInv
      <4>2. CASE ~ReturnFrom(c, "write2", "FAIL")
        BY <2>5, <3>1, <4>2 DEF WriteFails, ExchangeFails, RestInv
      <4> QED BY <4>1, <4>2
    <3>3. WireIsClean'
      BY <2>5, <3>1 DEF WriteFails, ExchangeFails, RestInv
    <3>4. DroppedIdleIsHidden'
      BY <2>5 DEF WriteFails, ExchangeFails, RestInv
    <3> QED BY <3>2, <3>3, <3>4
  <2>6. ASSUME NEW keepAlive \in BOOLEAN, ReadDone(c, keepAlive)
        PROVE  Rest'
    <3>1. inbound = <<request[c]>> /\ lock = c /\ at[c] # "idle"
      BY <2>6 DEF ReadDone, RestInv
    <3>2. Head(inbound) = request[c] /\ inbound' = <<>>
      BY <2>6, <3>1, OneResponse DEF ReadDone
    <3>3. WireIsClean'
      BY <2>6, <3>1, <3>2 DEF ReadDone, RestInv
    <3>4. OneAtATime' /\ DroppedIdleIsHidden'
      BY <2>6, <3>1 DEF ReadDone, RestInv
    <3>5. AnswersItsOwnRequest'
      BY <2>6, <3>2 DEF ReadDone, RestInv
    <3> QED BY <3>3, <3>4, <3>5
  <2>7. CASE ResponseFails(c)
    BY <2>7 DEF ResponseFails, ExchangeFails, RestInv
  <2> QED BY <1>4, <2>1, <2>2, <2>3, <2>4, <2>5, <2>6, <2>7 DEF ClientStep
<1> QED BY <1>1, <1>2, <1>3, <1>4 DEF RestStep

-----------------------------------------------------------------------------
(* The fetches over one connection *)

APITypes ==
    /\ parserFutures \in Clients \cup {NoClient}
    /\ fetch \in [Clients -> {"idle", "request", "decode"}]
    /\ what \in [Clients -> Fetches]
    /\ left \in [Clients -> Counts] /\ got \in [Clients -> Counts]
    /\ filled \in [Clients -> [Parts -> Nat]]
    /\ error \in [Clients -> {"none", "SUCCESS", "BOOST_ERROR", "UNEXPECTED_RESP", "BAD_FIELD", "BAD_SYMBOL"}]

(***************************************************************************)
(* A ring is never overfilled, and each side of a snapshot holds what has  *)
(* been decoded of it so far, up to its places.                            *)
(***************************************************************************)
FilledInv ==
    \A c \in Clients, p \in Parts :
        /\ what[c] = "ring" => filled[c][p] <= RING
        /\ what[c] = "snapshot" => filled[c][p] <= SIDE
        /\ what[c] = "snapshot" /\ fetch[c] = "request" => filled[c][p] = 0
        /\ what[c] = "snapshot" /\ fetch[c] = "decode" =>
              left[c][p] <= got[c][p] /\ filled[c][p] = Kept(got[c][p] - left[c][p])

APIInv == RestInv /\ APITypes /\ FilledInv /\ WholeOrEmpty

\* An API object that nothing has been fetched with.
LEMMA APIInitInv == APIInit => APIInv
<1> SUFFICES ASSUME APIInit PROVE APIInv
  OBVIOUS
<1>1. RestInv
  BY RestInitInv DEF APIInit
<1>2. APITypes
  BY RingAssumption DEF APIInit, APITypes, Counts, Nothing, Parts
<1>3. FilledInv /\ WholeOrEmpty
  BY RingAssumption DEF APIInit, FilledInv, WholeOrEmpty, Nothing
<1> QED BY <1>1, <1>2, <1>3 DEF APIInv

\* Every step of a fetch, of whoever takes from its ring and of the connection keeps APIInv.
LEMMA APIStepInv ==
    ASSUME APIInv, [APINext]_fetchVars
    PROVE  APIInv'
<1>1. RestInv'
  <2>1. RestStep
    BY DEF APINext, fetchVars, Fetch, FetchStep, FetchFails, fetchRaw, LockFutures, Decode, Decoded, Refused,
           DecodeFails, Take, RestStep
  <2> QED BY <2>1, RestStepInv DEF APIInv
<1> DEFINE Filling == APITypes /\ FilledInv /\ WholeOrEmpty
<1> SUFFICES Filling'
  BY <1>1 DEF APIInv
<1> USE RingAssumption DEF APIInv, APITypes, FilledInv, WholeOrEmpty, GotoFetch, ReturnError, Parts, Counts, Nothing, Kept
<1>2. CASE UNCHANGED apiVars
  BY <1>2 DEF apiVars
<1>3. ASSUME NEW c \in Clients, Fetch(c)
      PROVE  Filling'
  BY <1>3 DEF Fetch
<1>4. ASSUME NEW c \in Clients, FetchFails(c) \/ fetchRaw(c)
      PROVE  Filling'
  <2>1. CASE FetchFails(c)
    BY <1>4, <2>1 DEF FetchFails
  <2>2. CASE fetchRaw(c)
    BY <1>4, <2>2 DEF fetchRaw
  <2> QED BY <1>4, <2>1, <2>2
<1>5. ASSUME NEW c \in Clients, NEW n \in Counts, LockFutures(c, n)
      PROVE  Filling'
  BY <1>5 DEF LockFutures
<1>6. ASSUME NEW c \in Clients, NEW p \in Parts, Decode(c, p)
      PROVE  Filling'
  <2>1. left[c] \in Counts /\ filled[c] \in [Parts -> Nat] /\ left[c][p] \in 1 .. MaxItems
    BY <1>6 DEF Decode
  <2>2. /\ left'[c] = [left[c] EXCEPT ![p] = @ - 1]
        /\ filled'[c] = [filled[c] EXCEPT ![p] = IF what[c] = "snapshot" /\ @ >= SIDE THEN @ ELSE @ + 1]
        /\ \A d \in Clients \ {c} : left'[d] = left[d] /\ filled'[d] = filled[d]
        /\ fetch' = fetch /\ what' = what /\ got' = got /\ error' = error /\ parserFutures' = parserFutures
        /\ fetch[c] = "decode" /\ (what[c] = "ring" => filled[c][p] < RING)
    BY <1>6 DEF Decode
  <2>3. left'[c] \in Counts /\ filled'[c] \in [Parts -> Nat]
    BY <2>1, <2>2
  <2>4. APITypes'
    BY <1>6, <2>3 DEF Decode
  <2>5. \A q \in Parts : /\ left'[c][q] = IF q = p THEN left[c][q] - 1 ELSE left[c][q]
                         /\ filled'[c][q] = IF q = p /\ ~(what[c] = "snapshot" /\ filled[c][q] >= SIDE)
                                           THEN filled[c][q] + 1 ELSE filled[c][q]
    BY <2>1, <2>2
  <2>6. \A q \in Parts : got[c][q] \in Nat /\ left[c][q] \in Nat /\ filled[c][q] \in Nat
    BY <2>1
  <2>7. FilledInv'
    <3>1. ASSUME NEW q \in Parts
          PROVE  /\ what[c] = "ring" => filled'[c][q] <= RING
                 /\ what[c] = "snapshot" =>
                      /\ filled'[c][q] <= SIDE
                      /\ left'[c][q] <= got[c][q] /\ filled'[c][q] = Kept(got[c][q] - left'[c][q])
      <4> DEFINE g == got[c][q]  l == left[c][q]  f == filled[c][q]  f2 == filled'[c][q]  l2 == left'[c][q]
      <4>1. /\ g \in Nat /\ l \in Nat /\ f \in Nat
            /\ what[c] = "ring" => f <= RING
            /\ what[c] = "snapshot" => f <= SIDE /\ l <= g /\ f = Kept(g - l)
        BY <2>2, <2>6
      <4>2. CASE q # p
        <5>1. l2 = l /\ f2 = f
          BY <2>5, <4>2
        <5> HIDE DEF g, l, f, f2, l2
        <5>2. /\ what[c] = "ring" => f2 <= RING
              /\ what[c] = "snapshot" => f2 <= SIDE /\ l2 <= g /\ f2 = Kept(g - l2)
          BY <4>1, <5>1
        <5> QED BY <5>2 DEF g, l, f, f2, l2
      <4>3. CASE q = p
        <5>1. /\ l2 = l - 1 /\ l >= 1
              /\ f2 = IF what[c] = "snapshot" /\ f >= SIDE THEN f ELSE f + 1
              /\ what[c] = "ring" => f < RING
          BY <2>1, <2>2, <2>5, <4>3
        <5> HIDE DEF g, l, f, f2, l2
        <5>2. /\ what[c] = "ring" => f2 <= RING
              /\ what[c] = "snapshot" => f2 <= SIDE /\ l2 <= g /\ f2 = Kept(g - l2)
          BY <4>1, <5>1
        <5> QED BY <5>2 DEF g, l, f, f2, l2
      <4> QED BY <4>2, <4>3
    <3> QED BY <2>2, <3>1
  <2>8. WholeOrEmpty'
    BY <2>2
  <2> QED BY <2>4, <2>7, <2>8
<1>7. ASSUME NEW c \in Clients, Decoded(c)
      PROVE  Filling'
  <2>1. /\ left' = left /\ filled' = filled /\ got' = got /\ what' = what /\ fetch' = [fetch EXCEPT ![c] = "idle"]
        /\ fetch[c] = "decode" /\ left[c] = Nothing
        /\ \/ error' = [error EXCEPT ![c] = "SUCCESS"]
           \/ what[c] = "info" /\ error' = [error EXCEPT ![c] = "BAD_SYMBOL"]
    BY <1>7 DEF Decoded
  <2>2. APITypes' /\ FilledInv'
    BY <1>7, <2>1 DEF Decoded
  <2>3. \A q \in Parts : what[c] = "snapshot" => filled[c][q] = Kept(got[c][q])
    BY <2>1
  <2>4. WholeOrEmpty'
    BY <2>1, <2>3
  <2> QED BY <2>2, <2>4
<1>8. ASSUME NEW c \in Clients, Refused(c)
      PROVE  Filling'
  BY <1>8 DEF Refused
<1>9. ASSUME NEW c \in Clients, DecodeFails(c)
      PROVE  Filling'
  BY <1>9 DEF DecodeFails
<1>10. ASSUME NEW c \in Clients, Take(c)
       PROVE  Filling'
  BY <1>10 DEF Take, Fetches
<1> QED
  BY <1>2, <1>3, <1>4, <1>5, <1>6, <1>7, <1>8, <1>9, <1>10 DEF APINext, FetchStep, fetchVars

\* What APIInv says of the connection and of the containers.
LEMMA APIInvImplies == APIInv => AnswersItsOwnRequest /\ DroppedIdleIsHidden /\ HandedOverWhole
<1> SUFFICES ASSUME APIInv PROVE AnswersItsOwnRequest /\ DroppedIdleIsHidden /\ HandedOverWhole
  OBVIOUS
<1>1. RestTypeOK
  BY RequestsAssumption, ResponsesTyped DEF APIInv, RestInv, RestTypes, RestTypeOK
<1>2. APITypeOK
  BY <1>1, RingAssumption DEF APIInv, APITypes, FilledInv, APITypeOK
<1> QED BY <1>2 DEF APIInv, RestInv, HandedOverWhole

\* APIInv holds in every state of the API object.
LEMMA APIAlways == APISpec => []APIInv
BY APIInitInv, APIStepInv, PTL DEF APISpec

(***************************************************************************)
(* perform and sendRequest: over one keep-alive connection without request *)
(* ids, shared by any number of threads, each of them is given the         *)
(* response to its own request, whatever failed before.                    *)
(***************************************************************************)
THEOREM APIAnswersItsOwnRequest == APISpec => []AnswersItsOwnRequest
BY APIAlways, APIInvImplies, PTL

(***************************************************************************)
(* The retry of perform: a request that finds an idle connection dropped   *)
(* fails only if the exchange cannot be connected to, or fails on a        *)
(* connection that was made for it, whichever thread's call broke it.      *)
(***************************************************************************)
THEOREM APIDroppedIdleIsHidden == APISpec => []DroppedIdleIsHidden
BY APIAlways, APIInvImplies, PTL

(***************************************************************************)
(* The fetch functions hand over a snapshot that is empty, or whole but    *)
(* for the levels it has no place for, on every way out, and never put     *)
(* more into a ring or a side than it holds, for any sizes of the two and  *)
(* of the response, oversized ones included.                               *)
(***************************************************************************)
THEOREM FetchHandsOverWhole == APISpec => []HandedOverWhole
BY APIAlways, APIInvImplies, PTL

-----------------------------------------------------------------------------
(* The holder: where the calls of a thread return to *)

SetupPCs   == {"setup", "setup_net", "setup_done"}
BackoffPCs == {"backoff", "sleeping", "woken", "tried"}
MessagePCs == {"message", "reading"}
ClosePCs   == {"close", "close_running", "close_signal", "close_read", "shutdown"}

\* The loop has called setupConnection, a backoff (which calls setupConnection) or a read.
LoopFrames ==
    /\ pc[Loop] \in SetupPCs \cup BackoffPCs \cup MessagePCs
                    \cup {"start", "started", "retried", "alive", "while", "read", "checked", "reconnected",
                          "parser", "parse", "enqueue", "done"}
    /\ pc[Loop] \in SetupPCs =>
          stack[Loop] \in {<<"started">>, <<"tried", "retried">>, <<"tried", "reconnected">>}
    /\ pc[Loop] \in BackoffPCs => stack[Loop] \in {<<"retried">>, <<"reconnected">>}
    /\ pc[Loop] \in MessagePCs => stack[Loop] = <<"read">>
    /\ pc[Loop] \notin SetupPCs \cup BackoffPCs \cup MessagePCs => stack[Loop] = <<>>

\* The owner's calls are those of closeConnection and reEstablishExecution.
OwnerFrames ==
    /\ pc[Owner] \in SetupPCs \cup BackoffPCs \cup MessagePCs \cup ClosePCs
                     \cup {"idle", "status_wait", "status_running", "status_alive",
                           "re_join", "re_arm", "re_reset", "re_setup", "re_retried", "re_status",
                           "destroy_signal", "destroy_join", "destroyed"}
    /\ pc[Owner] \in SetupPCs => stack[Owner] \in {<<"re_setup">>, <<"tried", "re_retried">>}
    /\ pc[Owner] \in BackoffPCs => stack[Owner] = <<"re_retried">>
    /\ pc[Owner] \in MessagePCs => stack[Owner] \in {<<"close_read", "idle">>, <<"close_read", "re_join">>}
    /\ pc[Owner] \in ClosePCs => stack[Owner] \in {<<"idle">>, <<"re_join">>}
    /\ pc[Owner] \notin SetupPCs \cup BackoffPCs \cup MessagePCs \cup ClosePCs => stack[Owner] = <<>>

PollerFrames ==
    /\ pc[Poller] \in {"idle", "status_wait", "status_running", "status_alive"}
    /\ stack[Poller] = <<>>

\* reEstablishExecution from the moment it raises running to the start of the loop.
ReSet == {"re_reset", "re_setup", "re_retried"} \cup SetupPCs \cup BackoffPCs

\* closeConnection and the destructor once they have cleared running, and what follows a close.
Closed == {"close_signal", "close_read", "shutdown", "re_join", "re_arm",
           "destroy_signal", "destroy_join", "destroyed"} \cup MessagePCs

(***************************************************************************)
(* Who may raise and clear running: only reEstablishExecution, between the *)
(* join and the new loop, has a running holder without a loop, and only it *)
(* sees running together with the signal.                                  *)
(***************************************************************************)
FlagsInv ==
    /\ pc[Owner] \in ReSet => running /\ pc[Loop] = "done"
    /\ pc[Owner] = "re_arm" => pc[Loop] = "done"
    /\ running /\ pc[Loop] = "done" => pc[Owner] \in ReSet
    /\ signalled /\ running => pc[Owner] = "re_reset"
    /\ pc[Owner] \in Closed => ~running

\* A loop that ended by itself has left a reason, and nothing that could clear it runs.
ReasonInv ==
    ~running /\ ~signalled /\ pc[Owner] \notin {"close_signal", "destroy_signal"} =>
        lastError /\ pc[Loop] = "done"

\* What an attempt or a backoff returned, until it is looked at.
StatusInv ==
    /\ \A p \in {Loop, Owner} : pc[p] \in {"setup_done", "tried"} =>
            status[p] \in {"SUCCESS", "FAIL"} /\ (status[p] = "FAIL" => lastError)
    /\ pc[Loop] \in {"retried", "reconnected"} =>
            (status[Loop] = "FAIL" => lastError) /\ (status[Loop] = "CLOSED" => ~running)
    /\ pc[Owner] = "re_retried" => status[Owner] # "CLOSED" /\ (status[Owner] = "FAIL" => lastError)

HolderInv == TypeOK /\ LoopFrames /\ OwnerFrames /\ PollerFrames /\ FlagsInv /\ ReasonInv /\ StatusInv

\* A step of the holder, whoever asks for the status.
AnyStep == Next \/ GetStatusCall(Owner) \/ GetStatus(Owner)

\* A new holder is running, its loop is about to connect, and nobody has called anything.
LEMMA HolderInitInv == Init => HolderInv
<1> SUFFICES ASSUME Init PROVE HolderInv
  OBVIOUS
<1> USE TriesAssumption DEF Init
<1>1. TypeOK
  <2>1. <<>> \in Seq(PCs)
    OBVIOUS
  <2>2. pc \in [Threads -> PCs]
    BY DEF Threads, Loop, Owner, Poller, PCs
  <2>3. json \in [Threads -> BOOLEAN] /\ tries \in [Threads -> 0 .. MaxTryCount - 1]
    OBVIOUS
  <2>4. parserWrapper \in {"nobody", "loop", "others"} /\ bufferOut \in 0 .. BufferSize
    BY BufferAssumption
  <2> QED BY <2>1, <2>2, <2>3, <2>4 DEF TypeOK
<1>2. LoopFrames /\ OwnerFrames /\ PollerFrames
  BY DEF LoopFrames, OwnerFrames, PollerFrames, Threads, Loop, Owner, Poller, SetupPCs, BackoffPCs, MessagePCs,
         ClosePCs
<1>3. FlagsInv /\ ReasonInv /\ StatusInv
  BY DEF FlagsInv, ReasonInv, StatusInv, Threads, Loop, Owner, Poller, SetupPCs, BackoffPCs, MessagePCs, ReSet, Closed
<1> QED BY <1>1, <1>2, <1>3 DEF HolderInv

\* Calling pushes a frame and returning pops it: what that means for the frames there are.
LEMMA PushPop ==
    ASSUME NEW a, NEW b
    PROVE  /\ <<a>> \o <<>> = <<a>> /\ <<a>> \o <<b>> = <<a, b>>
           /\ Head(<<a>>) = a /\ Tail(<<a>>) = <<>>
           /\ Head(<<a, b>>) = a /\ Tail(<<a, b>>) = <<b>>
<1>1. <<a>> \in Seq({a, b}) /\ <<b>> \in Seq({a, b}) /\ <<a, b>> \in Seq({a, b})
  OBVIOUS
<1>2. <<a>> \o <<b>> = <<a, b>>
  <2>1. Len(<<a>> \o <<b>>) = 2 /\ <<a>> \o <<b>> \in Seq({a, b})
    BY <1>1
  <2>2. (<<a>> \o <<b>>)[1] = a /\ (<<a>> \o <<b>>)[2] = b
    BY <1>1
  <2>3. Len(<<a, b>>) = 2 /\ <<a, b>>[1] = a /\ <<a, b>>[2] = b
    OBVIOUS
  <2>4. \A i \in 1 .. 2 : (<<a>> \o <<b>>)[i] = <<a, b>>[i]
    BY <2>2, <2>3
  <2> QED BY <1>1, <2>1, <2>3, <2>4, SeqEqual, Zenon
<1>3. <<a>> \o <<>> = <<a>>
  OBVIOUS
<1>4. Head(<<a>>) = a /\ Tail(<<a>>) = <<>> /\ Head(<<a, b>>) = a /\ Tail(<<a, b>>) = <<b>>
  OBVIOUS
<1> QED BY <1>2, <1>3, <1>4

\* Only the thread that moves, calls or returns changes its place.
Others(p) == \A q \in Threads \ {p} : pc'[q] = pc[q] /\ stack'[q] = stack[q]

\* A thread that goes on in the same function.
LEMMA GotoMoves ==
    ASSUME TypeOK, NEW p \in Threads, NEW from, NEW to, Goto(p, from, to)
    PROVE  pc[p] = from /\ pc'[p] = to /\ stack'[p] = stack[p] /\ Others(p)
BY DEF TypeOK, Goto, Others

\* A thread that calls a function from the outermost one.
LEMMA OuterCallPushes ==
    ASSUME TypeOK, NEW p \in Threads, NEW from, NEW operation, NEW back, Call(p, from, operation, back)
    PROVE  /\ pc[p] = from /\ pc'[p] = operation /\ Others(p)
           /\ stack[p] = <<>> => stack'[p] = <<back>>
<1>1. pc[p] = from /\ pc'[p] = operation /\ Others(p) /\ stack'[p] = <<back>> \o stack[p]
  BY DEF TypeOK, Call, Others
<1> QED BY <1>1, PushPop, Zenon

\* A thread that calls a function from one that was called itself.
LEMMA CallPushes ==
    ASSUME TypeOK, NEW p \in Threads, NEW from, NEW operation, NEW back, Call(p, from, operation, back)
    PROVE  /\ pc[p] = from /\ pc'[p] = operation /\ Others(p)
           /\ \A a : stack[p] = <<a>> => stack'[p] = <<back, a>>
<1>1. pc[p] = from /\ pc'[p] = operation /\ Others(p) /\ stack'[p] = <<back>> \o stack[p]
  BY DEF TypeOK, Call, Others
<1> QED BY <1>1, PushPop, Zenon

\* A thread that returns goes where the frame says.
LEMMA ReturnPops ==
    ASSUME TypeOK, NEW p \in Threads, NEW from, Return(p, from)
    PROVE  /\ pc[p] = from /\ Others(p)
           /\ \A a : stack[p] = <<a>> => pc'[p] = a /\ stack'[p] = <<>>
           /\ \A a, b : stack[p] = <<a, b>> => pc'[p] = a /\ stack'[p] = <<b>>
<1>1. pc[p] = from /\ Others(p) /\ pc'[p] = Head(stack[p]) /\ stack'[p] = Tail(stack[p])
  BY DEF TypeOK, Return, Others
<1>2. \A a, b : Head(<<a>>) = a /\ Tail(<<a>>) = <<>> /\ Head(<<a, b>>) = a /\ Tail(<<a, b>>) = <<b>>
  BY PushPop, Zenon
<1> QED BY <1>1, <1>2, Zenon

\* Where the functions that the loop calls return to.
LEMMA LoopReturns ==
    ASSUME TypeOK, LoopFrames, NEW from, Return(Loop, from)
    PROVE  /\ pc[Loop] = from /\ Others(Loop)
           /\ from = "setup_done" =>
                \/ pc'[Loop] = "started" /\ stack'[Loop] = <<>>
                \/ pc'[Loop] = "tried" /\ stack'[Loop] \in {<<"retried">>, <<"reconnected">>}
           /\ from \in BackoffPCs => pc'[Loop] \in {"retried", "reconnected"} /\ stack'[Loop] = <<>>
           /\ from \in MessagePCs => pc'[Loop] = "read" /\ stack'[Loop] = <<>>
<1>1. Loop \in Threads
  BY DEF Threads
<1>2. /\ pc[Loop] = from /\ Others(Loop)
      /\ \A a : stack[Loop] = <<a>> => pc'[Loop] = a /\ stack'[Loop] = <<>>
      /\ \A a, b : stack[Loop] = <<a, b>> => pc'[Loop] = a /\ stack'[Loop] = <<b>>
  BY <1>1, ReturnPops
<1> QED BY <1>2, Zenon DEF LoopFrames, SetupPCs

\* Where the functions that the owner calls return to.
LEMMA OwnerReturns ==
    ASSUME TypeOK, OwnerFrames, NEW from, Return(Owner, from)
    PROVE  /\ pc[Owner] = from /\ Others(Owner)
           /\ from = "setup_done" =>
                \/ pc'[Owner] = "re_setup" /\ stack'[Owner] = <<>>
                \/ pc'[Owner] = "tried" /\ stack'[Owner] = <<"re_retried">>
           /\ from \in BackoffPCs => pc'[Owner] = "re_retried" /\ stack'[Owner] = <<>>
           /\ from \in MessagePCs => pc'[Owner] = "close_read" /\ stack'[Owner] \in {<<"idle">>, <<"re_join">>}
           /\ from \in ClosePCs => pc'[Owner] \in {"idle", "re_join"} /\ stack'[Owner] = <<>>
<1>1. Owner \in Threads
  BY DEF Threads
<1>2. /\ pc[Owner] = from /\ Others(Owner)
      /\ \A a : stack[Owner] = <<a>> => pc'[Owner] = a /\ stack'[Owner] = <<>>
      /\ \A a, b : stack[Owner] = <<a, b>> => pc'[Owner] = a /\ stack'[Owner] = <<b>>
  BY <1>1, ReturnPops
<1> QED BY <1>2, Zenon DEF OwnerFrames, SetupPCs

DataTypes ==
    /\ running \in BOOLEAN /\ connectionAlive \in BOOLEAN /\ connecting \in BOOLEAN
    /\ signalled \in BOOLEAN /\ lastError \in BOOLEAN
    /\ err \in [Callers -> {"null", "live", "freed"}] /\ ws \in {"closed", "open"}
    /\ status \in [Threads -> {"SUCCESS", "FAIL", "CLOSED"}]
    /\ json \in [Threads -> BOOLEAN] /\ tries \in [Threads -> 0 .. MaxTryCount - 1]
    /\ parserWrapper \in {"nobody", "loop", "others"} /\ bufferOut \in 0 .. BufferSize

ControlTypes == pc \in [Threads -> PCs] /\ stack \in [Threads -> Seq(PCs)]

\* The type invariant, in two parts.
LEMMA TypesOfParts == TypeOK' <=> ControlTypes' /\ DataTypes'
BY DEF TypeOK, ControlTypes, DataTypes

\* Moving, calling and returning keep the places and the frames typed.
LEMMA GotoTyped ==
    ASSUME TypeOK, NEW p \in Threads, NEW from, NEW to \in PCs, Goto(p, from, to)
    PROVE  ControlTypes'
BY DEF TypeOK, Goto, ControlTypes

LEMMA CallTyped ==
    ASSUME TypeOK, NEW p \in Threads, NEW from, NEW operation \in PCs, NEW back \in PCs, Call(p, from, operation, back)
    PROVE  ControlTypes'
<1>1. stack[p] \in Seq(PCs)
  BY DEF TypeOK
<1>2. <<back>> \o stack[p] \in Seq(PCs)
  BY <1>1
<1> QED BY <1>2, Zenon DEF TypeOK, Call, ControlTypes

LEMMA ReturnTyped ==
    ASSUME TypeOK, NEW p \in Threads, NEW from, Return(p, from), stack[p] # <<>>
    PROVE  ControlTypes'
<1>1. stack[p] \in Seq(PCs)
  BY DEF TypeOK
<1>2. Head(stack[p]) \in PCs /\ Tail(stack[p]) \in Seq(PCs)
  BY <1>1
<1> QED BY <1>2, Zenon DEF TypeOK, Return, ControlTypes

\* Inside a function that somebody calls there is a frame to return to.
LEMMA FramesThere ==
    ASSUME LoopFrames, OwnerFrames
    PROVE  /\ \A p \in {Loop, Owner} : pc[p] \in SetupPCs \cup BackoffPCs \cup MessagePCs => stack[p] # <<>>
           /\ pc[Owner] \in ClosePCs => stack[Owner] # <<>>
BY DEF LoopFrames, OwnerFrames

\* setupConnection, exponentialBackOff, getLatestMessage and getStatus, whoever calls them, keep the types.
LEMMA CalledTypes ==
    ASSUME TypeOK, LoopFrames, OwnerFrames, NEW p \in {Loop, Owner},
           Setup(p) \/ Backoff(p) \/ Message(p) \/ BackoffTimeout(p)
    PROVE  TypeOK'
<1>0. p \in Threads
  BY DEF Threads
<1>1. ControlTypes'
  <2> USE <1>0, GotoTyped, CallTyped DEF PCs
  <2>1. CASE Setup(p)
    <3>1. CASE SetupDone(p)
      <4>1. stack[p] # <<>> /\ Return(p, "setup_done")
        BY <3>1, FramesThere DEF SetupDone, Return, SetupPCs
      <4> QED BY <4>1, ReturnTyped
    <3> QED BY <2>1, <3>1 DEF Setup, SetupBegin, SetupSucceeds, SetupFails
  <2>2. CASE Backoff(p)
    <3>1. CASE BackoffClosed(p) \/ BackoffSucceeds(p) \/ BackoffGivesUp(p)
      <4>1. stack[p] # <<>> /\ Return(p, pc[p])
        BY <3>1, FramesThere DEF BackoffClosed, BackoffSucceeds, BackoffGivesUp, Return, BackoffPCs
      <4> QED BY <4>1, ReturnTyped
    <3> QED BY <2>2, <3>1 DEF Backoff, BackoffSleeps, BackoffWoken, BackoffTries, BackoffAgain
  <2>3. CASE Message(p)
    <3>1. CASE MessageSkipped(p) \/ ReadSucceeds(p) \/ ReadFails(p) \/ ReadThrows(p)
      <4>1. stack[p] # <<>> /\ Return(p, pc[p])
        BY <3>1, FramesThere DEF MessageSkipped, ReadSucceeds, ReadFails, ReadThrows, Return, MessagePCs
      <4> QED BY <4>1, ReturnTyped
    <3> QED BY <2>3, <3>1 DEF Message, MessageRead
  <2>4. CASE BackoffTimeout(p)
    BY <2>4 DEF BackoffTimeout
  <2> QED BY <2>1, <2>2, <2>3, <2>4
<1>2. DataTypes'
  <2> USE <1>0, TriesAssumption DEF TypeOK, DataTypes, flags, local, delivery, Returns, Reads, FreeLastError
  <2>1. CASE Setup(p)
    BY <2>1 DEF Setup, SetupBegin, SetupSucceeds, SetupFails, SetupDone
  <2>2. CASE Backoff(p)
    <3>1. CASE BackoffClosed(p) \/ BackoffSucceeds(p) \/ BackoffGivesUp(p)
      <4>0. tries' = [tries EXCEPT ![p] = 0] /\ 0 \in 0 .. MaxTryCount - 1
        BY <3>1 DEF BackoffClosed, BackoffSucceeds, BackoffGivesUp
      <4>1. tries' \in [Threads -> 0 .. MaxTryCount - 1]
        BY <4>0
      <4>2. status' \in [Threads -> {"SUCCESS", "FAIL", "CLOSED"}]
        BY <3>1 DEF BackoffClosed, BackoffSucceeds, BackoffGivesUp
      <4> QED BY <3>1, <4>1, <4>2 DEF BackoffClosed, BackoffSucceeds, BackoffGivesUp
    <3>2. CASE BackoffSleeps(p) \/ BackoffWoken(p) \/ BackoffTries(p)
      BY <3>2 DEF BackoffSleeps, BackoffWoken, BackoffTries
    <3>3. CASE BackoffAgain(p)
      BY <3>3 DEF BackoffAgain
    <3> QED BY <2>2, <3>1, <3>2, <3>3 DEF Backoff
  <2>3. CASE Message(p)
    BY <2>3 DEF Message, MessageSkipped, MessageRead, ReadSucceeds, ReadFails, ReadThrows
  <2>4. CASE BackoffTimeout(p)
    BY <2>4 DEF BackoffTimeout
  <2> QED BY <2>1, <2>2, <2>3, <2>4
<1> QED BY <1>1, <1>2, TypesOfParts

\* What executionLoop does between its calls.
LoopOwnStep ==
    \/ LoopConnects \/ LoopConnected \/ LoopRetries \/ LoopGivesUp \/ LoopAlive
    \/ LoopReads \/ LoopEnds \/ LoopChecks \/ LoopReconnects \/ LoopProcesses
    \/ LoopTakesParser \/ LoopParses \/ LoopParseThrows \/ LoopEnqueues

DestroyStep == Destroy \/ DestroySignal \/ DestroyJoined

CloseStep == CloseCall \/ Close

ReEstablishStep == ReEstablishCall \/ ReEstablish

StatusStep(p) == GetStatusCall(p) \/ GetStatus(p)

OutsideStep == getLatestData \/ OthersTakeParser \/ OthersGiveParser

\* Every step of the holder is one of its functions', and somebody's.
LEMMA StepsOfHolder ==
    AnyStep => \/ \E p \in {Loop, Owner} : Setup(p) \/ Backoff(p) \/ Message(p) \/ BackoffTimeout(p)
               \/ LoopOwnStep \/ CloseStep \/ ReEstablishStep \/ DestroyStep
               \/ \E p \in Callers : StatusStep(p)
               \/ OutsideStep
BY DEF AnyStep, OutsideStep, Outside, Next, LoopStep, OwnerStep, OwnerCalls, PollerCalls, Timeout, LoopOwnStep, CloseStep, ReEstablishStep,
       DestroyStep, StatusStep, Callers

\* Every step of the holder keeps the types.
LEMMA HolderTypesStep ==
    ASSUME TypeOK, LoopFrames, OwnerFrames, AnyStep
    PROVE  TypeOK'
<1>0. Loop \in Threads /\ Owner \in Threads /\ Poller \in Threads /\ Callers \subseteq Threads
  BY DEF Threads, Callers
<1>1. CASE \E p \in {Loop, Owner} : Setup(p) \/ Backoff(p) \/ Message(p) \/ BackoffTimeout(p)
  BY <1>1, CalledTypes
<1>2. CASE LoopOwnStep
  <2>1. ControlTypes'
    BY <1>0, <1>2, GotoTyped, CallTyped
    DEF LoopOwnStep, LoopConnects, LoopConnected, LoopRetries, LoopGivesUp, LoopAlive, LoopReads, LoopEnds, LoopChecks,
        LoopReconnects, LoopProcesses, LoopTakesParser, LoopParses, LoopParseThrows, LoopEnqueues, Forgets, PCs
  <2>2. DataTypes'
    <3> USE DEF TypeOK, DataTypes, flags, local, delivery, Forgets
    <3>1. CASE \/ LoopConnects \/ LoopConnected \/ LoopRetries \/ LoopAlive \/ LoopReads \/ LoopEnds \/ LoopChecks
               \/ LoopReconnects \/ LoopProcesses \/ LoopParses
      BY <3>1
      DEF LoopConnects, LoopConnected, LoopRetries, LoopAlive, LoopReads, LoopEnds, LoopChecks, LoopReconnects,
          LoopProcesses, LoopParses
    <3>2. CASE LoopGivesUp
      BY <3>2 DEF LoopGivesUp
    <3>3. CASE LoopTakesParser \/ LoopParseThrows
      BY <3>3 DEF LoopTakesParser, LoopParseThrows
    <3>4. CASE LoopEnqueues
      <4>1. bufferOut' \in 0 .. BufferSize
        BY <3>4, BufferAssumption DEF LoopEnqueues
      <4> QED BY <3>4, <4>1 DEF LoopEnqueues
    <3> QED BY <1>2, <3>1, <3>2, <3>3, <3>4 DEF LoopOwnStep
  <2> QED BY <2>1, <2>2, TypesOfParts
<1>3. CASE CloseStep
  <2>1. ControlTypes'
    <3>1. CASE ShutdownDone \/ CloseWithoutShutdown
      <4>1. stack[Owner] # <<>> /\ Return(Owner, pc[Owner])
        BY <3>1, FramesThere DEF ShutdownDone, CloseWithoutShutdown, Return, ClosePCs
      <4> QED BY <1>0, <4>1, ReturnTyped
    <3> QED BY <1>0, <1>3, <3>1, GotoTyped, CallTyped
        DEF CloseStep, CloseCall, Close, CloseAlive, CloseRunning, CloseSignal, CloseShutdown, PCs
  <2>2. DataTypes'
    BY <1>3
    DEF CloseStep, CloseCall, Close, CloseAlive, CloseRunning, CloseSignal, CloseShutdown, ShutdownDone,
        CloseWithoutShutdown, Forgets, TypeOK, DataTypes, flags, local, delivery
  <2> QED BY <2>1, <2>2, TypesOfParts
<1>4. CASE ReEstablishStep
  <2>1. ControlTypes'
    <3>1. CASE ReEstablishStarts
      BY <3>1 DEF ReEstablishStarts, TypeOK, ControlTypes, Threads, PCs
    <3> QED BY <1>0, <1>4, <3>1, GotoTyped, CallTyped
        DEF ReEstablishStep, ReEstablishCall, ReEstablish, ReEstablishJoined, ReEstablishArm, ReEstablishReset,
            ReEstablishRetries, ReEstablishGivesUp, ReEstablishReturns, PCs
  <2>2. DataTypes'
    BY <1>4
    DEF ReEstablishStep, ReEstablishCall, ReEstablish, ReEstablishJoined, ReEstablishArm, ReEstablishReset,
        ReEstablishRetries, ReEstablishGivesUp, ReEstablishStarts, ReEstablishReturns, Returns,
        TypeOK, DataTypes, flags, local, delivery
  <2> QED BY <2>1, <2>2, TypesOfParts
<1>5. CASE DestroyStep
  <2>1. ControlTypes'
    BY <1>0, <1>5, GotoTyped DEF DestroyStep, Destroy, DestroySignal, DestroyJoined, PCs
  <2>2. DataTypes'
    BY <1>5 DEF DestroyStep, Destroy, DestroySignal, DestroyJoined, TypeOK, DataTypes, flags, local, delivery
  <2> QED BY <2>1, <2>2, TypesOfParts
<1>6. ASSUME NEW p \in Callers, StatusStep(p)
      PROVE  TypeOK'
  <2>1. ControlTypes'
    BY <1>0, <1>6, GotoTyped
    DEF StatusStep, GetStatusCall, GetStatus, GetStatusWaited, GetStatusClosed, GetStatusRunning, GetStatusAlive, PCs
  <2>2. DataTypes'
    BY <1>0, <1>6
    DEF StatusStep, GetStatusCall, GetStatus, GetStatusWaited, GetStatusClosed, GetStatusRunning, GetStatusAlive,
        Tells, Returns, Reason, TypeOK, DataTypes, flags, local, delivery
  <2> QED BY <2>1, <2>2, TypesOfParts
<1>7. CASE OutsideStep
  BY <1>7, BufferAssumption DEF OutsideStep, getLatestData, OthersTakeParser, OthersGiveParser, TypeOK, flags, local
<1> QED BY <1>1, <1>2, <1>3, <1>4, <1>5, <1>6, <1>7, StepsOfHolder

Frames == LoopFrames /\ OwnerFrames /\ PollerFrames

\* A step of one thread leaves the frames of the others alone.
LEMMA FramesOfOthers ==
    /\ LoopFrames /\ OwnerFrames /\ PollerFrames /\ Others(Loop) => OwnerFrames' /\ PollerFrames'
    /\ LoopFrames /\ OwnerFrames /\ PollerFrames /\ Others(Owner) => LoopFrames' /\ PollerFrames'
    /\ LoopFrames /\ OwnerFrames /\ PollerFrames /\ Others(Poller) => LoopFrames' /\ OwnerFrames'
BY DEF LoopFrames, OwnerFrames, PollerFrames, Others, Threads, Loop, Owner, Poller

\* The functions that the loop calls keep its frames as they should be.
LEMMA LoopCalledFrames ==
    ASSUME TypeOK, Frames, Setup(Loop) \/ Backoff(Loop) \/ Message(Loop) \/ BackoffTimeout(Loop)
    PROVE  Frames'
<1>0. Loop \in Threads
  BY DEF Threads
<1> USE <1>0, GotoMoves, CallPushes, LoopReturns DEF Frames
<1> SUFFICES Others(Loop) /\ LoopFrames'
  BY FramesOfOthers
<1>1. CASE Setup(Loop)
  <2>1. CASE SetupDone(Loop)
    BY <2>1 DEF SetupDone, LoopFrames, SetupPCs, BackoffPCs, MessagePCs
  <2>2. CASE SetupBegin(Loop) \/ SetupSucceeds(Loop) \/ SetupFails(Loop)
    BY <2>2 DEF SetupBegin, SetupSucceeds, SetupFails, LoopFrames, SetupPCs, BackoffPCs, MessagePCs
  <2> QED BY <1>1, <2>1, <2>2 DEF Setup
<1>2. CASE Backoff(Loop)
  <2>1. CASE BackoffClosed(Loop) \/ BackoffSucceeds(Loop) \/ BackoffGivesUp(Loop)
    BY <2>1 DEF BackoffClosed, BackoffSucceeds, BackoffGivesUp, LoopFrames, SetupPCs, BackoffPCs, MessagePCs
  <2>2. CASE BackoffTries(Loop)
    <3>1. /\ pc[Loop] = "woken" /\ pc'[Loop] = "setup" /\ Others(Loop)
          /\ \A a : stack[Loop] = <<a>> => stack'[Loop] = <<"tried", a>>
      BY <2>2 DEF BackoffTries
    <3>2. stack'[Loop] \in {<<"tried", "retried">>, <<"tried", "reconnected">>}
      BY <3>1, Zenon DEF LoopFrames, BackoffPCs
    <3> QED BY <3>1, <3>2 DEF LoopFrames, SetupPCs, BackoffPCs, MessagePCs
  <2>3. CASE BackoffSleeps(Loop) \/ BackoffWoken(Loop) \/ BackoffAgain(Loop)
    BY <2>3 DEF BackoffSleeps, BackoffWoken, BackoffAgain, LoopFrames, SetupPCs, BackoffPCs, MessagePCs
  <2> QED BY <1>2, <2>1, <2>2, <2>3 DEF Backoff
<1>3. CASE Message(Loop)
  <2>1. CASE MessageRead(Loop)
    BY <2>1 DEF MessageRead, LoopFrames, SetupPCs, BackoffPCs, MessagePCs
  <2>2. CASE MessageSkipped(Loop) \/ ReadSucceeds(Loop) \/ ReadFails(Loop) \/ ReadThrows(Loop)
    BY <2>2 DEF MessageSkipped, ReadSucceeds, ReadFails, ReadThrows, LoopFrames, SetupPCs, BackoffPCs, MessagePCs
  <2> QED BY <1>3, <2>1, <2>2 DEF Message
<1>4. CASE BackoffTimeout(Loop)
  BY <1>4 DEF BackoffTimeout, LoopFrames, SetupPCs, BackoffPCs, MessagePCs
<1> QED BY <1>1, <1>2, <1>3, <1>4

\* The functions that the owner calls keep its frames as they should be.
LEMMA OwnerCalledFrames ==
    ASSUME TypeOK, Frames, Setup(Owner) \/ Backoff(Owner) \/ Message(Owner) \/ BackoffTimeout(Owner)
    PROVE  Frames'
<1>0. Owner \in Threads
  BY DEF Threads
<1> USE <1>0, GotoMoves, CallPushes, OwnerReturns DEF Frames
<1> SUFFICES Others(Owner) /\ OwnerFrames'
  BY FramesOfOthers
<1>1. CASE Setup(Owner)
  <2>1. CASE SetupDone(Owner)
    BY <2>1 DEF SetupDone, OwnerFrames, SetupPCs, BackoffPCs, MessagePCs, ClosePCs
  <2>2. CASE SetupBegin(Owner) \/ SetupSucceeds(Owner) \/ SetupFails(Owner)
    BY <2>2 DEF SetupBegin, SetupSucceeds, SetupFails, OwnerFrames, SetupPCs, BackoffPCs, MessagePCs, ClosePCs
  <2> QED BY <1>1, <2>1, <2>2 DEF Setup
<1>2. CASE Backoff(Owner)
  <2>1. CASE BackoffClosed(Owner) \/ BackoffSucceeds(Owner) \/ BackoffGivesUp(Owner)
    BY <2>1 DEF BackoffClosed, BackoffSucceeds, BackoffGivesUp, OwnerFrames, SetupPCs, BackoffPCs, MessagePCs, ClosePCs
  <2>2. CASE BackoffTries(Owner)
    <3>1. /\ pc[Owner] = "woken" /\ pc'[Owner] = "setup" /\ Others(Owner)
          /\ \A a : stack[Owner] = <<a>> => stack'[Owner] = <<"tried", a>>
      BY <2>2 DEF BackoffTries
    <3>2. stack'[Owner] = <<"tried", "re_retried">>
      BY <3>1, Zenon DEF OwnerFrames, BackoffPCs
    <3> QED BY <3>1, <3>2 DEF OwnerFrames, SetupPCs, BackoffPCs, MessagePCs, ClosePCs
  <2>3. CASE BackoffSleeps(Owner) \/ BackoffWoken(Owner) \/ BackoffAgain(Owner)
    BY <2>3 DEF BackoffSleeps, BackoffWoken, BackoffAgain, OwnerFrames, SetupPCs, BackoffPCs, MessagePCs, ClosePCs
  <2> QED BY <1>2, <2>1, <2>2, <2>3 DEF Backoff
<1>3. CASE Message(Owner)
  <2>1. CASE MessageRead(Owner)
    BY <2>1 DEF MessageRead, OwnerFrames, SetupPCs, BackoffPCs, MessagePCs, ClosePCs
  <2>2. CASE MessageSkipped(Owner) \/ ReadSucceeds(Owner) \/ ReadFails(Owner) \/ ReadThrows(Owner)
    BY <2>2
    DEF MessageSkipped, ReadSucceeds, ReadFails, ReadThrows, OwnerFrames, SetupPCs, BackoffPCs, MessagePCs, ClosePCs
  <2> QED BY <1>3, <2>1, <2>2 DEF Message
<1>4. CASE BackoffTimeout(Owner)
  BY <1>4 DEF BackoffTimeout, OwnerFrames, SetupPCs, BackoffPCs, MessagePCs, ClosePCs
<1> QED BY <1>1, <1>2, <1>3, <1>4

\* So do the steps of the loop, of the owner's operations and of getStatus.
LEMMA FramesStep ==
    ASSUME HolderInv, AnyStep
    PROVE  Frames'
<1>0. Loop \in Threads /\ Owner \in Threads /\ Poller \in Threads
  BY DEF Threads
<1> USE <1>0, GotoMoves DEF HolderInv, Frames
<1>1. CASE \E p \in {Loop, Owner} : Setup(p) \/ Backoff(p) \/ Message(p) \/ BackoffTimeout(p)
  BY <1>1, LoopCalledFrames, OwnerCalledFrames
<1>2. CASE LoopOwnStep
  <2>1. Others(Loop) /\ LoopFrames'
    <3>1. CASE LoopConnects \/ LoopRetries \/ LoopReads \/ LoopReconnects
      <4>1. stack[Loop] = <<>>
        BY <3>1
        DEF LoopConnects, LoopRetries, LoopReads, LoopReconnects, Call, LoopFrames, SetupPCs, BackoffPCs, MessagePCs
      <4>2. /\ Others(Loop)
            /\ \/ pc'[Loop] = "setup" /\ stack'[Loop] = <<"started">>
               \/ pc'[Loop] = "backoff" /\ stack'[Loop] \in {<<"retried">>, <<"reconnected">>}
               \/ pc'[Loop] = "message" /\ stack'[Loop] = <<"read">>
        BY <3>1, <4>1, OuterCallPushes DEF LoopConnects, LoopRetries, LoopReads, LoopReconnects
      <4> QED BY <4>2 DEF LoopFrames, SetupPCs, BackoffPCs, MessagePCs
    <3>2. CASE LoopConnected \/ LoopGivesUp \/ LoopAlive \/ LoopEnds \/ LoopChecks
               \/ LoopProcesses \/ LoopTakesParser \/ LoopParses \/ LoopParseThrows \/ LoopEnqueues
      BY <3>2
      DEF LoopConnected, LoopGivesUp, LoopAlive, LoopEnds, LoopChecks, LoopProcesses, LoopTakesParser, LoopParses, LoopParseThrows, LoopEnqueues, LoopFrames, SetupPCs, BackoffPCs,
          MessagePCs
    <3> QED BY <1>2, <3>1, <3>2 DEF LoopOwnStep
  <2> QED BY <2>1, FramesOfOthers
<1>3. CASE CloseStep
  <2>1. Others(Owner) /\ OwnerFrames'
    <3> USE DEF OwnerFrames, SetupPCs, BackoffPCs, MessagePCs, ClosePCs
    <3>1. CASE CloseCall
      <4>1. pc'[Owner] = "close" /\ stack'[Owner] = <<"idle">> /\ Others(Owner)
        BY <3>1, OuterCallPushes DEF CloseCall
      <4> QED BY <4>1
    <3>4. CASE CloseAlive \/ CloseRunning \/ CloseShutdown
      BY <3>4 DEF CloseAlive, CloseRunning, CloseShutdown
    <3>2. CASE CloseSignal
      <4>1. /\ pc[Owner] = "close_signal" /\ pc'[Owner] = "message" /\ Others(Owner)
            /\ \A a : stack[Owner] = <<a>> => stack'[Owner] = <<"close_read", a>>
        BY <3>2, CallPushes DEF CloseSignal
      <4>2. stack'[Owner] \in {<<"close_read", "idle">>, <<"close_read", "re_join">>}
        BY <4>1, Zenon
      <4> QED BY <4>1, <4>2
    <3>3. CASE ShutdownDone \/ CloseWithoutShutdown
      BY <3>3, OwnerReturns DEF ShutdownDone, CloseWithoutShutdown
    <3> QED BY <1>3, <3>1, <3>2, <3>3, <3>4 DEF CloseStep, Close
  <2> QED BY <2>1, FramesOfOthers
<1>4. CASE ReEstablishStep
  <2>1. CASE ReEstablishStarts
    <3>1. /\ pc'[Owner] = "re_status" /\ pc'[Loop] = "start" /\ pc'[Poller] = pc[Poller] /\ stack' = stack
          /\ pc[Owner] \in {"re_setup", "re_retried"}
      BY <2>1 DEF ReEstablishStarts, TypeOK, Threads, Loop, Owner, Poller
    <3>2. pc[Loop] = "done"
      BY <3>1 DEF FlagsInv, ReSet
    <3>3. OwnerFrames'
      BY <3>1 DEF OwnerFrames, SetupPCs, BackoffPCs, MessagePCs, ClosePCs
    <3>4. LoopFrames' /\ PollerFrames'
      BY <3>1, <3>2 DEF LoopFrames, PollerFrames, SetupPCs, BackoffPCs, MessagePCs
    <3> QED BY <3>3, <3>4
  <2>2. CASE ~ReEstablishStarts
    <3> USE DEF OwnerFrames, SetupPCs, BackoffPCs, MessagePCs, ClosePCs
    <3>1. CASE ReEstablishCall \/ ReEstablishReset \/ ReEstablishRetries
      <4>1. stack[Owner] = <<>>
        BY <3>1 DEF ReEstablishCall, ReEstablishReset, ReEstablishRetries, Call
      <4>2. /\ Others(Owner)
            /\ \/ pc'[Owner] = "close" /\ stack'[Owner] = <<"re_join">>
               \/ pc'[Owner] = "setup" /\ stack'[Owner] = <<"re_setup">>
               \/ pc'[Owner] = "backoff" /\ stack'[Owner] = <<"re_retried">>
        BY <3>1, <4>1, OuterCallPushes DEF ReEstablishCall, ReEstablishReset, ReEstablishRetries
      <4> QED BY <4>2, FramesOfOthers
    <3>2. CASE ReEstablishJoined \/ ReEstablishArm \/ ReEstablishGivesUp \/ ReEstablishReturns
      BY <3>2, FramesOfOthers DEF ReEstablishJoined, ReEstablishArm, ReEstablishGivesUp, ReEstablishReturns
    <3> QED BY <1>4, <2>2, <3>1, <3>2 DEF ReEstablishStep, ReEstablish
  <2> QED BY <2>1, <2>2
<1>5. CASE DestroyStep
  <2>1. Others(Owner) /\ OwnerFrames'
    BY <1>5
    DEF DestroyStep, Destroy, DestroySignal, DestroyJoined, OwnerFrames, SetupPCs, BackoffPCs, MessagePCs, ClosePCs
  <2> QED BY <2>1, FramesOfOthers
<1>6. ASSUME NEW p \in Callers, StatusStep(p)
      PROVE  Frames'
  <2> USE DEF StatusStep, GetStatusCall, GetStatus, GetStatusWaited, GetStatusClosed, GetStatusRunning, GetStatusAlive, Tells
  <2>1. CASE p = Owner
    <3>1. Others(Owner) /\ OwnerFrames'
      BY <1>6, <2>1 DEF OwnerFrames, SetupPCs, BackoffPCs, MessagePCs, ClosePCs
    <3> QED BY <3>1, FramesOfOthers
  <2>2. CASE p = Poller
    <3>1. Others(Poller) /\ PollerFrames'
      BY <1>6, <2>2 DEF PollerFrames
    <3> QED BY <3>1, FramesOfOthers
  <2> QED BY <2>1, <2>2 DEF Callers
<1>7. CASE OutsideStep
  BY <1>7
  DEF OutsideStep, getLatestData, OthersTakeParser, OthersGiveParser, LoopFrames, OwnerFrames, PollerFrames
<1> QED BY <1>1, <1>2, <1>3, <1>4, <1>5, <1>6, <1>7, StepsOfHolder

FlowInv == FlagsInv /\ ReasonInv /\ StatusInv

\* The functions that the loop calls: an attempt forgets the old reason and may leave a new one.
LEMMA LoopCalledFlow ==
    ASSUME HolderInv, Setup(Loop) \/ Backoff(Loop) \/ Message(Loop) \/ BackoffTimeout(Loop)
    PROVE  FlowInv'
<1>0. Loop \in Threads /\ status \in [Threads -> {"SUCCESS", "FAIL", "CLOSED"}]
  BY DEF HolderInv, TypeOK, Threads
<1> USE <1>0, GotoMoves, LoopReturns
    DEF HolderInv, FlowInv, FlagsInv, ReasonInv, StatusInv, Others, Threads, Loop, Owner, Poller,
        SetupPCs, BackoffPCs, MessagePCs, ReSet, Closed, Returns, flags, local, delivery
<1>1. CASE Setup(Loop)
  <2>1. CASE SetupBegin(Loop)
    BY <2>1 DEF SetupBegin
  <2>2. CASE SetupSucceeds(Loop) \/ SetupFails(Loop)
    BY <2>2 DEF SetupSucceeds, SetupFails
  <2>3. CASE SetupDone(Loop)
    BY <2>3 DEF SetupDone
  <2> QED BY <1>1, <2>1, <2>2, <2>3 DEF Setup
<1>2. CASE Backoff(Loop)
  <2>1. CASE BackoffClosed(Loop)
    BY <2>1 DEF BackoffClosed
  <2>2. CASE BackoffSucceeds(Loop) \/ BackoffGivesUp(Loop)
    BY <2>2 DEF BackoffSucceeds, BackoffGivesUp
  <2>3. CASE BackoffTries(Loop)
    BY <2>3, CallPushes DEF BackoffTries
  <2>4. CASE BackoffSleeps(Loop) \/ BackoffWoken(Loop) \/ BackoffAgain(Loop)
    BY <2>4 DEF BackoffSleeps, BackoffWoken, BackoffAgain
  <2> QED BY <1>2, <2>1, <2>2, <2>3, <2>4 DEF Backoff
<1>3. CASE Message(Loop)
  <2>1. CASE MessageRead(Loop)
    BY <2>1 DEF MessageRead
  <2>2. CASE MessageSkipped(Loop)
    BY <2>2 DEF MessageSkipped
  <2>3. CASE ReadSucceeds(Loop)
    BY <2>3 DEF ReadSucceeds
  <2>4. CASE ReadFails(Loop)
    BY <2>4 DEF ReadFails
  <2>5. CASE ReadThrows(Loop)
    BY <2>5 DEF ReadThrows
  <2> QED BY <1>3, <2>1, <2>2, <2>3, <2>4, <2>5 DEF Message
<1>4. CASE BackoffTimeout(Loop)
  BY <1>4 DEF BackoffTimeout
<1> QED BY <1>1, <1>2, <1>3, <1>4

\* The functions that the owner calls, which it does only while the holder is running and has no loop.
LEMMA OwnerCalledFlow ==
    ASSUME HolderInv, Setup(Owner) \/ Backoff(Owner) \/ Message(Owner) \/ BackoffTimeout(Owner)
    PROVE  FlowInv'
<1>0. Owner \in Threads /\ status \in [Threads -> {"SUCCESS", "FAIL", "CLOSED"}]
  BY DEF HolderInv, TypeOK, Threads
<1> USE <1>0, GotoMoves, OwnerReturns
    DEF HolderInv, FlowInv, FlagsInv, ReasonInv, StatusInv, Others, Threads, Loop, Owner, Poller,
        SetupPCs, BackoffPCs, MessagePCs, ReSet, Closed, Returns, flags, local, delivery
<1>1. CASE Setup(Owner)
  <2>1. CASE SetupBegin(Owner)
    BY <2>1 DEF SetupBegin
  <2>2. CASE SetupSucceeds(Owner) \/ SetupFails(Owner)
    BY <2>2 DEF SetupSucceeds, SetupFails
  <2>3. CASE SetupDone(Owner)
    BY <2>3 DEF SetupDone
  <2> QED BY <1>1, <2>1, <2>2, <2>3 DEF Setup
<1>2. CASE Backoff(Owner)
  <2>1. CASE BackoffClosed(Owner)
    BY <2>1 DEF BackoffClosed
  <2>2. CASE BackoffSucceeds(Owner) \/ BackoffGivesUp(Owner)
    BY <2>2 DEF BackoffSucceeds, BackoffGivesUp
  <2>3. CASE BackoffTries(Owner)
    BY <2>3, CallPushes DEF BackoffTries
  <2>4. CASE BackoffSleeps(Owner) \/ BackoffWoken(Owner) \/ BackoffAgain(Owner)
    BY <2>4 DEF BackoffSleeps, BackoffWoken, BackoffAgain
  <2> QED BY <1>2, <2>1, <2>2, <2>3, <2>4 DEF Backoff
<1>3. CASE Message(Owner)
  <2>1. CASE MessageRead(Owner)
    BY <2>1 DEF MessageRead
  <2>2. CASE MessageSkipped(Owner)
    BY <2>2 DEF MessageSkipped
  <2>3. CASE ReadSucceeds(Owner)
    BY <2>3 DEF ReadSucceeds
  <2>4. CASE ReadFails(Owner)
    BY <2>4 DEF ReadFails
  <2>5. CASE ReadThrows(Owner)
    BY <2>5 DEF ReadThrows
  <2> QED BY <1>3, <2>1, <2>2, <2>3, <2>4, <2>5 DEF Message
<1>4. CASE BackoffTimeout(Owner)
  BY <1>4 DEF BackoffTimeout
<1> QED BY <1>1, <1>2, <1>3, <1>4

\* What the loop does between its calls: it clears running only after a backoff that failed.
LEMMA LoopOwnFlow ==
    ASSUME HolderInv, LoopOwnStep
    PROVE  FlowInv'
<1>0. Loop \in Threads /\ status \in [Threads -> {"SUCCESS", "FAIL", "CLOSED"}]
  BY DEF HolderInv, TypeOK, Threads
<1> USE <1>0
    DEF HolderInv, FlowInv, FlagsInv, ReasonInv, StatusInv, Others, Threads, Loop, Owner, Poller,
        SetupPCs, BackoffPCs, MessagePCs, ReSet, Closed, flags, local, delivery
<1>1. CASE LoopConnects \/ LoopRetries \/ LoopReads \/ LoopReconnects
  BY <1>1, OuterCallPushes DEF LoopConnects, LoopRetries, LoopReads, LoopReconnects
<1>2. CASE LoopConnected \/ LoopAlive \/ LoopChecks
  BY <1>2, GotoMoves DEF LoopConnected, LoopAlive, LoopChecks
<1>5. CASE LoopProcesses \/ LoopTakesParser \/ LoopParses \/ LoopParseThrows \/ LoopEnqueues
  BY <1>5, GotoMoves DEF LoopProcesses, LoopTakesParser, LoopParses, LoopParseThrows, LoopEnqueues
<1>3. CASE LoopGivesUp
  BY <1>3, GotoMoves DEF LoopGivesUp
<1>4. CASE LoopEnds
  BY <1>4, GotoMoves DEF LoopEnds
<1> QED BY <1>1, <1>2, <1>3, <1>4, <1>5 DEF LoopOwnStep

\* closeConnection: running goes down before the signal goes up.
LEMMA CloseFlow ==
    ASSUME HolderInv, CloseStep
    PROVE  FlowInv'
<1>0. Owner \in Threads
  BY DEF Threads
<1> USE <1>0
    DEF HolderInv, FlowInv, FlagsInv, ReasonInv, StatusInv, Others, Threads, Loop, Owner, Poller,
        SetupPCs, BackoffPCs, MessagePCs, ClosePCs, ReSet, Closed, flags, local, delivery
<1>1. CASE CloseCall
  BY <1>1, OuterCallPushes DEF CloseCall
<1>2. CASE CloseSignal
  BY <1>2, OuterCallPushes DEF CloseSignal
<1>3. CASE CloseAlive \/ CloseShutdown
  BY <1>3, GotoMoves DEF CloseAlive, CloseShutdown
<1>4. CASE CloseRunning
  BY <1>4, GotoMoves DEF CloseRunning
<1>5. CASE ShutdownDone \/ CloseWithoutShutdown
  BY <1>5, OwnerReturns DEF ShutdownDone, CloseWithoutShutdown
<1> QED BY <1>1, <1>2, <1>3, <1>4, <1>5 DEF CloseStep, Close

\* reEstablishExecution: the old loop is joined before running and the signal are set back.
LEMMA ReEstablishFlow ==
    ASSUME HolderInv, ReEstablishStep
    PROVE  FlowInv'
<1>0. Owner \in Threads /\ status \in [Threads -> {"SUCCESS", "FAIL", "CLOSED"}]
  BY DEF HolderInv, TypeOK, Threads
<1> USE <1>0
    DEF HolderInv, FlowInv, FlagsInv, ReasonInv, StatusInv, Others, Threads, Loop, Owner, Poller,
        SetupPCs, BackoffPCs, MessagePCs, ReSet, Closed, Returns, flags, local, delivery
<1>1. CASE ReEstablishCall
  BY <1>1, OuterCallPushes DEF ReEstablishCall
<1>2. CASE ReEstablishReset
  BY <1>2, OuterCallPushes DEF ReEstablishReset
<1>3. CASE ReEstablishRetries
  BY <1>3, OuterCallPushes DEF ReEstablishRetries
<1>4. CASE ReEstablishJoined
  BY <1>4, GotoMoves DEF ReEstablishJoined
<1>5. CASE ReEstablishArm
  BY <1>5, GotoMoves DEF ReEstablishArm
<1>6. CASE ReEstablishGivesUp
  BY <1>6, GotoMoves DEF ReEstablishGivesUp
<1>7. CASE ReEstablishReturns
  BY <1>7, GotoMoves DEF ReEstablishReturns
<1>8. CASE ReEstablishStarts
  <2>1. /\ pc'[Owner] = "re_status" /\ pc'[Loop] = "start" /\ pc[Owner] \in {"re_setup", "re_retried"}
    BY <1>8 DEF ReEstablishStarts, TypeOK
  <2> QED BY <1>8, <2>1 DEF ReEstablishStarts
<1> QED BY <1>1, <1>2, <1>3, <1>4, <1>5, <1>6, <1>7, <1>8 DEF ReEstablishStep, ReEstablish

\* The destructor, whoever asks for the status, and what happens outside the holder.
LEMMA OtherFlow ==
    ASSUME HolderInv, DestroyStep \/ OutsideStep \/ \E p \in Callers : StatusStep(p)
    PROVE  FlowInv'
<1>0. /\ Owner \in Threads /\ Poller \in Threads /\ Callers \subseteq Threads
      /\ status \in [Threads -> {"SUCCESS", "FAIL", "CLOSED"}]
  BY DEF HolderInv, TypeOK, Threads, Callers
<1> USE <1>0, GotoMoves
    DEF HolderInv, FlowInv, FlagsInv, ReasonInv, StatusInv, Others, Threads, Loop, Owner, Poller,
        SetupPCs, BackoffPCs, MessagePCs, ReSet, Closed, Returns, flags, local, delivery
<1>1. CASE Destroy
  BY <1>1 DEF Destroy
<1>2. CASE DestroySignal
  BY <1>2 DEF DestroySignal
<1>3. CASE DestroyJoined
  BY <1>3 DEF DestroyJoined
<1>4. ASSUME StatusStep(Owner)
      PROVE  FlowInv'
  BY <1>4 DEF StatusStep, GetStatusCall, GetStatus, GetStatusWaited, GetStatusClosed, GetStatusRunning, GetStatusAlive, Tells
<1>5. ASSUME StatusStep(Poller)
      PROVE  FlowInv'
  BY <1>5 DEF StatusStep, GetStatusCall, GetStatus, GetStatusWaited, GetStatusClosed, GetStatusRunning, GetStatusAlive, Tells
<1>6. CASE OutsideStep
  BY <1>6 DEF OutsideStep, getLatestData, OthersTakeParser, OthersGiveParser
<1> QED BY <1>1, <1>2, <1>3, <1>4, <1>5, <1>6 DEF DestroyStep, Callers

\* Every step of the holder keeps HolderInv.
LEMMA HolderStepInv ==
    ASSUME HolderInv, AnyStep \/ UNCHANGED vars
    PROVE  HolderInv'
<1>1. CASE AnyStep
  <2>1. TypeOK' /\ Frames'
    BY <1>1, HolderTypesStep, FramesStep DEF HolderInv
  <2>2. FlowInv'
    BY <1>1, StepsOfHolder, LoopCalledFlow, OwnerCalledFlow, LoopOwnFlow, CloseFlow, ReEstablishFlow, OtherFlow
  <2> QED BY <2>1, <2>2 DEF HolderInv, Frames, FlowInv
<1>2. CASE UNCHANGED vars
  BY <1>2
  DEF vars, flags, local, delivery, HolderInv, TypeOK, LoopFrames, OwnerFrames, PollerFrames, FlagsInv, ReasonInv, StatusInv
<1> QED BY <1>1, <1>2

\* What HolderInv says of running, the signal and the reason.
LEMMA HolderInvImplies == HolderInv => ConnectsAlone /\ RetriesPause /\ RunningIsTrue
BY DEF HolderInv, ConnectsAlone, Connecting, RetriesPause, RunningIsTrue, RunningIsServed, GivenUpHasReason,
       FlagsInv, ReasonInv, LoopFrames, OwnerFrames, PollerFrames, Threads, ReSet, SetupPCs, BackoffPCs, MessagePCs

\* HolderInv holds in every state of the holder.
LEMMA HolderAlways == Spec => []HolderInv
<1>1. HolderInv /\ [Next]_vars => HolderInv'
  BY HolderStepInv DEF AnyStep
<1> QED BY <1>1, HolderInitInv, PTL DEF Spec

(***************************************************************************)
(* reEstablishExecution connects only after the old loop is joined, so the *)
(* two never set the same socket up together, whatever the backoff.        *)
(***************************************************************************)
THEOREM HolderConnectsAlone == Spec => []ConnectsAlone
BY HolderAlways, HolderInvImplies, PTL

(***************************************************************************)
(* The sticky signal of closeConnection is gone before any backoff of the  *)
(* re-established holder sleeps: retries pause.                            *)
(***************************************************************************)
THEOREM HolderRetriesPause == Spec => []RetriesPause
BY HolderAlways, HolderInvImplies, PTL

(***************************************************************************)
(* isRunning() is true of the holder in every interleaving of close,       *)
(* reconnect, giving up and getStatus, for any number of attempts: a       *)
(* running holder is served, and one that stopped by itself has a reason.  *)
(***************************************************************************)
THEOREM HolderRunningIsTrue == Spec => []RunningIsTrue
BY HolderAlways, HolderInvImplies, PTL

-----------------------------------------------------------------------------
(* The constructor of a stream *)

StatusPCs  == {"status_wait", "status_running", "status_alive"}
DestroyPCs == {"destroy_signal", "destroy_join", "destroyed"}

(***************************************************************************)
(* What the holder's owner is doing in each place of the constructor.  The *)
(* owner closes only from within reEstablishExecution, so the signal never *)
(* outlives it; and a CLOSED that getStatus returned comes with a reason   *)
(* that stays valid, because the loop is finished.                         *)
(***************************************************************************)
CtorInv ==
    /\ ctor \notin {"first", "second", "again", "ready", "deleting"} => pc[Owner] = "idle"
    /\ ctor \in {"first", "second"} => pc[Owner] \in {"idle"} \cup StatusPCs
    /\ ctor \in {"ready", "deleting"} => pc[Owner] \in {"idle"} \cup DestroyPCs
    /\ signalled => pc[Owner] \in MessagePCs \cup {"close_read", "shutdown", "re_join", "re_arm", "re_reset",
                                                   "destroy_join", "destroyed"}
    /\ pc[Owner] \in ClosePCs => stack[Owner] = <<"re_join">>
    /\ pc[Owner] \in MessagePCs => stack[Owner] = <<"close_read", "re_join">>
    /\ ctor \in {"first", "second"} /\ pc[Owner] = "idle" /\ status[Owner] = "CLOSED" =>
            err[Owner] = "live" /\ pc[Loop] = "done"
    /\ ctor \notin {"ready", "deleting"} => lastStatus = "FAIL"

StreamInv == HolderInv /\ StreamTypeOK /\ CtorInv /\ ClosedHasReason

\* A stream under construction, with or without a listen key to fetch.
LEMMA StreamInitInv ==
    ASSUME NEW first \in {"new", "fetch"}, StreamStart(first)
    PROVE  StreamInv
<1>1. HolderInv
  BY HolderInitInv DEF StreamStart
<1>2. pc[Owner] = "idle" /\ ~signalled
  BY DEF StreamStart, Init, Threads, Loop, Owner, Poller
<1>3. StreamTypeOK /\ ClosedHasReason
  BY <1>1 DEF StreamStart, StreamTypeOK, ClosedHasReason, HolderInv
<1>4. CtorInv
  BY <1>2 DEF StreamStart, CtorInv, MessagePCs, ClosePCs
<1> QED BY <1>1, <1>3, <1>4 DEF StreamInv

\* The holder's steps behind a stream: the owner only destroys it once it is up.
HolderMove ==
    /\ \/ LoopStep \/ OwnerStep \/ GetStatus(Owner) \/ Timeout
       \/ ctor \in {"ready", "deleting"} /\ Destroy
       \/ OthersTakeParser \/ OthersGiveParser
       \/ ~Destroyed /\ getLatestData
    /\ UNCHANGED streamVars

\* The loop does not disturb the constructor: while a reason is being copied there is no loop.
LEMMA LoopKeepsCtor ==
    ASSUME StreamInv, LoopStep \/ BackoffTimeout(Loop), UNCHANGED streamVars
    PROVE  CtorInv'
<1>0. Loop \in Threads /\ status \in [Threads -> {"SUCCESS", "FAIL", "CLOSED"}]
  BY DEF StreamInv, HolderInv, TypeOK, Threads
<1>1. pc[Loop] # "done" /\ Others(Loop) /\ signalled' = signalled /\ status'[Owner] = status[Owner]
  <2> USE <1>0, GotoMoves, OuterCallPushes, LoopReturns
      DEF StreamInv, HolderInv, Threads, Loop, Owner, Poller, SetupPCs, BackoffPCs, MessagePCs, Returns, local, flags, delivery
  <2>1. CASE Setup(Loop)
    BY <2>1 DEF Setup, SetupBegin, SetupSucceeds, SetupFails, SetupDone
  <2>2. CASE Backoff(Loop)
    BY <2>2 DEF Backoff, BackoffClosed, BackoffSleeps, BackoffWoken, BackoffTries, BackoffSucceeds, BackoffAgain,
                BackoffGivesUp
  <2>3. CASE Message(Loop)
    <3>1. CASE MessageRead(Loop)
      BY <3>1 DEF MessageRead
    <3>2. CASE ~MessageRead(Loop)
      <4>1. Return(Loop, pc[Loop]) /\ pc[Loop] \in MessagePCs /\ signalled' = signalled /\ status' = status
        BY <2>3, <3>2 DEF Message, MessageSkipped, ReadSucceeds, ReadFails, ReadThrows, Return
      <4> QED BY <4>1
    <3> QED BY <3>1, <3>2
  <2>4. CASE BackoffTimeout(Loop)
    BY <2>4 DEF BackoffTimeout
  <2>5. CASE LoopOwnStep
    BY <2>5
    DEF LoopOwnStep, LoopConnects, LoopConnected, LoopRetries, LoopGivesUp, LoopAlive, LoopReads, LoopEnds, LoopChecks,
        LoopReconnects, LoopProcesses, LoopTakesParser, LoopParses, LoopParseThrows, LoopEnqueues, Forgets
  <2> QED BY <2>1, <2>2, <2>3, <2>4, <2>5 DEF LoopStep, LoopOwnStep
<1>2. pc'[Owner] = pc[Owner] /\ stack'[Owner] = stack[Owner]
  BY <1>1 DEF Others, Threads, Loop, Owner, Poller
<1> QED BY <1>1, <1>2 DEF StreamInv, CtorInv, streamVars

\* The owner's operations stay within reEstablishExecution and the destructor.
LEMMA OwnerKeepsCtor ==
    ASSUME StreamInv, OwnerStep \/ BackoffTimeout(Owner), UNCHANGED streamVars
    PROVE  CtorInv'
<1>0. Owner \in Threads
  BY DEF Threads
<1> USE <1>0, GotoMoves
    DEF StreamInv, HolderInv, CtorInv, streamVars, Threads, Loop, Owner, Poller,
        SetupPCs, BackoffPCs, MessagePCs, ClosePCs, StatusPCs, DestroyPCs, flags, local, delivery
<1>1. CASE Setup(Owner)
  BY <1>1, OwnerReturns DEF Setup, SetupBegin, SetupSucceeds, SetupFails, SetupDone
<1>2. CASE Backoff(Owner)
  BY <1>2, OwnerReturns, OuterCallPushes
  DEF Backoff, BackoffClosed, BackoffSleeps, BackoffWoken, BackoffTries, BackoffSucceeds, BackoffAgain, BackoffGivesUp
<1>3. CASE Message(Owner)
  <2>1. CASE MessageRead(Owner)
    BY <2>1 DEF MessageRead
  <2>2. CASE ~MessageRead(Owner)
    <3>1. Return(Owner, pc[Owner]) /\ pc[Owner] \in MessagePCs /\ signalled' = signalled
      BY <1>3, <2>2 DEF Message, MessageSkipped, ReadSucceeds, ReadFails, ReadThrows, Return
    <3>2. pc'[Owner] = "close_read" /\ stack'[Owner] = <<"re_join">> /\ Others(Owner)
      BY <3>1, ReturnPops
    <3> QED BY <3>1, <3>2
  <2> QED BY <2>1, <2>2
<1>4. CASE BackoffTimeout(Owner)
  BY <1>4 DEF BackoffTimeout
<1>5. CASE Close
  BY <1>5, ReturnPops, CallPushes
  DEF Close, CloseAlive, CloseRunning, CloseSignal, CloseShutdown, ShutdownDone, CloseWithoutShutdown
<1>6. CASE ReEstablish
  BY <1>6, OuterCallPushes
  DEF ReEstablish, ReEstablishJoined, ReEstablishArm, ReEstablishReset, ReEstablishRetries, ReEstablishGivesUp,
      ReEstablishStarts, ReEstablishReturns, TypeOK
<1>7. CASE DestroySignal \/ DestroyJoined
  BY <1>7 DEF DestroySignal, DestroyJoined
<1> QED BY <1>1, <1>2, <1>3, <1>4, <1>5, <1>6, <1>7 DEF OwnerStep

\* The holder's steps keep what the constructor relies on.
LEMMA HolderMoveInv ==
    ASSUME StreamInv, HolderMove
    PROVE  StreamInv'
<1>1. HolderInv'
  BY HolderStepInv DEF StreamInv, HolderMove, AnyStep, Next, OwnerCalls, Outside
<1>2. StreamTypeOK' /\ ClosedHasReason'
  BY <1>1 DEF StreamInv, HolderInv, HolderMove, streamVars, StreamTypeOK, ClosedHasReason
<1>3. CtorInv'
  <2>1. CASE LoopStep \/ BackoffTimeout(Loop)
    BY <2>1, LoopKeepsCtor DEF HolderMove
  <2>2. CASE OwnerStep \/ BackoffTimeout(Owner)
    BY <2>2, OwnerKeepsCtor DEF HolderMove
  <2> USE GotoMoves
      DEF StreamInv, HolderInv, HolderMove, CtorInv, streamVars, Threads, Loop, Owner, Poller, Others,
          MessagePCs, ClosePCs, StatusPCs, DestroyPCs, flags, local, delivery
  <2>3. CASE GetStatus(Owner)
    <3>1. CASE GetStatusClosed(Owner)
      <4>1. pc[Owner] = "status_running" /\ ~running /\ pc'[Owner] = "idle" /\ pc'[Loop] = pc[Loop]
        BY <3>1 DEF GetStatusClosed
      <4>2. ~signalled /\ lastError /\ pc[Loop] = "done"
        BY <4>1 DEF ReasonInv
      <4>3. err'[Owner] = "live" /\ signalled' = signalled
        BY <3>1, <4>2 DEF GetStatusClosed, Tells, Reason, TypeOK, Callers
      <4> QED BY <4>1, <4>2, <4>3
    <3>2. CASE GetStatusWaited(Owner) \/ GetStatusRunning(Owner)
      BY <3>2 DEF GetStatusWaited, GetStatusRunning
    <3>3. CASE GetStatusAlive(Owner)
      BY <3>3 DEF GetStatusAlive, Tells, Returns, TypeOK
    <3> QED BY <2>3, <3>1, <3>2, <3>3 DEF GetStatus
  <2>4. CASE ctor \in {"ready", "deleting"} /\ Destroy
    BY <2>4 DEF Destroy
  <2>5. CASE OutsideStep
    BY <2>5 DEF OutsideStep, getLatestData, OthersTakeParser, OthersGiveParser
  <2> QED BY <2>1, <2>2, <2>3, <2>4, <2>5 DEF HolderMove, Timeout, OutsideStep
<1> QED BY <1>1, <1>2, <1>3 DEF StreamInv

\* The constructor's steps, of a market stream and of a user stream.
LEMMA CtorStepInv ==
    ASSUME StreamInv,
           \/ Constructor \/ ReEstablished
           \/ \E from, to : /\ <<from, to>> \in {<<"fetch", "key">>, <<"key", "keyless">>, <<"key", "new">>,
                                                 <<"ready", "deleting">>, <<"keyless", "gone">>}
                            /\ CtorGoto(from, to)
                            /\ reason' \in {reason, "live"} /\ initialising' \in BOOLEAN
                            /\ UNCHANGED <<vars, firstErr, connected, lastStatus>>
    PROVE  StreamInv'
<1>0. Owner \in Threads /\ Owner \in Callers
  BY DEF Threads, Callers
<1>1. CASE CtorGetStatus
  <2>1. HolderInv'
    BY <1>1, HolderStepInv DEF CtorGetStatus, StreamInv, AnyStep
  <2>2. pc'[Owner] = "status_wait" /\ stack'[Owner] = stack[Owner] /\ signalled' = signalled
    BY <1>0, <1>1, GotoMoves DEF CtorGetStatus, GetStatusCall, StreamInv, HolderInv
  <2>3. StreamTypeOK' /\ ClosedHasReason'
    BY <1>0, <1>1, <2>1
    DEF CtorGetStatus, CtorGoto, StreamInv, HolderInv, TypeOK, StreamTypeOK, ClosedHasReason
  <2>4. CtorInv'
    BY <1>1, <2>2
    DEF CtorGetStatus, CtorGoto, StreamInv, CtorInv, StatusPCs, DestroyPCs, MessagePCs, ClosePCs
  <2> QED BY <2>1, <2>3, <2>4 DEF StreamInv
<1>2. CASE CtorReEstablishes
  <2>1. HolderInv'
    BY <1>2, HolderStepInv DEF CtorReEstablishes, StreamInv, AnyStep, Next, OwnerCalls
  <2>2. stack[Owner] = <<>>
    BY <1>2
    DEF CtorReEstablishes, CtorGoto, StreamInv, HolderInv, OwnerFrames, SetupPCs, BackoffPCs, MessagePCs, ClosePCs
  <2>3. pc'[Owner] = "close" /\ stack'[Owner] = <<"re_join">> /\ signalled' = signalled /\ pc[Owner] = "idle"
    BY <1>0, <1>2, <2>2, OuterCallPushes DEF CtorReEstablishes, ReEstablishCall, StreamInv, HolderInv
  <2>4. StreamTypeOK' /\ ClosedHasReason'
    BY <1>2, <2>1 DEF CtorReEstablishes, CtorGoto, StreamInv, HolderInv, StreamTypeOK, ClosedHasReason
  <2>5. CtorInv'
    BY <1>2, <2>3 DEF CtorReEstablishes, CtorGoto, StreamInv, CtorInv, MessagePCs, ClosePCs
  <2> QED BY <2>1, <2>4, <2>5 DEF StreamInv
<1>3. CASE UNCHANGED vars
  <2>1. HolderInv'
    BY <1>3, HolderStepInv DEF StreamInv
  <2>2. /\ pc' = pc /\ stack' = stack /\ status' = status /\ err' = err /\ signalled' = signalled
        /\ pc[Owner] = "idle" /\ err[Owner] \in {"null", "live", "freed"}
        /\ status[Owner] \in {"SUCCESS", "FAIL", "CLOSED"}
    BY <1>0, <1>3
    DEF vars, flags, local, delivery, Constructor, CtorGetStatus, CtorConnected, CtorFinishes, CtorClosed, CtorReEstablishes,
        CtorFailsAgain, CtorGivesUp, ReEstablished, CtorGoto, StreamInv, HolderInv, TypeOK
  <2>3. TypeOK'
    BY <2>1 DEF HolderInv
  <2> USE DEF StreamInv, CtorInv, StreamTypeOK, ClosedHasReason, CtorGoto, DestroyPCs, StatusPCs, MessagePCs, ClosePCs
  <2>4. CASE CtorConnected \/ ReEstablished \/ CtorFailsAgain \/ CtorFinishes
    BY <2>1, <2>2, <2>3, <2>4 DEF CtorConnected, ReEstablished, CtorFailsAgain, CtorFinishes
  <2>5. CASE CtorClosed
    BY <2>1, <2>2, <2>3, <2>5 DEF CtorClosed, Adopt
  <2>6. CASE CtorGivesUp
    BY <2>1, <2>2, <2>3, <2>6 DEF CtorGivesUp, Adopt
  <2>7. CASE \E from, to : /\ <<from, to>> \in {<<"fetch", "key">>, <<"key", "keyless">>, <<"key", "new">>,
                                                <<"ready", "deleting">>, <<"keyless", "gone">>}
                           /\ CtorGoto(from, to)
                           /\ reason' \in {reason, "live"} /\ initialising' \in BOOLEAN
                           /\ UNCHANGED <<vars, firstErr, connected, lastStatus>>
    BY <2>1, <2>2, <2>3, <2>7
  <2>8. CASE CtorGetStatus \/ CtorReEstablishes
    BY <1>1, <1>2, <2>8
  <2> QED BY <2>4, <2>5, <2>6, <2>7, <2>8 DEF Constructor
<1> QED BY <1>1, <1>2, <1>3
    DEF Constructor, CtorConnected, CtorFinishes, CtorClosed, CtorFailsAgain, CtorGivesUp, ReEstablished

\* A step of somebody else leaves the stream as it is.
LEMMA StreamStutters ==
    ASSUME StreamInv, UNCHANGED allVars
    PROVE  StreamInv'
<1>1. HolderInv' /\ UNCHANGED vars
  BY HolderStepInv DEF allVars, StreamInv
<1>2. pc' = pc /\ stack' = stack /\ status' = status /\ err' = err /\ signalled' = signalled
  BY <1>1 DEF vars, local
<1>3. StreamTypeOK' /\ ClosedHasReason'
  BY <1>1 DEF allVars, streamVars, StreamInv, HolderInv, StreamTypeOK, ClosedHasReason
<1>4. CtorInv'
  BY <1>2 DEF allVars, streamVars, StreamInv, CtorInv
<1> QED BY <1>1, <1>3, <1>4 DEF StreamInv

\* What StreamInv says of the outcome.
LEMMA StreamInvImplies == StreamInv => OutcomeIsTrue
BY DEF StreamInv, HolderInv, FlagsInv, CtorInv, OutcomeIsTrue, ConnectedIsServed, DestroyPCs, ReSet, SetupPCs, BackoffPCs

(***************************************************************************)
(* The constructor of TradeEventStream and MarkPriceStream, against the    *)
(* loop thread of the holder it has just made: a stream that comes up      *)
(* CLOSED has copied a reason that was still there, and a running holder   *)
(* has a loop, for any number of attempts.                                 *)
(***************************************************************************)
THEOREM MarketOutcomeIsTrue == StreamSpec => []OutcomeIsTrue
<1>1. StreamInit => StreamInv
  BY StreamInitInv DEF StreamInit
<1>2. StreamInv /\ [StreamNext]_allVars => StreamInv'
  <2> SUFFICES ASSUME StreamInv, [StreamNext]_allVars PROVE StreamInv'
    OBVIOUS
  <2>1. CASE Constructor
    BY <2>1, CtorStepInv
  <2>2. CASE HolderStep
    BY <2>2, HolderMoveInv DEF HolderStep, HolderMove
  <2>3. CASE UNCHANGED allVars
    BY <2>3, StreamStutters
  <2> QED BY <2>1, <2>2, <2>3 DEF StreamNext
<1> QED BY <1>1, <1>2, StreamInvImplies, PTL DEF StreamSpec

-----------------------------------------------------------------------------
(* A user stream: the constructor, and the REST connection of the listen key *)

\* Each step of a user stream is one of its constructor, its holder, or its REST connection.
LEMMA UserStepInv ==
    ASSUME StreamInv, RestInv, [UserNext]_userVars
    PROVE  StreamInv' /\ RestInv'
<1>0. Owner \in Clients
  BY OwnerAssumption
<1>1. CASE UNCHANGED userVars
  BY <1>1, StreamStutters, RestStepInv DEF userVars, RestStep
<1>2. CASE getListenKey
  <2>1. CtorGoto("fetch", "key") /\ UNCHANGED <<vars, firstErr, connected, initialising, lastStatus, reason>>
    BY <1>2 DEF getListenKey
  <2>2. StreamInv'
    BY <2>1, CtorStepInv DEF StreamInv, StreamTypeOK
  <2>3. RestInv'
    BY <1>0, <1>2, RestStepInv DEF getListenKey, RestStep
  <2> QED BY <2>2, <2>3
<1>3. CASE KeyFails \/ KeyEmpty
  <2>1. /\ CtorGoto("key", "keyless") /\ reason' \in {reason, "live"} /\ initialising' \in BOOLEAN
        /\ UNCHANGED <<vars, firstErr, connected, lastStatus>> /\ UNCHANGED restVars
    BY <1>3 DEF KeyFails, KeyEmpty, Keyless
  <2>2. StreamInv'
    BY <2>1, CtorStepInv
  <2>3. RestInv'
    BY <2>1, RestStepInv DEF RestStep
  <2> QED BY <2>2, <2>3
<1>4. CASE KeyFetched
  <2>1. /\ CtorGoto("key", "new")
        /\ UNCHANGED <<vars, restVars, firstErr, connected, initialising, lastStatus, reason>>
    BY <1>4 DEF KeyFetched
  <2>2. StreamInv'
    BY <2>1, CtorStepInv DEF StreamInv, StreamTypeOK
  <2>3. RestInv'
    BY <2>1, RestStepInv DEF RestStep
  <2> QED BY <2>2, <2>3
<1>5. CASE /\ \/ CtorGetStatus \/ (ctor = "first" /\ CtorConnected) \/ ReEstablished \/ CtorFinishes
              \/ CtorClosed \/ CtorReEstablishes \/ CtorFailsAgain \/ CtorGivesUp
           /\ UNCHANGED <<restVars, listenKeyPresent>>
  <2>1. StreamInv'
    BY <1>5, CtorStepInv DEF Constructor
  <2>2. RestInv'
    BY <1>5, RestStepInv DEF RestStep
  <2> QED BY <2>1, <2>2
<1>6. CASE deleteListenKey
  <2>1. /\ CtorGoto("ready", "deleting") \/ CtorGoto("keyless", "gone")
        /\ UNCHANGED <<vars, firstErr, connected, initialising, lastStatus, reason>>
    BY <1>6 DEF deleteListenKey
  <2>2. StreamInv'
    BY <2>1, CtorStepInv DEF StreamInv, StreamTypeOK
  <2>3. RestInv'
    BY <1>0, <1>6, RestStepInv DEF deleteListenKey, RestStep
  <2> QED BY <2>2, <2>3
<1>7. CASE UserHolderStep
  <2>1. HolderMove /\ UNCHANGED restVars
    BY <1>7 DEF UserHolderStep, HolderMove
  <2> QED BY <2>1, HolderMoveInv, RestStepInv DEF RestStep
<1>8. CASE UserRestStep
  BY <1>0, <1>8, StreamStutters, RestStepInv DEF UserRestStep, RestStep
<1> QED BY <1>1, <1>2, <1>3, <1>4, <1>5, <1>6, <1>7, <1>8 DEF UserNext, UserConstructor

\* StreamInv and RestInv hold in every state of a user stream.
LEMMA UserAlways == UserSpec => [](StreamInv /\ RestInv)
<1>1. UserInit => StreamInv /\ RestInv
  BY StreamInitInv, RestInitInv DEF UserInit
<1>2. StreamInv /\ RestInv /\ [UserNext]_userVars => (StreamInv /\ RestInv)'
  BY UserStepInv
<1> QED BY <1>1, <1>2, PTL DEF UserSpec

(***************************************************************************)
(* A user stream that fetched its listen key comes up as a market stream   *)
(* does: the reason of one that is CLOSED is its own, and a running holder *)
(* has a loop until the key is deleted and the members are destroyed.      *)
(***************************************************************************)
THEOREM UserOutcomeIsTrue == UserSpec => []OutcomeIsTrue
BY UserAlways, StreamInvImplies, PTL

(***************************************************************************)
(* The key a user stream fetches, and the answer to its deletion, are the  *)
(* exchange's responses to these very requests.                            *)
(***************************************************************************)
THEOREM UserAnswersItsOwnRequest == UserSpec => []AnswersItsOwnRequest
<1>1. RestInv => AnswersItsOwnRequest
  BY DEF RestInv
<1> QED BY <1>1, UserAlways, PTL
=============================================================================
