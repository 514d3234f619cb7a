----------------------------- MODULE OrderStream -----------------------------
(***************************************************************************)
(* APIManager::Futures::OrderStream on its websocket API connection, with  *)
(* the OrderTracker it fills.  One thread sends, one request at a time;    *)
(* others read and update tracked orders, and take the ids of active ones. *)
(*                                                                         *)
(* The exchange accepts or refuses a request, and its answer may be lost   *)
(* with the connection or not parse.  An answer is its status and how much *)
(* of it can be read: "full"; "partial" (some field cannot, but the status *)
(* and the order id can, as often as they are looked up); "broken" (the    *)
(* status of an accepted one can, what is looked up after the fields       *)
(* cannot); or "nothing" (neither the status nor an order id).  The fields *)
(* of an accepted answer are read by a parseFields that drops its          *)
(* exceptions: the object is then half filled, and nobody is told.  Which  *)
(* fields of an object are filled is not distinguished.                    *)
(***************************************************************************)
EXTENDS Integers, FiniteSets

CONSTANTS
    Users,      \* threads that read and update tracked orders
    QUEUE,      \* places in activeOrders
    POOL,       \* indices of the access pool
    MaxCalls,   \* bound: requests sent
    MaxAccesses \* bound: accesses by users

ASSUME SizeAssumption == QUEUE \in Nat \ {0} /\ POOL \in Nat \ {0}
ASSUME BoundAssumption == MaxCalls \in Nat /\ MaxAccesses \in Nat

Statuses == {200, 400, 500}
Updates  == {200, 400}           \* statuses of an answer that updates an order
Shapes   == {"full", "partial", "broken", "nothing"}
Kinds    == {"new", "modify", "cancel", "account"}   \* a query is handled as a cancel is
Free     == "free"

ASSUME UsersAssumption == IsFiniteSet(Users) /\ Free \notin Users

VARIABLES
    requestId,  \* of the last request that generated one; 0 is the empty string
    typeField,  \* placeOrder.type.requestField
    alive,      \* connectionStatus == SUCCESS; a break is noticed by the request that meets it
    pc, call,   \* the sender and its request, the last one when it is idle
    calls,
    orders,     \* the map: request id -> status, and the status its wrapper was parsed from, 0 without one
    active,     \* how many ids activeOrders holds
    mapLock, orderLock, indices,
    at, on, goal,   \* where each user is, on which order and what for
    accesses

tracker == <<orders, active>>
locks == <<mapLock, orderLock, indices>>
users == <<at, on, goal, accesses>>
vars == <<requestId, typeField, alive, pc, call, calls, tracker, locks, users>>

Ids == 1 .. MaxCalls

Entries  == [status : Statuses \cup {0}, wrapper : Statuses \cup {0}]
Entry(status) == [status |-> status, wrapper |-> status]

With(f, x, v) == [y \in DOMAIN f \cup {x} |-> IF y = x THEN v ELSE f[y]]

\* The constructor connected, at once or after backing off, or did not.
Init ==
    /\ requestId = 0 /\ typeField = "type"
    /\ alive \in BOOLEAN
    /\ pc = "idle" /\ calls = 0
    /\ call = [kind |-> "none", id |-> 0, accepted |-> FALSE, status |-> 0, shape |-> "none", result |-> "none"]
    /\ orders = [i \in {} |-> 0] /\ active = 0
    /\ mapLock = Free /\ orderLock = [i \in Ids |-> Free]
    /\ indices \in 1 .. POOL      \* the others are held for good
    /\ at = [u \in Users |-> "idle"] /\ on = [u \in Users |-> 0] /\ goal = [u \in Users |-> "read"]
    /\ accesses = 0

-----------------------------------------------------------------------------
(* The sender *)

Return(result) ==
    /\ pc' = "idle"
    /\ call' = [call EXCEPT !.result = result]

Classify(status) ==
    CASE status = 200        -> "SUCCESS"
      [] status \div 100 = 4 -> "FAIL"
      [] OTHER               -> "UNKNOWN"

\* generateID for new orders and account requests; the others take the last one.
\* prepareOrder for a modify renames the field of the order type.
Send(kind) ==
    /\ pc = "idle" /\ calls < MaxCalls
    /\ calls' = calls + 1
    /\ requestId' = IF kind \in {"new", "account"} THEN calls' ELSE requestId
    /\ typeField' = IF kind = "modify" THEN "origType" ELSE typeField
    /\ call' = [kind |-> kind, id |-> requestId', accepted |-> FALSE,
                status |-> 0, shape |-> "none", result |-> "none"]
    /\ pc' = "write"
    /\ UNCHANGED <<alive, tracker, locks, users>>

\* What the exchange can accept: a payload with all its parameters.
Acceptable == call.id # 0 /\ (call.kind = "new" => typeField = "type")

Written(accepted) ==
    /\ pc = "write" /\ alive
    /\ accepted => Acceptable
    /\ call' = [call EXCEPT !.accepted = accepted]
    /\ pc' = "read"
    /\ UNCHANGED <<requestId, typeField, alive, calls, tracker, locks, users>>

\* write or read fails; nothing connects again.
sendRequestFails ==
    /\ pc \in {"write", "read"}
    /\ alive' = FALSE
    /\ Return("FAIL")
    /\ UNCHANGED <<requestId, typeField, calls, tracker, locks, users>>

Answered(status, shape) ==
    /\ pc = "read" /\ alive
    /\ status = 200 <=> call.accepted
    /\ shape = "broken" => status = 200
    /\ call' = [call EXCEPT !.status = status, !.shape = shape]
    /\ pc' = CASE call.kind = "new"     -> "register"
               [] call.kind = "account" -> "account"
               [] OTHER                 -> "status"
    /\ UNCHANGED <<requestId, typeField, alive, calls, tracker, locks, users>>

\* The order is in the map before its answer is parsed; a status that is not there
\* leaves the member as it was allocated, 0 for any odd value.  Of a refusal, the error must parse.
registerOrderSent ==
    LET wrapped == call.shape = "full" \/ (call.shape # "nothing" /\ call.status = 200)
    IN  /\ pc = "register" /\ mapLock = Free
        /\ \E status \in IF call.shape = "nothing" THEN Updates \cup {0} ELSE {call.status} :
              orders' = With(orders, call.id,
                             [status |-> status, wrapper |-> IF wrapped THEN call.status ELSE 0])
        /\ IF wrapped THEN pc' = "status" /\ UNCHANGED call ELSE Return("FAIL")
        /\ UNCHANGED <<requestId, typeField, alive, calls, active, locks, users>>

\* Mutation: the account request is judged by the tracker, like the others.
AccountAnswered_ByTracker ==
    /\ pc = "account" /\ mapLock = Free
    /\ Return(IF call.id \in DOMAIN orders THEN Classify(orders[call.id].status) ELSE Classify(0))
    /\ UNCHANGED <<requestId, typeField, alive, calls, tracker, locks, users>>

\* Order's constructor looks the status up again behind the fields, before the map has the order.
AccountAnswered ==
    /\ pc = "account"
    /\ \/ /\ call.shape \in {"full", "partial"} /\ call.status # 200
          /\ Return(Classify(call.status))
          /\ UNCHANGED orders
       \/ /\ call.shape \in {"full", "partial"} /\ call.status = 200
          /\ mapLock = Free
          /\ orders' = With(orders, call.id, Entry(200))
          /\ Return("SUCCESS")
       \/ /\ call.shape \in {"broken", "nothing"}
          /\ Return("FAIL")
          /\ UNCHANGED orders
    /\ UNCHANGED <<requestId, typeField, alive, calls, active, locks, users>>

\* The status of the tracked order with this request id, whoever's answer that was.
getOrderStatusint ==
    LET status == IF call.id \in DOMAIN orders THEN orders[call.id].status ELSE 0
    IN  /\ pc = "status" /\ mapLock = Free
        /\ IF status = 200 THEN pc' = "queue" /\ UNCHANGED call ELSE Return(Classify(status))
        /\ UNCHANGED <<requestId, typeField, alive, calls, tracker, locks, users>>

HasOrderId == call.status = 200 /\ call.shape \in {"full", "partial"}

\* Mutation: the id of the caller is queued, not the one in the answer.
queueActiveOrderId_NoLookup ==
    /\ pc = "queue"
    /\ active < QUEUE
    /\ active' = active + 1
    /\ Return("SUCCESS")
    /\ UNCHANGED <<requestId, typeField, alive, calls, orders, locks, users>>

queueActiveOrderId ==
    /\ pc = "queue" /\ HasOrderId
    /\ active < QUEUE
    /\ active' = active + 1
    /\ Return("SUCCESS")
    /\ UNCHANGED <<requestId, typeField, alive, calls, orders, locks, users>>

NoOrderId ==
    /\ pc = "queue" /\ ~HasOrderId
    /\ Return("FAIL")
    /\ UNCHANGED <<requestId, typeField, alive, calls, tracker, locks, users>>

getLastOrderId ==
    /\ active > 0
    /\ active' = active - 1
    /\ UNCHANGED <<requestId, typeField, alive, pc, call, calls, orders, locks, users>>

-----------------------------------------------------------------------------
(* Users: an OrderAccess, or updateOrderResponse, of an order whose id a send returned. *)

Known(id) == id <= calls /\ (pc # "idle" /\ call.kind \in {"new", "account"} => id # call.id)

GotoUser(u, from, to) ==
    /\ at[u] = from
    /\ at' = [at EXCEPT ![u] = to]

getOrderPtr(u, id) ==
    /\ GotoUser(u, "idle", "index")
    /\ accesses < MaxAccesses /\ accesses' = accesses + 1
    /\ mapLock = Free /\ mapLock' = u
    /\ Known(id) /\ id \in DOMAIN orders
    /\ on' = [on EXCEPT ![u] = id] /\ goal' = [goal EXCEPT ![u] = "read"]
    /\ UNCHANGED <<requestId, typeField, alive, pc, call, calls, tracker, orderLock, indices>>

updateOrderResponse(u, id, status) ==
    /\ GotoUser(u, "idle", "index")
    /\ accesses < MaxAccesses /\ accesses' = accesses + 1
    /\ mapLock = Free /\ mapLock' = u
    /\ Known(id)
    /\ orders' = IF id \in DOMAIN orders THEN orders
                 ELSE With(orders, id, Entry(status))
    /\ on' = [on EXCEPT ![u] = id] /\ goal' = [goal EXCEPT ![u] = "update"]
    /\ UNCHANGED <<requestId, typeField, alive, pc, call, calls, active, orderLock, indices>>

getIndex(u) ==
    /\ GotoUser(u, "index", "lock")
    /\ indices > 0 /\ indices' = indices - 1
    /\ UNCHANGED <<requestId, typeField, alive, pc, call, calls, tracker, mapLock, orderLock, on, goal, accesses>>

\* Mutation: the order is not locked.
lockOrder_NoWait(u) ==
    /\ GotoUser(u, "lock", IF goal[u] = "read" THEN "inside" ELSE "status")
    /\ mapLock' = IF goal[u] = "read" THEN Free ELSE mapLock
    /\ UNCHANGED <<requestId, typeField, alive, pc, call, calls, tracker, orderLock, indices, on, goal, accesses>>

\* A reader leaves the map; an update keeps it locked.
lockOrder(u) ==
    /\ GotoUser(u, "lock", IF goal[u] = "read" THEN "inside" ELSE "status")
    /\ orderLock[on[u]] = Free
    /\ orderLock' = [orderLock EXCEPT ![on[u]] = u]
    /\ mapLock' = IF goal[u] = "read" THEN Free ELSE mapLock
    /\ UNCHANGED <<requestId, typeField, alive, pc, call, calls, tracker, indices, on, goal, accesses>>

\* registerResponse, as one that has access sees it: the status, then the wrapper.
UpdateStatus(u, status) ==
    /\ GotoUser(u, "status", "wrapper")
    /\ orders' = [orders EXCEPT ![on[u]].status = status]
    /\ UNCHANGED <<requestId, typeField, alive, pc, call, calls, active, locks, on, goal, accesses>>

UpdateWrapper(u) ==
    /\ GotoUser(u, "wrapper", "updated")
    /\ orders' = [orders EXCEPT ![on[u]] = Entry(@.status)]
    /\ UNCHANGED <<requestId, typeField, alive, pc, call, calls, active, locks, on, goal, accesses>>


\* The end of an access: a reader has read, an update is done or its answer did not parse.
returnIndex(u) ==
    /\ at[u] \in {"inside", "status", "wrapper", "updated"}
    /\ at' = [at EXCEPT ![u] = "unlock"]
    /\ indices' = indices + 1
    /\ UNCHANGED <<requestId, typeField, alive, pc, call, calls, tracker, mapLock, orderLock, on, goal, accesses>>

Unlock(u) ==
    /\ GotoUser(u, "unlock", "idle")
    /\ orderLock' = [orderLock EXCEPT ![on[u]] = Free]
    /\ mapLock' = IF mapLock = u THEN Free ELSE mapLock
    /\ on' = [on EXCEPT ![u] = 0] /\ goal' = [goal EXCEPT ![u] = "read"]
    /\ UNCHANGED <<requestId, typeField, alive, pc, call, calls, tracker, indices, accesses>>

-----------------------------------------------------------------------------
SenderStep ==
    \/ \E accepted \in BOOLEAN : Written(accepted)
    \/ \E status \in Statuses, shape \in Shapes : Answered(status, shape)
    \/ sendRequestFails
    \/ registerOrderSent \/ AccountAnswered \/ getOrderStatusint
    \/ queueActiveOrderId \/ NoOrderId

UserStep(u) ==
    \/ getIndex(u) \/ lockOrder(u) \/ (\E status \in Updates : UpdateStatus(u, status))
    \/ UpdateWrapper(u) \/ returnIndex(u) \/ Unlock(u)

Next ==
    \/ \E kind \in Kinds : Send(kind)
    \/ SenderStep
    \/ getLastOrderId
    \/ \E u \in Users : \/ UserStep(u)
                        \/ \E id \in Ids : getOrderPtr(u, id)
                        \/ \E id \in Ids, status \in Updates : updateOrderResponse(u, id, status)

Spec == Init /\ [][Next]_vars

(***************************************************************************)
(* Threads that are inside a call run, somebody takes the ids, and the     *)
(* exchange answers or the connection breaks: the read has no deadline.    *)
(* The spinlocks are unfair, so the number of accesses is bounded.         *)
(***************************************************************************)
FairSpec ==
    /\ Spec
    /\ WF_vars(SenderStep) /\ WF_vars(getLastOrderId)
    /\ \A u \in Users : WF_vars(UserStep(u))

-----------------------------------------------------------------------------
(* Properties *)

\* Type correctness: activeOrders and the index pool stay within their sizes, and the map only has ids that were sent.
TypeOK ==
    /\ requestId \in 0 .. MaxCalls /\ typeField \in {"type", "origType"}
    /\ alive \in BOOLEAN
    /\ pc \in {"idle", "write", "read", "register", "account", "status", "queue"}
    /\ call.result \in {"none", "SUCCESS", "FAIL", "UNKNOWN"}
    /\ calls \in 0 .. MaxCalls
    /\ DOMAIN orders \subseteq Ids
    /\ \A i \in DOMAIN orders : orders[i] \in Entries
    /\ active \in 0 .. QUEUE /\ indices \in 0 .. POOL
    /\ mapLock \in Users \cup {Free} /\ orderLock \in [Ids -> Users \cup {Free}]

(***************************************************************************)
(* SUCCESS is only returned for a request that the exchange has accepted,  *)
(* although modify, cancel and query take their status from the answer to  *)
(* an earlier request: the order id they look up in their own answer is    *)
(* what keeps a refused one from being reported as done.                   *)
(***************************************************************************)
SuccessIsReal == call.result = "SUCCESS" => call.accepted

(***************************************************************************)
(* A new order and an account request generate their own id and are judged *)
(* by their own answer: what is returned is its status when all of it can  *)
(* be read, and SUCCESS as soon as the status of an accepted one and the   *)
(* order id can, although other fields are missing.  What is returned as a *)
(* success is in the tracker, its fields perhaps half filled; FAIL is also *)
(* what is returned for an answer that cannot be read, accepted or not.    *)
(***************************************************************************)
FreshIdJudgesItself ==
    pc = "idle" /\ call.kind \in {"new", "account"} =>
        /\ call.shape = "full" \/ (call.shape = "partial" /\ call.accepted) => call.result = Classify(call.status)
        /\ call.result = "SUCCESS" => call.id \in DOMAIN orders
        /\ call.result = "UNKNOWN" => call.status = 500

(***************************************************************************)
(* What a request returns is true of it, although its status is looked up  *)
(* in a tracker that other requests and other threads write.               *)
(***************************************************************************)
ResultIsTrue == TypeOK /\ SuccessIsReal /\ FreshIdJudgesItself

(***************************************************************************)
(* Nothing in an order changes while a reader has access to it, whatever   *)
(* answers are registered and updated meanwhile: a reader sees the fields  *)
(* of one version.                                                         *)
(***************************************************************************)
StableWhileAccessed ==
    [][\A u \in Users : at[u] = "inside" => orders'[on[u]] = orders[on[u]]]_vars


(***************************************************************************)
(* What orderStream.hpp:125 says of a request's result, it "returns false  *)
(* if it has not been registered", and line 127, that "A new order id is   *)
(* created for each request": a request the exchange accepts and answers   *)
(* is then not reported as failed.  Modify, cancel and query keep the id   *)
(* of the last new order or account request and are judged by the answer   *)
(* to that one.                                                            *)
(***************************************************************************)
AcceptedIsSuccess ==
    pc = "idle" /\ call.accepted /\ call.shape = "full" => call.result = "SUCCESS"
=============================================================================
