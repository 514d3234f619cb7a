-------------------------- MODULE OrderStreamProofs --------------------------
(***************************************************************************)
(* What a request of OrderStream returns is true of it, and an order does  *)
(* not change under a reader, for any number of users, requests, indices   *)
(* and places in the queue of active orders.                               *)
(***************************************************************************)
EXTENDS OrderStream, FiniteSetTheorems, TLAPS

Places == {"idle", "index", "lock", "inside", "status", "wrapper", "updated", "unlock"}

\* Users that have an index of the pool.
Holding == {"lock", "inside", "status", "wrapper", "updated"}
Holders == {u \in Users : at[u] \in Holding}

CallTypes ==
    call \in [kind : Kinds \cup {"none"}, id : 0 .. MaxCalls, accepted : BOOLEAN, status : Statuses \cup {0},
              shape : Shapes \cup {"none"}, result : {"none", "SUCCESS", "FAIL", "UNKNOWN"}]

UserTypes == at \in [Users -> Places] /\ on \in [Users -> 0 .. MaxCalls] /\ goal \in [Users -> {"read", "update"}]

\* Indices are given back, not made up.
IndicesInv == indices \in Nat /\ indices + Cardinality(Holders) <= POOL

\* A request that generates an id has the newest one, which no user can have heard of yet.
FreshInv ==
    /\ requestId <= calls /\ call.id <= calls
    /\ call.kind \in {"new", "account"} => call.id = calls /\ calls > 0
    /\ \A u \in Users : on[u] <= calls
    /\ pc # "idle" /\ call.kind \in {"new", "account"} =>
            \A u \in Users : at[u] # "idle" => on[u] # call.id

(***************************************************************************)
(* Where the sender is and what is known of its request there: the answer  *)
(* of a new order is the one its status is looked up in, since nobody else *)
(* writes that entry before the call has returned.                         *)
(***************************************************************************)
SenderInv ==
    /\ pc # "idle" => call.result = "none" /\ call.kind # "none"
    /\ pc \in {"write", "read"} => call.shape = "none"
    /\ pc \in {"register", "account", "status", "queue"} =>
            (call.status = 200 <=> call.accepted) /\ call.status \in Statuses /\ call.shape \in Shapes
    /\ pc = "register" => call.kind = "new"
    /\ pc = "account" => call.kind = "account"
    /\ pc \in {"status", "queue"} => call.kind # "account"
    /\ pc \in {"status", "queue"} /\ call.kind = "new" =>
            /\ call.id \in DOMAIN orders
            /\ call.shape = "full" \/ (call.shape \in {"partial", "broken"} /\ call.status = 200)
    /\ pc = "status" /\ call.kind = "new" => orders[call.id].status = call.status
    /\ pc = "queue" /\ call.kind = "new" => call.status = 200

\* A user works on an order of the map, and inside it has the order's lock.
AccessInv ==
    \A u \in Users :
        /\ at[u] # "idle" => on[u] \in DOMAIN orders
        /\ at[u] \in {"inside", "status", "wrapper", "updated", "unlock"} => orderLock[on[u]] = u

OrderInv ==
    /\ TypeOK /\ CallTypes /\ UserTypes /\ IndicesInv
    /\ FreshInv /\ SenderInv /\ AccessInv
    /\ SuccessIsReal /\ FreshIdJudgesItself

\* Only 200 counts as success, and 400 is not unknown.
LEMMA ClassifySuccess ==
    ASSUME NEW status \in Statuses \cup {0}
    PROVE  /\ Classify(status) \in {"SUCCESS", "FAIL", "UNKNOWN"}
           /\ Classify(status) = "SUCCESS" <=> status = 200
           /\ Classify(status) = "UNKNOWN" => status \in {0, 500}
BY DEF Classify, Statuses

\* An entry that is added or replaced leaves the others alone.
LEMMA WithEntry ==
    ASSUME NEW f, NEW x, NEW v
    PROVE  /\ DOMAIN With(f, x, v) = DOMAIN f \cup {x}
           /\ With(f, x, v)[x] = v
           /\ \A y \in DOMAIN f : y # x => With(f, x, v)[y] = f[y]
BY DEF With

\* An order stream that has sent nothing.
LEMMA InitInv == Init => OrderInv
<1> SUFFICES ASSUME Init PROVE OrderInv
  OBVIOUS
<1> USE SizeAssumption, BoundAssumption, UsersAssumption DEF Init
<1>1. TypeOK
  BY DEF TypeOK
<1>2. CallTypes /\ UserTypes
  BY DEF CallTypes, UserTypes, Places
<1>3. IndicesInv
  <2>1. Holders = {}
    BY DEF Holders, Holding
  <2> QED BY <2>1, FS_EmptySet DEF IndicesInv
<1>4. FreshInv /\ SenderInv /\ AccessInv /\ SuccessIsReal /\ FreshIdJudgesItself
  BY DEF FreshInv, SenderInv, AccessInv, SuccessIsReal, FreshIdJudgesItself
<1> QED BY <1>1, <1>2, <1>3, <1>4 DEF OrderInv

\* The sender's steps leave the users and the pool alone; the map only grows, and not where a user is.
LEMMA SenderKeepsUsers ==
    ASSUME OrderInv, (\E kind \in Kinds : Send(kind)) \/ SenderStep \/ getLastOrderId
    PROVE  /\ UserTypes' /\ IndicesInv' /\ AccessInv'
           /\ \A u \in Users : at[u] = "inside" => orders'[on[u]] = orders[on[u]]
<1>1. /\ at' = at /\ on' = on /\ goal' = goal /\ indices' = indices /\ orderLock' = orderLock
      /\ \/ orders' = orders
         \/ \E v : orders' = With(orders, call.id, v) /\ pc # "idle" /\ call.kind \in {"new", "account"}
  BY DEF OrderInv, SenderInv, Send, SenderStep, Written, Answered, sendRequestFails, registerOrderSent,
         AccountAnswered, getOrderStatusint, queueActiveOrderId, NoOrderId, getLastOrderId, tracker, locks, users
<1>2. \A u \in Users : at[u] # "idle" => on[u] \in DOMAIN orders' /\ orders'[on[u]] = orders[on[u]]
  <2> SUFFICES ASSUME NEW u \in Users, at[u] # "idle"
               PROVE  on[u] \in DOMAIN orders' /\ orders'[on[u]] = orders[on[u]]
    OBVIOUS
  <2>1. on[u] \in DOMAIN orders
    BY DEF OrderInv, AccessInv
  <2>2. ASSUME NEW v, orders' = With(orders, call.id, v), pc # "idle", call.kind \in {"new", "account"}
        PROVE  on[u] \in DOMAIN orders' /\ orders'[on[u]] = orders[on[u]]
    <3>1. on[u] # call.id
      BY <2>2 DEF OrderInv, FreshInv
    <3> QED BY <2>1, <2>2, <3>1 DEF With
  <2> QED BY <1>1, <2>1, <2>2
<1>3. UserTypes' /\ IndicesInv'
  BY <1>1 DEF OrderInv, UserTypes, IndicesInv, Holders
<1>4. AccessInv'
  BY <1>1, <1>2 DEF OrderInv, AccessInv
<1> QED BY <1>2, <1>3, <1>4

\* The steps of the sender and of whoever takes the ids, for the request and its result.
LEMMA SenderStepInv ==
    ASSUME OrderInv, (\E kind \in Kinds : Send(kind)) \/ SenderStep \/ getLastOrderId
    PROVE  OrderInv'
<1> DEFINE Request == TypeOK /\ CallTypes /\ FreshInv /\ SenderInv /\ SuccessIsReal /\ FreshIdJudgesItself
<1> SUFFICES Request'
  BY SenderKeepsUsers DEF OrderInv
<1> USE SizeAssumption, BoundAssumption
    DEF OrderInv, TypeOK, CallTypes, FreshInv, SenderInv, SuccessIsReal, FreshIdJudgesItself, Return,
        tracker, locks, users
<1>1. ASSUME NEW kind \in Kinds, Send(kind)
      PROVE  Request'
  <2>1. /\ call'.kind = kind /\ call'.id = requestId' /\ call'.shape = "none" /\ call'.result = "none"
        /\ calls' = calls + 1 /\ calls' \in 0 .. MaxCalls /\ pc = "idle" /\ pc' = "write"
        /\ requestId' \in 0 .. MaxCalls /\ requestId' <= calls'
        /\ kind \in {"new", "account"} => requestId' = calls'
    BY <1>1 DEF Send
  <2>2. TypeOK'
    BY <1>1, <2>1 DEF Send
  <2>3. CallTypes'
    BY <1>1, <2>1 DEF Send, Statuses, Shapes
  <2>4. FreshInv'
    BY <1>1, <2>1 DEF Send, UserTypes
  <2>5. SenderInv' /\ SuccessIsReal' /\ FreshIdJudgesItself'
    BY <2>1 DEF Kinds
  <2> QED BY <2>2, <2>3, <2>4, <2>5
<1>2. ASSUME NEW accepted \in BOOLEAN, Written(accepted)
      PROVE  Request'
  BY <1>2 DEF Written
<1>3. ASSUME NEW status \in Statuses, NEW shape \in Shapes, Answered(status, shape)
      PROVE  Request'
  <2>1. /\ call'.kind = call.kind /\ call'.id = call.id /\ call'.accepted = call.accepted
        /\ call'.status = status /\ call'.shape = shape /\ call'.result = call.result
        /\ pc = "read" /\ (status = 200 <=> call.accepted)
    BY <1>3 DEF Answered
  <2>2. pc' = IF call.kind = "new" THEN "register" ELSE IF call.kind = "account" THEN "account" ELSE "status"
    BY <1>3 DEF Answered
  <2>3. TypeOK'
    BY <1>3, <2>1, <2>2 DEF Answered
  <2>4. CallTypes'
    BY <1>3 DEF Answered
  <2>5. FreshInv'
    BY <1>3, <2>1 DEF Answered
  <2>6. SenderInv' /\ SuccessIsReal' /\ FreshIdJudgesItself'
    BY <2>1, <2>2 DEF Kinds
  <2> QED BY <2>3, <2>4, <2>5, <2>6
<1>4. CASE sendRequestFails
  <2>1. /\ call'.kind = call.kind /\ call'.id = call.id /\ call'.shape = "none" /\ call'.result = "FAIL"
        /\ pc \in {"write", "read"} /\ pc' = "idle"
    BY <1>4 DEF sendRequestFails
  <2>2. TypeOK' /\ CallTypes' /\ FreshInv'
    BY <1>4, <2>1 DEF sendRequestFails
  <2>3. SenderInv' /\ SuccessIsReal' /\ FreshIdJudgesItself'
    BY <2>1
  <2> QED BY <2>2, <2>3
<1>5. CASE registerOrderSent
  <2> DEFINE wrapped == call.shape = "full" \/ (call.shape # "nothing" /\ call.status = 200)
  <2>1. PICK v \in Statuses \cup {0} :
            /\ orders' = With(orders, call.id, [status |-> v, wrapper |-> IF wrapped THEN call.status ELSE 0])
            /\ call.shape # "nothing" => v = call.status
    BY <1>5 DEF registerOrderSent, Statuses, Updates
  <2>2. /\ DOMAIN orders' = DOMAIN orders \cup {call.id} /\ call.id \in Ids /\ orders'[call.id].status = v
        /\ \A i \in DOMAIN orders' : orders'[i] \in Entries
    BY <1>5, <2>1 DEF registerOrderSent, With, Ids, Entries
  <2>3. TypeOK' /\ CallTypes'
    BY <1>5, <2>2 DEF registerOrderSent
  <2>4. FreshInv'
    BY <1>5 DEF registerOrderSent
  <2>5. CASE wrapped
    <3>1. call' = call /\ pc = "register" /\ pc' = "status" /\ v = call.status
      BY <1>5, <2>1, <2>5 DEF registerOrderSent
    <3> QED BY <2>2, <2>3, <2>4, <2>5, <3>1 DEF Shapes
  <2>6. CASE ~wrapped
    <3>1. /\ call'.kind = call.kind /\ call'.shape = call.shape /\ call'.accepted = call.accepted
          /\ call'.result = "FAIL" /\ call'.status = call.status /\ pc = "register" /\ pc' = "idle"
      BY <1>5, <2>6 DEF registerOrderSent
    <3>2. call.shape # "full" /\ (call.shape = "partial" => call.status # 200)
      BY <2>6
    <3> QED BY <2>2, <2>3, <2>4, <3>1, <3>2
  <2> QED BY <2>5, <2>6
<1>6. CASE AccountAnswered
  <2>1. /\ pc = "account" /\ pc' = "idle" /\ UNCHANGED <<requestId, typeField, alive, calls, active, locks, users>>
        /\ \/ /\ orders' = orders
              /\ call.shape \in {"full", "partial"} => call.status # 200
           \/ /\ orders' = With(orders, call.id, Entry(200))
              /\ call.status = 200
    BY <1>6 DEF AccountAnswered
  <2>2. /\ call' = [call EXCEPT !.result = call'.result]
        /\ call'.result \in {"SUCCESS", "FAIL", "UNKNOWN"}
        /\ call'.result = "SUCCESS" => call.status = 200
        /\ call.shape \in {"full", "partial"} => call'.result = Classify(call.status)
        /\ call'.result \in {"SUCCESS", "UNKNOWN"} => call.shape \in {"full", "partial"} /\ call'.result = Classify(call.status)
    <3>1. Classify(call.status) \in {"SUCCESS", "FAIL", "UNKNOWN"} /\ (Classify(call.status) = "SUCCESS" <=> call.status = 200)
      BY ClassifySuccess
    <3> QED BY <1>6, <3>1 DEF AccountAnswered
  <2>3. call.id \in Ids /\ call.status \in Statuses \cup {0}
    BY <2>1 DEF Ids
  <2>4. /\ DOMAIN orders' \subseteq Ids /\ DOMAIN orders \subseteq DOMAIN orders'
        /\ \A i \in DOMAIN orders' : orders'[i] \in Entries
        /\ call.shape \in {"full", "partial"} /\ call.status = 200 => call.id \in DOMAIN orders'
    BY <2>1, <2>3 DEF With, Statuses, Entries, Entry
  <2>5. CallTypes' /\ TypeOK'
    BY <2>1, <2>2, <2>4
  <2>6. FreshInv' /\ SenderInv'
    BY <2>1, <2>2
  <2>7. SuccessIsReal' /\ FreshIdJudgesItself'
    <3>1. Classify(call.status) = "SUCCESS" <=> call.status = 200
      BY ClassifySuccess
    <3>2. Classify(call.status) = "UNKNOWN" => call.status = 500
      BY <2>1, ClassifySuccess DEF Statuses
    <3>3. /\ call'.kind = call.kind /\ call'.id = call.id /\ call'.shape = call.shape
          /\ call'.accepted = call.accepted /\ call'.status = call.status
      BY <2>2
    <3> QED BY <2>1, <2>2, <2>4, <3>1, <3>2, <3>3
  <2> QED BY <2>5, <2>6, <2>7
<1>7. CASE getOrderStatusint
  <2> DEFINE st == IF call.id \in DOMAIN orders THEN orders[call.id].status ELSE 0
  <2>1. st \in Statuses \cup {0} /\ pc = "status" /\ orders' = orders
    BY <1>7 DEF getOrderStatusint, Entries
  <2>2. CASE st = 200
    <3>1. call' = call /\ pc' = "queue"
      BY <1>7, <2>2 DEF getOrderStatusint
    <3> QED BY <1>7, <2>1, <2>2, <3>1 DEF getOrderStatusint
  <2>3. CASE st # 200
    <3>1. pc' = "idle" /\ call' = [call EXCEPT !.result = Classify(st)]
      BY <1>7, <2>3 DEF getOrderStatusint
    <3>2. Classify(st) \in {"FAIL", "UNKNOWN"} /\ (Classify(st) = "UNKNOWN" => st \in {0, 500})
      BY <2>1, <2>3, ClassifySuccess
    <3> HIDE DEF st
    <3>3. /\ call'.kind = call.kind /\ call'.id = call.id /\ call'.shape = call.shape
          /\ call'.accepted = call.accepted /\ call'.status = call.status /\ call'.result = Classify(st)
      BY <3>1
    <3>4. TypeOK' /\ CallTypes' /\ FreshInv'
      BY <1>7, <2>1, <3>1, <3>2, <3>3 DEF getOrderStatusint
    <3>5. call.kind = "new" => st = call.status
      BY <2>1 DEF st
    <3>6. FreshIdJudgesItself'
      BY <2>1, <3>1, <3>2, <3>3, <3>5 DEF Statuses
    <3>7. SenderInv' /\ SuccessIsReal'
      BY <3>1, <3>2, <3>3
    <3> QED BY <3>4, <3>6, <3>7
  <2> QED BY <2>2, <2>3
<1>8. CASE queueActiveOrderId
  BY <1>8, ClassifySuccess DEF queueActiveOrderId, HasOrderId
<1>9. CASE NoOrderId
  BY <1>9 DEF NoOrderId, HasOrderId
<1>10. CASE getLastOrderId
  BY <1>10 DEF getLastOrderId
<1> QED BY <1>1, <1>2, <1>3, <1>4, <1>5, <1>6, <1>7, <1>8, <1>9, <1>10 DEF SenderStep

\* The number of users with an index, when one of them moves.
LEMMA HoldersStep ==
    ASSUME UserTypes, NEW u \in Users, NEW to \in Places, at' = [at EXCEPT ![u] = to]
    PROVE  /\ Cardinality(Holders) \in Nat /\ Cardinality(Holders') \in Nat
           /\ (at[u] \in Holding <=> to \in Holding) => Holders' = Holders
           /\ at[u] \notin Holding /\ to \in Holding => Cardinality(Holders') = Cardinality(Holders) + 1
           /\ at[u] \in Holding /\ to \notin Holding => Cardinality(Holders') = Cardinality(Holders) - 1
<1>1. IsFiniteSet(Holders) /\ Cardinality(Holders) \in Nat
  BY UsersAssumption, FS_Subset, FS_CardinalityType DEF Holders
<1>2. (at[u] \in Holding <=> to \in Holding) => Holders' = Holders
  BY DEF Holders, UserTypes
<1>3. at[u] \notin Holding /\ to \in Holding => Holders' = Holders \cup {u} /\ u \notin Holders
  BY DEF Holders, UserTypes
<1>4. at[u] \in Holding /\ to \notin Holding => Holders' = Holders \ {u} /\ u \in Holders
  BY DEF Holders, UserTypes
<1>5. Cardinality(Holders') \in Nat
  <2>1. Holders' \subseteq Users
    BY DEF Holders
  <2> QED BY <2>1, UsersAssumption, FS_Subset, FS_CardinalityType
<1> QED BY <1>1, <1>2, <1>3, <1>4, <1>5, FS_AddElement, FS_RemoveElement

\* A user's step leaves the sender and its request alone, and the entry that the request is judged by.
LEMMA UserKeepsSender ==
    ASSUME OrderInv,
           UNCHANGED <<requestId, pc, call, calls>>,
           DOMAIN orders \subseteq DOMAIN orders',
           \A id \in DOMAIN orders : orders'[id] # orders[id] => \E u \in Users : at[u] # "idle" /\ on[u] = id
    PROVE  CallTypes' /\ SenderInv' /\ SuccessIsReal' /\ FreshIdJudgesItself'
<1>1. pc # "idle" /\ call.kind = "new" /\ call.id \in DOMAIN orders => orders'[call.id] = orders[call.id]
  BY DEF OrderInv, FreshInv
<1>2. CallTypes' /\ SuccessIsReal' /\ FreshIdJudgesItself'
  BY DEF OrderInv, CallTypes, SuccessIsReal, FreshIdJudgesItself
<1>3. SenderInv'
  BY <1>1 DEF OrderInv, SenderInv
<1> QED BY <1>2, <1>3

UserMoves(u) ==
    \/ UserStep(u)
    \/ \E id \in Ids : getOrderPtr(u, id)
    \/ \E id \in Ids, status \in Updates : updateOrderResponse(u, id, status)

\* The steps of a user: its types, the pool, and its own and the other users' access.
LEMMA UserStepAccess ==
    ASSUME OrderInv, NEW u \in Users, UserMoves(u)
    PROVE  /\ TypeOK' /\ UserTypes' /\ IndicesInv' /\ AccessInv' /\ FreshInv'
           /\ UNCHANGED <<requestId, pc, call, calls>>
           /\ DOMAIN orders \subseteq DOMAIN orders'
           /\ \A id \in DOMAIN orders :
                orders'[id] # orders[id] => at[u] \in {"status", "wrapper"} /\ on[u] = id
<1> DEFINE Goal ==
      /\ TypeOK' /\ UserTypes' /\ IndicesInv' /\ AccessInv' /\ FreshInv'
      /\ UNCHANGED <<requestId, pc, call, calls>>
      /\ DOMAIN orders \subseteq DOMAIN orders'
      /\ \A id \in DOMAIN orders :
            orders'[id] # orders[id] => at[u] \in {"status", "wrapper"} /\ on[u] = id
<1>h. Cardinality(Holders) \in Nat
  BY UsersAssumption, FS_Subset, FS_CardinalityType DEF Holders
<1> USE SizeAssumption, BoundAssumption, UsersAssumption
    DEF OrderInv, TypeOK, UserTypes, IndicesInv, AccessInv, FreshInv, GotoUser, tracker, locks, users, Ids
<1>1. ASSUME NEW id \in Ids, getOrderPtr(u, id)
      PROVE  Goal
  <2>1. Holders' = Holders
    BY <1>1, HoldersStep DEF getOrderPtr, Places, Holding
  <2> QED BY <1>1, <2>1 DEF getOrderPtr, Known, Places
<1>2. ASSUME NEW id \in Ids, NEW status \in Updates, updateOrderResponse(u, id, status)
      PROVE  Goal
  <2>1. Holders' = Holders
    BY <1>2, HoldersStep DEF updateOrderResponse, Places, Holding
  <2>2. /\ DOMAIN orders' = DOMAIN orders \cup {id} /\ \A i \in DOMAIN orders : orders'[i] = orders[i]
        /\ \A i \in DOMAIN orders' : orders'[i] \in Entries
    BY <1>2 DEF updateOrderResponse, With, Updates, Statuses, Entries, Entry
  <2> QED BY <1>2, <2>1, <2>2 DEF updateOrderResponse, Known, Places
<1>3. CASE getIndex(u)
  <2>1. Cardinality(Holders') = Cardinality(Holders) + 1
    BY <1>3, HoldersStep DEF getIndex, Places, Holding
  <2> QED BY <1>h, <1>3, <2>1 DEF getIndex, Places
<1>4. CASE lockOrder(u)
  <2>1. Holders' = Holders
    BY <1>4, HoldersStep DEF lockOrder, Places, Holding
  <2> QED BY <1>4, <2>1 DEF lockOrder, Places
<1>5. ASSUME NEW status \in Updates, UpdateStatus(u, status)
      PROVE  Goal
  <2>1. Holders' = Holders
    BY <1>5, HoldersStep DEF UpdateStatus, Places, Holding
  <2>2. status \in Statuses
    BY DEF Updates, Statuses
  <2>3. /\ on[u] \in DOMAIN orders /\ DOMAIN orders' = DOMAIN orders
        /\ \A i \in DOMAIN orders : i # on[u] => orders'[i] = orders[i]
        /\ \A i \in DOMAIN orders : orders'[i] \in Entries
    BY <1>5, <2>2 DEF UpdateStatus, Entries
  <2>4. TypeOK'
    BY <1>5, <2>3 DEF UpdateStatus
  <2>5. UserTypes' /\ IndicesInv' /\ FreshInv'
    BY <1>5, <2>1 DEF UpdateStatus, Places
  <2>6. AccessInv' /\ UNCHANGED <<requestId, pc, call, calls>>
    BY <1>5, <2>3 DEF UpdateStatus
  <2>7. at[u] = "status"
    BY <1>5 DEF UpdateStatus
  <2> QED BY <2>3, <2>4, <2>5, <2>6, <2>7
<1>6. CASE UpdateWrapper(u)
  <2>1. Holders' = Holders
    BY <1>6, HoldersStep DEF UpdateWrapper, Places, Holding
  <2> QED BY <1>6, <2>1 DEF UpdateWrapper, Places, Entries, Entry
<1>7. CASE returnIndex(u)
  <2>1. Cardinality(Holders') = Cardinality(Holders) - 1 /\ Cardinality(Holders') \in Nat
    BY <1>7, HoldersStep DEF returnIndex, Places, Holding
  <2> QED BY <1>h, <1>7, <2>1 DEF returnIndex, Places
<1>8. CASE Unlock(u)
  <2>1. Holders' = Holders
    BY <1>8, HoldersStep DEF Unlock, Places, Holding
  <2> QED BY <1>8, <2>1 DEF Unlock, Places
<1> QED BY <1>1, <1>2, <1>3, <1>4, <1>5, <1>6, <1>7, <1>8 DEF UserMoves, UserStep

\* OrderInv is kept by every step, and no step changes an order that somebody reads.
LEMMA StepInv ==
    ASSUME OrderInv, [Next]_vars
    PROVE  /\ OrderInv'
           /\ \A u \in Users : at[u] = "inside" => orders'[on[u]] = orders[on[u]]
<1>1. CASE (\E kind \in Kinds : Send(kind)) \/ SenderStep \/ getLastOrderId
  BY <1>1, SenderStepInv, SenderKeepsUsers
<1>2. ASSUME NEW u \in Users, UserMoves(u)
      PROVE  /\ OrderInv'
             /\ \A w \in Users : at[w] = "inside" => orders'[on[w]] = orders[on[w]]
  <2>1. /\ TypeOK' /\ UserTypes' /\ IndicesInv' /\ AccessInv' /\ FreshInv'
        /\ UNCHANGED <<requestId, pc, call, calls>>
        /\ DOMAIN orders \subseteq DOMAIN orders'
        /\ \A id \in DOMAIN orders :
              orders'[id] # orders[id] => at[u] \in {"status", "wrapper"} /\ on[u] = id
    BY <1>2, UserStepAccess
  <2>2. CallTypes' /\ SenderInv' /\ SuccessIsReal' /\ FreshIdJudgesItself'
    BY <2>1, UserKeepsSender
  <2>3. ASSUME NEW w \in Users, at[w] = "inside"
        PROVE  orders'[on[w]] = orders[on[w]]
    <3>1. on[w] \in DOMAIN orders /\ orderLock[on[w]] = w
      BY <2>3 DEF OrderInv, AccessInv
    <3>2. at[u] \in {"status", "wrapper"} => orderLock[on[u]] = u
      BY DEF OrderInv, AccessInv
    <3> QED BY <2>1, <2>3, <3>1, <3>2
  <2> QED BY <2>1, <2>2, <2>3 DEF OrderInv
<1>3. CASE UNCHANGED vars
  BY <1>3
  DEF vars, tracker, locks, users, OrderInv, TypeOK, CallTypes, UserTypes, IndicesInv, Holders, FreshInv, SenderInv,
      AccessInv, SuccessIsReal, FreshIdJudgesItself
<1> QED BY <1>1, <1>2, <1>3 DEF Next, UserMoves

\* OrderInv holds in every state.
LEMMA Always == Spec => []OrderInv
BY InitInv, StepInv, PTL DEF Spec

(***************************************************************************)
(* sendOrder, modifyOrder, cancelOrder and the account request: SUCCESS is *)
(* returned only for what the exchange accepted, and a request with an id  *)
(* of its own is judged by its own answer, whole or half read, however     *)
(* many threads read and update the tracker meanwhile.                     *)
(***************************************************************************)
THEOREM SenderResultIsTrue == Spec => []ResultIsTrue
<1>1. OrderInv => ResultIsTrue
  BY DEF OrderInv, ResultIsTrue
<1> QED BY <1>1, Always, PTL

(***************************************************************************)
(* OrderAccess: while a reader has an order, no registration and no update *)
(* of another thread changes it.                                           *)
(***************************************************************************)
THEOREM ReadersSeeOneVersion == Spec => StableWhileAccessed
<1>1. OrderInv /\ [Next]_vars =>
        [\A u \in Users : at[u] = "inside" => orders'[on[u]] = orders[on[u]]]_vars
  BY StepInv
<1> QED BY <1>1, Always, PTL DEF Spec, StableWhileAccessed
=============================================================================
