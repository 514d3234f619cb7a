----------------------------- MODULE RawWebsocket -----------------------------
(***************************************************************************)
(* AstraConnect::RawWebsocket: one I/O thread runs the handlers of an      *)
(* io_context, and users connect, send and close from other threads or     *)
(* from inside its callbacks.                                              *)
(*                                                                         *)
(* An asynchronous operation is outstanding until it completes; its        *)
(* handler then waits in `ready` for the I/O thread.  Closing the socket   *)
(* or cancelling a timer makes what is still outstanding fail, but not     *)
(* what has completed and is only waiting for its handler to run.  DNS,    *)
(* TCP, TLS and the websocket protocol are external: an operation succeeds *)
(* or fails, and on a closed socket it fails.                              *)
(***************************************************************************)
EXTENDS Integers, Sequences, FiniteSets, SequencesExt

CONSTANTS
    Users,      \* threads that use the connection
    Owner,      \* the one that calls connect()
    MaxTexts    \* bound: calls of sendText that find the connection open, refused ones apart

ASSUME OwnerAssumption == Owner \in Users
ASSUME UsersAssumption == IsFiniteSet(Users)
ASSUME TextsAssumption == MaxTexts \in Nat

IO == "io"      \* the I/O thread, as a user inside a callback

VARIABLES
    open, connecting, closeCalled, closeReported,
    setupError, setupTimedOut,
    stage,      \* the step of the setup that is outstanding or was last
    socket,     \* socket().is_open()
    pending,    \* outstanding operations and timers, writes apart
    flight,     \* texts of the outstanding async_writes
    ready,      \* completed operations and posted functions, in the order they run
    writeQueue,
    io,         \* where the I/O thread is
    pc,         \* where each thread is in sendText() or close()
    joinLock,   \* who has the spinlock, or IO for nobody
    posted,     \* history: texts posted, numbered in that order
    wire,       \* history: texts written to the socket
    onCloses    \* history: calls of handlers.onClose

flags == <<open, connecting, closeCalled, closeReported>>
setup == <<setupError, setupTimedOut, stage>>
user  == <<pc, joinLock, posted>>
vars  == <<flags, setup, socket, pending, flight, ready, writeQueue, io, user, wire, onCloses>>

Handler(op, ok) == [op |-> op, ok |-> ok, text |-> 0]

\* connect() has called startSetup and started the I/O thread.
Init ==
    /\ open = FALSE /\ connecting = TRUE /\ closeCalled = FALSE /\ closeReported = FALSE
    /\ setupError = FALSE /\ setupTimedOut = FALSE /\ stage = "resolve"
    /\ socket = FALSE
    /\ pending = {"setup", "setupTimer"}
    /\ flight = <<>> /\ ready = <<>> /\ writeQueue = <<>>
    /\ io = "run"
    /\ pc = [u \in Users \cup {IO} |-> IF u = Owner THEN "connecting" ELSE "idle"]
    /\ joinLock = IO
    /\ posted = 0 /\ wire = <<>> /\ onCloses = 0

-----------------------------------------------------------------------------
(* The network and the clock complete what is outstanding. *)

Reachable(op) ==
    CASE op \in {"setupTimer", "closeTimer"} -> TRUE
      [] op = "setup" /\ stage = "resolve"   -> ~setupTimedOut
      [] OTHER                               -> socket

Completes(op, ok) ==
    /\ op \in pending
    /\ ok => Reachable(op)
    /\ op \in {"setupTimer", "closeTimer"} => ok
    /\ pending' = pending \ {op}
    /\ ready' = Append(ready, Handler(op, ok))
    /\ UNCHANGED <<flags, setup, socket, flight, writeQueue, io, user, wire, onCloses>>

WriteCompletes(ok) ==
    /\ flight # <<>>
    /\ ok => socket
    /\ flight' = Tail(flight)
    /\ wire' = IF ok THEN Append(wire, Head(flight)) ELSE wire
    /\ ready' = Append(ready, Handler("write", ok))
    /\ UNCHANGED <<flags, setup, socket, pending, writeQueue, io, user, onCloses>>

-----------------------------------------------------------------------------
(* Handlers: the I/O thread takes the next one and runs it. *)

Runs(op, ok) ==
    /\ io = "run"
    /\ ready # <<>>
    /\ Head(ready).op = op
    /\ Head(ready).ok = ok

\* timer.cancel(), run by a handler: an outstanding timer fails.
Cancel(timer) ==
    /\ ready' = IF timer \in pending THEN Append(Tail(ready), Handler(timer, FALSE)) ELSE Tail(ready)
    /\ pending' = pending \ {timer}

\* Mutation: the deadline leaves the socket as it is.
SetupDeadline_KeepsSocket ==
    /\ Runs("setupTimer", TRUE)
    /\ ready' = Tail(ready)
    /\ setupTimedOut' = TRUE
    /\ UNCHANGED <<flags, setupError, stage, socket, pending, flight, writeQueue, io, user, wire, onCloses>>

\* It cancels the lookup, see Reachable, and closes the socket.
SetupDeadline ==
    /\ Runs("setupTimer", TRUE)
    /\ ready' = Tail(ready)
    /\ setupTimedOut' = TRUE
    /\ socket' = FALSE
    /\ UNCHANGED <<flags, setupError, stage, pending, flight, writeQueue, io, user, wire, onCloses>>

TimerCancelled ==
    /\ Runs("setupTimer", FALSE) \/ Runs("closeTimer", FALSE)
    /\ ready' = Tail(ready)
    /\ UNCHANGED <<flags, setup, socket, pending, flight, writeQueue, io, user, wire, onCloses>>

\* resolve -> connect -> TLS -> websocket handshake.  async_connect opens a socket.
SetupContinues ==
    /\ Runs("setup", TRUE)
    /\ \/ stage = "resolve" /\ stage' = "connect" /\ socket' = TRUE
       \/ stage = "connect" /\ stage' = "tls" /\ UNCHANGED socket
       \/ stage = "tls" /\ stage' = "handshake" /\ UNCHANGED socket
    /\ ready' = Tail(ready)
    /\ pending' = pending \cup {"setup"}
    /\ UNCHANGED <<flags, setupError, setupTimedOut, flight, writeQueue, io, user, wire, onCloses>>

\* Mutation: the first read is not started.
finishSetup_NoRead ==
    /\ Runs("setup", TRUE)
    /\ stage = "handshake"
    /\ stage' = "done"
    /\ open' = TRUE
    /\ connecting' = FALSE
    /\ Cancel("setupTimer")
    /\ UNCHANGED <<closeCalled, closeReported, setupError, setupTimedOut, socket, flight, writeQueue,
                   io, user, wire, onCloses>>

finishSetup ==
    /\ Runs("setup", TRUE)
    /\ stage = "handshake"
    /\ stage' = "done"
    /\ open' = TRUE
    /\ connecting' = FALSE
    /\ ready' = IF "setupTimer" \in pending
                THEN Append(Tail(ready), Handler("setupTimer", FALSE)) ELSE Tail(ready)
    /\ pending' = (pending \ {"setupTimer"}) \cup {"read"}
    /\ UNCHANGED <<closeCalled, closeReported, setupError, setupTimedOut, socket, flight, writeQueue,
                   io, user, wire, onCloses>>

\* A step fails, or the TLS library refuses the host name after the connect.
finishSetupFails ==
    /\ Runs("setup", FALSE) \/ (Runs("setup", TRUE) /\ stage = "connect")
    /\ setupError' = TRUE
    /\ connecting' = FALSE
    /\ socket' = FALSE
    /\ Cancel("setupTimer")
    /\ UNCHANGED <<open, closeCalled, closeReported, setupTimedOut, stage, flight, writeQueue, io,
                   user, wire, onCloses>>

\* onMessage is called.
ReadMessage ==
    /\ Runs("read", TRUE)
    /\ ready' = Tail(ready)
    /\ io' = "onMessage"
    /\ UNCHANGED <<flags, setup, socket, pending, flight, writeQueue, user, wire, onCloses>>

\* A binary message, or no onMessage: nothing is called.
ReadOther ==
    /\ Runs("read", TRUE)
    /\ ready' = Tail(ready)
    /\ io' = "read"
    /\ UNCHANGED <<flags, setup, socket, pending, flight, writeQueue, user, wire, onCloses>>

startRead ==
    /\ io = "read"
    /\ io' = "run"
    /\ pending' = IF closeCalled THEN pending ELSE pending \cup {"read"}
    /\ UNCHANGED <<flags, setup, socket, flight, ready, writeQueue, user, wire, onCloses>>

\* Mutation: a write is started for every text.
SendPosted_WritesAtOnce ==
    /\ Runs("send", TRUE)
    /\ ready' = Tail(ready)
    /\ open
    /\ writeQueue' = Append(writeQueue, Head(ready).text)
    /\ flight' = Append(flight, Head(writeQueue'))
    /\ UNCHANGED <<flags, setup, socket, pending, io, user, wire, onCloses>>

SendPosted ==
    /\ Runs("send", TRUE)
    /\ open
    /\ ready' = Tail(ready)
    /\ writeQueue' = Append(writeQueue, Head(ready).text)
    /\ flight' = IF writeQueue = <<>> THEN Append(flight, Head(ready).text) ELSE flight
    /\ UNCHANGED <<flags, setup, socket, pending, io, user, wire, onCloses>>

SendDropped ==
    /\ Runs("send", TRUE)
    /\ ~open
    /\ ready' = Tail(ready)
    /\ UNCHANGED <<flags, setup, socket, pending, flight, writeQueue, io, user, wire, onCloses>>

doWriteDone ==
    /\ Runs("write", TRUE)
    /\ writeQueue # <<>>
    /\ ready' = Tail(ready)
    /\ writeQueue' = Tail(writeQueue)
    /\ flight' = IF Len(writeQueue) > 1 THEN Append(flight, writeQueue[2]) ELSE flight
    /\ UNCHANGED <<flags, setup, socket, pending, io, user, wire, onCloses>>

\* pop_front() of an empty deque is undefined; the process does not get past it.
doWritePopsEmpty ==
    /\ Runs("write", TRUE)
    /\ writeQueue = <<>>
    /\ io' = "crashed"
    /\ UNCHANGED <<flags, setup, socket, pending, flight, ready, writeQueue, user, wire, onCloses>>

-----------------------------------------------------------------------------
(* Teardown *)

\* onIoError, called by a failed read or write.
onIoError ==
    /\ Runs("read", FALSE) \/ Runs("write", FALSE)
    /\ ready' = Tail(ready)
    /\ open' = FALSE
    /\ io' = "error"
    /\ UNCHANGED <<connecting, closeCalled, closeReported, setup, socket, pending, flight, writeQueue,
                   user, wire, onCloses>>

ErrorExpected ==
    /\ io = "error"
    /\ closeCalled
    /\ io' = "run"
    /\ UNCHANGED <<flags, setup, socket, pending, flight, ready, writeQueue, user, wire, onCloses>>

ErrorDropsSocket ==
    /\ io = "error"
    /\ ~closeCalled
    /\ socket' = FALSE
    /\ writeQueue' = <<>>
    /\ io' = "report"
    /\ UNCHANGED <<flags, setup, pending, flight, ready, user, wire, onCloses>>

\* Mutation: every error is reported.
reportClose_Every ==
    /\ io = "report"
    /\ io' = "onClose"
    /\ onCloses' = onCloses + 1
    /\ UNCHANGED <<flags, setup, socket, pending, flight, ready, writeQueue, user, wire>>

reportClose ==
    /\ io = "report"
    /\ closeReported' = TRUE
    /\ \/ closeReported /\ io' = "run" /\ UNCHANGED onCloses
       \/ ~closeReported /\ io' = "onClose" /\ onCloses' = onCloses + 1
    /\ UNCHANGED <<open, connecting, closeCalled, setup, socket, pending, flight, ready, writeQueue,
                   user, wire>>

\* A callback returns, or throws: onMessage's exception is an error, onClose's is dropped.
CallbackEnds ==
    /\ pc[IO] = "idle"
    /\ \/ io = "onMessage" /\ io' = "read" /\ UNCHANGED open
       \/ io = "onMessage" /\ io' = "error" /\ open' = FALSE
       \/ io = "onClose" /\ io' = "run" /\ UNCHANGED open
    /\ UNCHANGED <<connecting, closeCalled, closeReported, setup, socket, pending, flight, ready,
                   writeQueue, user, wire, onCloses>>

beginCloseStops ==
    /\ Runs("beginClose", TRUE)
    /\ ~socket
    /\ io' = "stopped"
    /\ ready' = Tail(ready)
    /\ UNCHANGED <<flags, setup, socket, pending, flight, writeQueue, user, wire, onCloses>>

\* Mutation: the close frame has no deadline.
beginClose_NoTimer ==
    /\ Runs("beginClose", TRUE)
    /\ socket
    /\ ready' = Tail(ready)
    /\ pending' = pending \cup {"close"}
    /\ UNCHANGED <<flags, setup, socket, flight, writeQueue, io, user, wire, onCloses>>

beginClose ==
    /\ Runs("beginClose", TRUE)
    /\ socket
    /\ ready' = Tail(ready)
    /\ pending' = pending \cup {"closeTimer", "close"}
    /\ UNCHANGED <<flags, setup, socket, flight, writeQueue, io, user, wire, onCloses>>

CloseEnds ==
    /\ \/ Runs("close", TRUE) /\ Cancel("closeTimer")
       \/ Runs("close", FALSE) /\ Cancel("closeTimer")
       \/ Runs("closeTimer", TRUE) /\ ready' = Tail(ready) /\ UNCHANGED pending
    /\ socket' = FALSE
    /\ io' = "stopped"
    /\ UNCHANGED <<flags, setup, flight, writeQueue, user, wire, onCloses>>

\* run() returns when there is nothing left to wait for.
OutOfWork ==
    /\ io = "run"
    /\ ready = <<>> /\ pending = {} /\ flight = <<>>
    /\ io' = "stopped"
    /\ UNCHANGED <<flags, setup, socket, pending, flight, ready, writeQueue, user, wire, onCloses>>

-----------------------------------------------------------------------------
(* The users.  connect() returns the connection, or joins and returns nullptr. *)

Goto(u, from, to) ==
    /\ pc[u] = from
    /\ pc' = [pc EXCEPT ![u] = to]

ConnectSucceeds ==
    /\ Goto(Owner, "connecting", "idle")
    /\ ~connecting /\ ~setupError
    /\ UNCHANGED <<flags, setup, socket, pending, flight, ready, writeQueue, io, joinLock, posted, wire, onCloses>>

ConnectFails ==
    /\ Goto(Owner, "connecting", "fail_join")
    /\ ~connecting /\ setupError
    /\ closeCalled' = TRUE
    /\ UNCHANGED <<open, connecting, closeReported, setup, socket, pending, flight, ready, writeQueue, io,
                   joinLock, posted, wire, onCloses>>

ConnectJoined ==
    /\ Goto(Owner, "fail_join", "failed")
    /\ io = "stopped"
    /\ UNCHANGED <<flags, setup, socket, pending, flight, ready, writeQueue, io, joinLock, posted, wire, onCloses>>

\* Users have the connection once connect() has returned it, the I/O thread in a callback.
MayCall(u) ==
    IF u = IO THEN io \in {"onMessage", "onClose"}
              ELSE pc[Owner] \notin {"connecting", "fail_join", "failed"}

\* sendText looks at open, then at closeCalled, then posts.
SendCall(u) ==
    /\ MayCall(u)
    /\ Goto(u, "idle", "send")
    /\ open
    /\ posted + Cardinality({v \in DOMAIN pc : pc[v] \in {"send", "send_post"}}) < MaxTexts
    /\ UNCHANGED <<flags, setup, socket, pending, flight, ready, writeQueue, io, joinLock, posted, wire, onCloses>>

SendRefused(u) ==
    /\ Goto(u, "send", "idle")
    /\ closeCalled
    /\ UNCHANGED <<flags, setup, socket, pending, flight, ready, writeQueue, io, joinLock, posted, wire, onCloses>>

SendChecked(u) ==
    /\ Goto(u, "send", "send_post")
    /\ ~closeCalled
    /\ UNCHANGED <<flags, setup, socket, pending, flight, ready, writeQueue, io, joinLock, posted, wire, onCloses>>

SendPost(u) ==
    /\ Goto(u, "send_post", "idle")
    /\ posted' = posted + 1
    /\ ready' = Append(ready, [op |-> "send", ok |-> TRUE, text |-> posted'])
    /\ UNCHANGED <<flags, setup, socket, pending, flight, writeQueue, io, joinLock, wire, onCloses>>

\* Mutation: the second caller of close() does not wait.
CloseCall_SecondReturns(u) ==
    /\ MayCall(u)
    /\ Goto(u, "idle", IF closeCalled THEN (IF u = IO THEN "idle" ELSE "closed") ELSE "close_open")
    /\ closeCalled' = TRUE
    /\ UNCHANGED <<open, connecting, closeReported, setup, socket, pending, flight, ready, writeQueue, io,
                   joinLock, posted, wire, onCloses>>

CloseCall(u) ==
    /\ MayCall(u)
    /\ Goto(u, "idle", IF closeCalled THEN "join" ELSE "close_open")
    /\ closeCalled' = TRUE
    /\ UNCHANGED <<open, connecting, closeReported, setup, socket, pending, flight, ready, writeQueue, io,
                   joinLock, posted, wire, onCloses>>

CloseOpen(u) ==
    /\ Goto(u, "close_open", "close_post")
    /\ open' = FALSE
    /\ UNCHANGED <<connecting, closeCalled, closeReported, setup, socket, pending, flight, ready, writeQueue,
                   io, joinLock, posted, wire, onCloses>>

ClosePost(u) ==
    /\ Goto(u, "close_post", "join")
    /\ ready' = Append(ready, Handler("beginClose", TRUE))
    /\ UNCHANGED <<flags, setup, socket, pending, flight, writeQueue, io, joinLock, posted, wire, onCloses>>

\* Called from inside a callback it cannot join its own thread.
CloseOnIoThread ==
    /\ Goto(IO, "join", "idle")
    /\ UNCHANGED <<flags, setup, socket, pending, flight, ready, writeQueue, io, joinLock, posted, wire, onCloses>>

LockJoin(u) ==
    /\ u # IO
    /\ joinLock = IO
    /\ Goto(u, "join", "joining")
    /\ joinLock' = u
    /\ UNCHANGED <<flags, setup, socket, pending, flight, ready, writeQueue, io, posted, wire, onCloses>>

Joined(u) ==
    /\ io = "stopped"
    /\ Goto(u, "joining", "closed")
    /\ joinLock' = IO
    /\ UNCHANGED <<flags, setup, socket, pending, flight, ready, writeQueue, io, posted, wire, onCloses>>

-----------------------------------------------------------------------------
Completion ==
    \/ \E op \in pending, ok \in BOOLEAN : Completes(op, ok)
    \/ \E ok \in BOOLEAN : WriteCompletes(ok)

\* What must happen without the network's help.
TimerExpires == \E timer \in {"setupTimer", "closeTimer"} : Completes(timer, TRUE)
Aborted ==
    \/ \E op \in pending : ~Reachable(op) /\ Completes(op, FALSE)
    \/ ~socket /\ WriteCompletes(FALSE)

HandlerStep ==
    \/ SetupDeadline \/ TimerCancelled \/ SetupContinues \/ finishSetup \/ finishSetupFails
    \/ ReadMessage \/ ReadOther \/ startRead
    \/ SendPosted \/ SendDropped \/ doWriteDone \/ doWritePopsEmpty
    \/ onIoError \/ ErrorExpected \/ ErrorDropsSocket \/ reportClose
    \/ beginCloseStops \/ beginClose \/ CloseEnds \/ OutOfWork

ConnectStep == ConnectSucceeds \/ ConnectFails \/ ConnectJoined

CloseStep(u) == CloseOpen(u) \/ ClosePost(u) \/ LockJoin(u) \/ Joined(u)

UserStep(u) ==
    \/ SendCall(u) \/ SendRefused(u) \/ SendChecked(u) \/ SendPost(u)
    \/ CloseCall(u) \/ CloseStep(u)

Next ==
    /\ io # "crashed"
    /\ \/ Completion \/ HandlerStep \/ CallbackEnds \/ ConnectStep \/ CloseOnIoThread
       \/ \E u \in Users \cup {IO} : UserStep(u)

Spec == Init /\ [][Next]_vars

(***************************************************************************)
(* The threads run, timers expire, operations on a closed socket fail, and *)
(* the user's callbacks return.  Nothing is assumed of the network.        *)
(***************************************************************************)
FairSpec ==
    /\ Spec
    /\ WF_vars(HandlerStep) /\ WF_vars(TimerExpires) /\ WF_vars(Aborted)
    /\ SF_vars(CallbackEnds) /\ WF_vars(CloseOnIoThread)
    /\ WF_vars(ConnectStep)
    /\ \A u \in Users \cup {IO} : WF_vars(SendRefused(u) \/ SendChecked(u) \/ SendPost(u) \/ CloseStep(u))

-----------------------------------------------------------------------------
\* Type correctness: operations and handlers are in one of their states, and the queue has texts that were posted.
TypeOK ==
    /\ flags \in BOOLEAN \X BOOLEAN \X BOOLEAN \X BOOLEAN
    /\ setupError \in BOOLEAN /\ setupTimedOut \in BOOLEAN
    /\ stage \in {"resolve", "connect", "tls", "handshake", "done"}
    /\ socket \in BOOLEAN
    /\ pending \subseteq {"setup", "setupTimer", "read", "closeTimer", "close"}
    /\ io \in {"run", "onMessage", "read", "error", "report", "onClose", "stopped", "crashed"}
    /\ joinLock \in Users \cup {IO}
    /\ posted \in 0 .. MaxTexts /\ onCloses \in Nat
    /\ \A i \in DOMAIN writeQueue : writeQueue[i] \in 1 .. posted

(***************************************************************************)
(* "After it returns, no callback is running or will run": whoever called  *)
(* close(), first or not, from wherever the others are, is back only when  *)
(* the I/O thread has ended.  The same for a connect() that fails.         *)
(***************************************************************************)
NoCallbackAfterClose ==
    \A u \in Users : pc[u] \in {"closed", "failed"} => io = "stopped"

(***************************************************************************)
(* The texts reach the socket once each, in the order sendText posted      *)
(* them, however writes, errors and a close interleave: one async_write is *)
(* outstanding at a time and always that of the queue's first text.        *)
(***************************************************************************)
SentInOrder == IsPrefix(wire, [i \in 1 .. posted |-> i])

(***************************************************************************)
(* A connection that goes down while isOpen() still says it is up is       *)
(* reported to onClose, unless close() is called meanwhile.  The deadline  *)
(* of the setup can close the socket of a connection that is already open: *)
(* cancel() comes too late for a timer that has expired.                   *)
(***************************************************************************)
DropIsReported ==
    open /\ ~socket ~> (closeCalled \/ onCloses = 1 \/ io = "crashed")

(***************************************************************************)
(* onClose is "called at most once", although a read and a write may both  *)
(* fail, and only for a connection that had been established.              *)
(***************************************************************************)
ClosedOnce == onCloses <= 1 /\ (onCloses = 1 => stage = "done" /\ ~open)

(***************************************************************************)
(* What goes out and what is reported stays sound when reads, writes, the  *)
(* timer and a close end the same connection together.                     *)
(***************************************************************************)
TransportIsSound == TypeOK /\ SentInOrder /\ ClosedOnce

(***************************************************************************)
(* close() ends without the network's help: whatever is outstanding, the   *)
(* I/O thread stops within the deadline of the close frame.                *)
(***************************************************************************)
CloseReturns ==
    \A u \in Users : pc[u] = "join" ~> (pc[u] = "closed" \/ io = "crashed")

\* The deadline passes while the handler of a lookup that has succeeded waits for its turn.
LateLookup ==
    /\ setupTimedOut /\ stage = "resolve"
    /\ \E i \in DOMAIN ready : ready[i] = Handler("setup", TRUE)

(***************************************************************************)
(* connect() "blocks until done or 10 s pass", with a network that never   *)
(* answers: from wherever the deadline finds the setup, what is            *)
(* outstanding fails and the I/O thread ends.  The one exception is a      *)
(* LateLookup: cancel() comes too late for it, it goes on to connect with  *)
(* a new socket, and no timer is left to end that connect.  The call is    *)
(* made once, before everything else.                                      *)
(***************************************************************************)
ConnectReturns == <>(pc[Owner] \in {"idle", "failed"} \/ LateLookup)

(***************************************************************************)
(* Both blocking calls end without the network's help.                     *)
(***************************************************************************)
CallsEnd == ConnectReturns /\ CloseReturns

(***************************************************************************)
(* What rawWebsocket.hpp says of an unexpected end at line 175: it drops   *)
(* the socket, "which fails any other pending operation".  A write that    *)
(* has completed does not fail: its handler finds the queue that onIoError *)
(* cleared, and takes the first text out of an empty queue.                *)
(***************************************************************************)
NeverPopsEmpty == io # "crashed"
=============================================================================
