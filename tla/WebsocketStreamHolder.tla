------------------------ MODULE WebsocketStreamHolder ------------------------
(***************************************************************************)
(* The connection of one websocket stream (WebsocketStreamHolder) and its  *)
(* lifecycle: the loop thread connects, reads and reconnects with backoff; *)
(* the owner closes, re-establishes or destroys the holder; any other      *)
(* thread may ask for the status.  All three meet in five flags, in the    *)
(* backoff's interrupt, in lastError and in the socket.                    *)
(*                                                                         *)
(* What becomes of a message matters here for where the loop may be when   *)
(* it is told to stop: it waits for the parser it shares with the other    *)
(* streams, and for a place in bufferOut, with the parser locked.  The     *)
(* counter of the queued messages and who polls it are StreamHub's.  TCP,  *)
(* TLS and the websocket protocol are external: a connection attempt       *)
(* succeeds or fails, a read returns a message or an error.                *)
(***************************************************************************)
EXTENDS Integers, Sequences

CONSTANTS
    MaxTryCount,    \* attempts of one backoff, 7 in the default BackoffPolicy
    BufferSize      \* places in bufferOut, 1024 in the code

ASSUME TriesAssumption == MaxTryCount \in Nat \ {0}
ASSUME BufferAssumption == BufferSize \in Nat \ {0}

Loop   == "loop"        \* executionLoop
Owner  == "owner"       \* the thread that constructed the holder
Poller == "poller"      \* another thread that calls getStatus
Threads == {Loop, Owner, Poller}
Callers == {Owner, Poller}

VARIABLES
    running, connectionAlive, connecting,
    signalled,      \* the sticky flag of shutdownSignal
    lastError,      \* lastError holds a reason
    err,            \* the reason each getStatus caller was given
    ws,             \* whether the socket is connected
    pc,             \* where each thread is
    stack,          \* where its calls return to
    status,         \* what its last call returned
    json,           \* what its last getLatestMessage returned
    tries,          \* attempts of its backoff
    parserWrapper,  \* who has the parser: nobody, this loop or another stream
    bufferOut       \* the number of messages queued

flags == <<running, connectionAlive, connecting>>
local == <<status, json, tries>>
delivery == <<parserWrapper, bufferOut>>
vars  == <<flags, signalled, lastError, err, ws, pc, stack, local, delivery>>

Init ==
    /\ running = TRUE
    /\ connectionAlive = FALSE
    /\ connecting = TRUE
    /\ signalled = FALSE
    /\ lastError = FALSE
    /\ err = [p \in Callers |-> "null"]
    /\ ws = "closed"
    /\ pc = [p \in Threads |-> IF p = Loop THEN "start" ELSE "idle"]
    /\ stack = [p \in Threads |-> <<>>]
    /\ status = [p \in Threads |-> "SUCCESS"]
    /\ json = [p \in Threads |-> FALSE]
    /\ tries = [p \in Threads |-> 0]
    /\ parserWrapper = "nobody"
    /\ bufferOut = 0

-----------------------------------------------------------------------------
(* Control: moving on, calling and returning. *)

Goto(p, from, to) ==
    /\ pc[p] = from
    /\ pc' = [pc EXCEPT ![p] = to]
    /\ UNCHANGED stack

Call(p, from, operation, back) ==
    /\ pc[p] = from
    /\ pc' = [pc EXCEPT ![p] = operation]
    /\ stack' = [stack EXCEPT ![p] = <<back>> \o @]

Return(p, from) ==
    /\ pc[p] = from
    /\ pc' = [pc EXCEPT ![p] = Head(stack[p])]
    /\ stack' = [stack EXCEPT ![p] = Tail(@)]

Returns(p, result) == status' = [status EXCEPT ![p] = result]

\* The text read goes out of scope.
Forgets(p) == json' = [json EXCEPT ![p] = FALSE]

\* Whoever still has the old reason has a dangling pointer from now on.
FreeLastError == err' = [p \in Callers |-> IF err[p] = "live" THEN "freed" ELSE err[p]]

-----------------------------------------------------------------------------
(* setupConnection *)

SetupBegin(p) ==
    /\ Goto(p, "setup", "setup_net")
    /\ connecting' = TRUE
    /\ lastError' = FALSE
    /\ FreeLastError
    /\ UNCHANGED <<delivery, running, connectionAlive, signalled, ws, local>>

SetupSucceeds(p) ==
    /\ Goto(p, "setup_net", "setup_done")
    /\ ws' = "open"
    /\ connectionAlive' = TRUE
    /\ Returns(p, "SUCCESS")
    /\ UNCHANGED <<delivery, running, connecting, signalled, lastError, err, json, tries>>

\* Mutation: the reason is not kept.
SetupFails_NoReason(p) ==
    /\ Goto(p, "setup_net", "setup_done")
    /\ ws' = "closed"
    /\ Returns(p, "FAIL")
    /\ UNCHANGED <<delivery, flags, signalled, lastError, err, json, tries>>

SetupFails(p) ==
    /\ Goto(p, "setup_net", "setup_done")
    /\ ws' = "closed"
    /\ lastError' = TRUE
    /\ Returns(p, "FAIL")
    /\ UNCHANGED <<delivery, flags, signalled, err, json, tries>>

\* Mutation: only a connection ends the wait of getStatus.
SetupDone_KeepsConnecting(p) ==
    /\ Return(p, "setup_done")
    /\ connecting' = (status[p] # "SUCCESS")
    /\ UNCHANGED <<delivery, running, connectionAlive, signalled, lastError, err, ws, local>>

SetupDone(p) ==
    /\ Return(p, "setup_done")
    /\ connecting' = FALSE
    /\ UNCHANGED <<delivery, running, connectionAlive, signalled, lastError, err, ws, local>>

Setup(p) == SetupBegin(p) \/ SetupSucceeds(p) \/ SetupFails(p) \/ SetupDone(p)

-----------------------------------------------------------------------------
(* exponentialBackOff: look at running, sleep, look again, try. *)

BackoffClosed(p) ==
    /\ pc[p] \in {"backoff", "woken"}
    /\ ~running
    /\ Return(p, pc[p])
    /\ Returns(p, "CLOSED")
    /\ tries' = [tries EXCEPT ![p] = 0]
    /\ UNCHANGED <<delivery, flags, signalled, lastError, err, ws, json>>

BackoffSleeps(p) ==
    /\ Goto(p, "backoff", "sleeping")
    /\ running
    /\ UNCHANGED <<delivery, flags, signalled, lastError, err, ws, local>>

BackoffTimeout(p) ==
    /\ Goto(p, "sleeping", "woken")
    /\ UNCHANGED <<delivery, flags, signalled, lastError, err, ws, local>>

BackoffWoken(p) ==
    /\ Goto(p, "sleeping", "woken")
    /\ signalled
    /\ UNCHANGED <<delivery, flags, signalled, lastError, err, ws, local>>

BackoffTries(p) ==
    /\ Call(p, "woken", "setup", "tried")
    /\ running
    /\ UNCHANGED <<delivery, flags, signalled, lastError, err, ws, local>>

BackoffSucceeds(p) ==
    /\ Return(p, "tried")
    /\ status[p] = "SUCCESS"
    /\ tries' = [tries EXCEPT ![p] = 0]
    /\ UNCHANGED <<delivery, flags, signalled, lastError, err, ws, status, json>>

BackoffAgain(p) ==
    /\ Goto(p, "tried", "backoff")
    /\ status[p] # "SUCCESS"
    /\ tries[p] + 1 < MaxTryCount
    /\ tries' = [tries EXCEPT ![p] = @ + 1]
    /\ UNCHANGED <<delivery, flags, signalled, lastError, err, ws, status, json>>

BackoffGivesUp(p) ==
    /\ Return(p, "tried")
    /\ status[p] # "SUCCESS"
    /\ tries[p] + 1 >= MaxTryCount
    /\ tries' = [tries EXCEPT ![p] = 0]
    /\ UNCHANGED <<delivery, flags, signalled, lastError, err, ws, status, json>>

Backoff(p) ==
    \/ BackoffClosed(p) \/ BackoffSleeps(p) \/ BackoffWoken(p) \/ BackoffTries(p)
    \/ BackoffSucceeds(p) \/ BackoffAgain(p) \/ BackoffGivesUp(p)

-----------------------------------------------------------------------------
(* getLatestMessage: json is TRUE for a message and FALSE for an empty string. *)

Reads(p, message) == json' = [json EXCEPT ![p] = message]

MessageSkipped(p) ==
    /\ Return(p, "message")
    /\ ~connectionAlive
    /\ Reads(p, FALSE)
    /\ UNCHANGED <<delivery, flags, signalled, lastError, err, ws, status, tries>>

MessageRead(p) ==
    /\ Goto(p, "message", "reading")
    /\ connectionAlive
    /\ UNCHANGED <<delivery, flags, signalled, lastError, err, ws, local>>

ReadSucceeds(p) ==
    /\ Return(p, "reading")
    /\ ws = "open"
    /\ Reads(p, TRUE)
    /\ UNCHANGED <<delivery, flags, signalled, lastError, err, ws, status, tries>>

ReadFails(p) ==
    /\ Return(p, "reading")
    /\ ws' = "closed"
    /\ Reads(p, FALSE)
    /\ UNCHANGED <<delivery, flags, signalled, lastError, err, status, tries>>

\* Anything but a socket error is kept as a reason.
ReadThrows(p) ==
    /\ Return(p, "reading")
    /\ Reads(p, FALSE)
    /\ lastError' = TRUE
    /\ FreeLastError
    /\ UNCHANGED <<delivery, flags, signalled, ws, status, tries>>

Message(p) == MessageSkipped(p) \/ MessageRead(p) \/ ReadSucceeds(p) \/ ReadFails(p) \/ ReadThrows(p)

-----------------------------------------------------------------------------
(* executionLoop *)

LoopConnects ==
    /\ Call(Loop, "start", "setup", "started")
    /\ ~connectionAlive
    /\ UNCHANGED <<delivery, flags, signalled, lastError, err, ws, local>>

LoopConnected ==
    /\ \/ Goto(Loop, "start", "alive") /\ connectionAlive
       \/ Goto(Loop, "started", "alive") /\ status[Loop] = "SUCCESS"
       \/ Goto(Loop, "retried", "alive") /\ status[Loop] = "SUCCESS"
    /\ UNCHANGED <<delivery, flags, signalled, lastError, err, ws, local>>

LoopRetries ==
    /\ Call(Loop, "started", "backoff", "retried")
    /\ status[Loop] # "SUCCESS"
    /\ UNCHANGED <<delivery, flags, signalled, lastError, err, ws, local>>

\* Before the first connection and after a lost one.
\* Mutation: the loop ends and the holder still passes for running.
LoopGivesUp_StaysRunning ==
    /\ Goto(Loop, "retried", "done") \/ Goto(Loop, "reconnected", "done")
    /\ status[Loop] # "SUCCESS"
    /\ UNCHANGED <<delivery, flags, signalled, lastError, err, ws, local>>

LoopGivesUp ==
    /\ Goto(Loop, "retried", "done") \/ Goto(Loop, "reconnected", "done")
    /\ status[Loop] # "SUCCESS"
    /\ running' = FALSE
    /\ Forgets(Loop)
    /\ UNCHANGED <<delivery, connectionAlive, connecting, signalled, lastError, err, ws, status, tries>>

LoopAlive ==
    /\ Goto(Loop, "alive", "while")
    /\ connectionAlive' = TRUE
    /\ UNCHANGED <<delivery, running, connecting, signalled, lastError, err, ws, local>>

LoopReads ==
    /\ Call(Loop, "while", "message", "read")
    /\ running
    /\ UNCHANGED <<delivery, flags, signalled, lastError, err, ws, local>>

LoopEnds ==
    /\ Goto(Loop, "while", "done")
    /\ ~running
    /\ UNCHANGED <<delivery, flags, signalled, lastError, err, ws, local>>

LoopChecks ==
    /\ Goto(Loop, "read", "checked")
    /\ connectionAlive' = (connectionAlive /\ json[Loop])
    /\ UNCHANGED <<delivery, running, connecting, signalled, lastError, err, ws, local>>

LoopReconnects ==
    /\ Call(Loop, "checked", "backoff", "reconnected")
    /\ ~connectionAlive
    /\ UNCHANGED <<delivery, flags, signalled, lastError, err, ws, local>>

\* The message, or the empty one after a reconnect, goes to the decoder.
LoopProcesses ==
    /\ \/ Goto(Loop, "checked", "parser") /\ connectionAlive
       \/ Goto(Loop, "reconnected", "parser") /\ status[Loop] = "SUCCESS"
    /\ UNCHANGED <<delivery, flags, signalled, lastError, err, ws, local>>

\* ThreadSafeParserRAII: spins while another stream has the parser.
LoopTakesParser ==
    /\ Goto(Loop, "parser", "parse")
    /\ parserWrapper = "nobody"
    /\ parserWrapper' = "loop"
    /\ UNCHANGED <<bufferOut, flags, signalled, lastError, err, ws, local>>

LoopParses ==
    /\ Goto(Loop, "parse", "enqueue")
    /\ UNCHANGED <<delivery, flags, signalled, lastError, err, ws, local>>

\* The message is dropped, and the guard unlocks the parser.
LoopParseThrows ==
    /\ Goto(Loop, "parse", "while")
    /\ parserWrapper' = "nobody"
    /\ Forgets(Loop)
    /\ UNCHANGED <<bufferOut, flags, signalled, lastError, err, ws, status, tries>>

\* Spins while the buffer is full, then counts the message and unlocks the parser.
LoopEnqueues ==
    /\ Goto(Loop, "enqueue", "while")
    /\ bufferOut < BufferSize
    /\ bufferOut' = bufferOut + 1
    /\ parserWrapper' = "nobody"
    /\ Forgets(Loop)
    /\ UNCHANGED <<flags, signalled, lastError, err, ws, status, tries>>

\* The loop waits for another stream or for a consumer, as long as this is so.
Stuck ==
    \/ pc[Loop] = "parser" /\ parserWrapper = "others"
    \/ pc[Loop] = "enqueue" /\ bufferOut = BufferSize

-----------------------------------------------------------------------------
(* Around the holder: its consumer, and the streams that share the parser. *)

getLatestData ==
    /\ bufferOut > 0
    /\ bufferOut' = bufferOut - 1
    /\ UNCHANGED <<parserWrapper, flags, signalled, lastError, err, ws, pc, stack, local>>

\* It makes no difference whether another stream has the parser before the loop wants it too.
OthersTakeParser ==
    /\ pc[Loop] = "parser" /\ parserWrapper = "nobody"
    /\ parserWrapper' = "others"
    /\ UNCHANGED <<bufferOut, flags, signalled, lastError, err, ws, pc, stack, local>>

OthersGiveParser ==
    /\ parserWrapper = "others"
    /\ parserWrapper' = "nobody"
    /\ UNCHANGED <<bufferOut, flags, signalled, lastError, err, ws, pc, stack, local>>

-----------------------------------------------------------------------------
(* getStatus: wait for the attempt in progress, then running, then connectionAlive. *)

GetStatusCall(p) ==
    /\ Goto(p, "idle", "status_wait")
    /\ UNCHANGED <<delivery, flags, signalled, lastError, err, ws, local>>

GetStatusWaited(p) ==
    /\ Goto(p, "status_wait", "status_running")
    /\ ~connecting
    /\ UNCHANGED <<delivery, flags, signalled, lastError, err, ws, local>>

Reason == IF lastError THEN "live" ELSE "null"

\* What the poller is told is of no consequence to the holder, and not kept.
Tells(p, result, because) ==
    IF p = Owner THEN Returns(p, result) /\ err' = [err EXCEPT ![p] = because]
                 ELSE UNCHANGED <<status, err>>

GetStatusClosed(p) ==
    /\ Goto(p, "status_running", "idle")
    /\ ~running
    /\ Tells(p, "CLOSED", Reason)
    /\ UNCHANGED <<delivery, flags, signalled, lastError, ws, json, tries>>

GetStatusRunning(p) ==
    /\ Goto(p, "status_running", "status_alive")
    /\ running
    /\ UNCHANGED <<delivery, flags, signalled, lastError, err, ws, local>>

GetStatusAlive(p) ==
    /\ Goto(p, "status_alive", "idle")
    /\ IF connectionAlive THEN Tells(p, "SUCCESS", "null") ELSE Tells(p, "FAIL", Reason)
    /\ UNCHANGED <<delivery, flags, signalled, lastError, ws, json, tries>>

GetStatus(p) == GetStatusWaited(p) \/ GetStatusClosed(p) \/ GetStatusRunning(p) \/ GetStatusAlive(p)

-----------------------------------------------------------------------------
(* closeConnection, called by the owner and by reEstablishExecution. *)

CloseCall ==
    /\ Call(Owner, "idle", "close", "idle")
    /\ UNCHANGED <<delivery, flags, signalled, lastError, err, ws, local>>

CloseAlive ==
    /\ Goto(Owner, "close", "close_running")
    /\ connectionAlive' = FALSE
    /\ UNCHANGED <<delivery, running, connecting, signalled, lastError, err, ws, local>>

CloseRunning ==
    /\ Goto(Owner, "close_running", "close_signal")
    /\ running' = FALSE
    /\ UNCHANGED <<delivery, connectionAlive, connecting, signalled, lastError, err, ws, local>>

\* Mutation: the loop is left to sleep out its backoff.
CloseSignal_Missing ==
    /\ Call(Owner, "close_signal", "message", "close_read")
    /\ UNCHANGED <<delivery, flags, signalled, lastError, err, ws, local>>

CloseSignal ==
    /\ Call(Owner, "close_signal", "message", "close_read")
    /\ signalled' = TRUE
    /\ UNCHANGED <<delivery, flags, lastError, err, ws, local>>

CloseShutdown ==
    /\ Goto(Owner, "close_read", "shutdown")
    /\ ~json[Owner]
    /\ UNCHANGED <<delivery, flags, signalled, lastError, err, ws, local>>

\* The TLS shutdown ends a read in progress.
ShutdownDone ==
    /\ Return(Owner, "shutdown")
    /\ ws' = "closed"
    /\ UNCHANGED <<delivery, flags, signalled, lastError, err, local>>

CloseWithoutShutdown ==
    /\ Return(Owner, "close_read")
    /\ json[Owner]
    /\ Forgets(Owner)
    /\ UNCHANGED <<delivery, flags, signalled, lastError, err, ws, status, tries>>

Close == CloseAlive \/ CloseRunning \/ CloseSignal \/ CloseShutdown \/ ShutdownDone \/ CloseWithoutShutdown

-----------------------------------------------------------------------------
(* reEstablishExecution *)

ReEstablishCall ==
    /\ Call(Owner, "idle", "close", "re_join")
    /\ UNCHANGED <<delivery, flags, signalled, lastError, err, ws, local>>

\* Mutation: the old loop is not joined.
ReEstablishJoined_NoJoin ==
    /\ Goto(Owner, "re_join", "re_arm")
    /\ UNCHANGED <<delivery, flags, signalled, lastError, err, ws, local>>

ReEstablishJoined ==
    /\ Goto(Owner, "re_join", "re_arm")
    /\ pc[Loop] = "done"
    /\ UNCHANGED <<delivery, flags, signalled, lastError, err, ws, local>>

ReEstablishArm ==
    /\ Goto(Owner, "re_arm", "re_reset")
    /\ running' = TRUE
    /\ UNCHANGED <<delivery, connectionAlive, connecting, signalled, lastError, err, ws, local>>

\* Mutation: the signal of closeConnection is left in place.
ReEstablishReset_Sticky ==
    /\ Call(Owner, "re_reset", "setup", "re_setup")
    /\ UNCHANGED <<delivery, flags, signalled, lastError, err, ws, local>>

ReEstablishReset ==
    /\ Call(Owner, "re_reset", "setup", "re_setup")
    /\ signalled' = FALSE
    /\ UNCHANGED <<delivery, flags, lastError, err, ws, local>>

ReEstablishRetries ==
    /\ Call(Owner, "re_setup", "backoff", "re_retried")
    /\ status[Owner] # "SUCCESS"
    /\ UNCHANGED <<delivery, flags, signalled, lastError, err, ws, local>>

ReEstablishGivesUp ==
    /\ Goto(Owner, "re_retried", "idle")
    /\ status[Owner] # "SUCCESS"
    /\ running' = FALSE
    /\ UNCHANGED <<delivery, connectionAlive, connecting, signalled, lastError, err, ws, local>>

ReEstablishStarts ==
    /\ pc[Owner] \in {"re_setup", "re_retried"}
    /\ status[Owner] = "SUCCESS"
    /\ pc' = [pc EXCEPT ![Owner] = "re_status", ![Loop] = "start"]
    /\ UNCHANGED <<delivery, flags, signalled, lastError, err, ws, stack, local>>

ReEstablishReturns ==
    /\ Goto(Owner, "re_status", "idle")
    /\ Returns(Owner, IF connectionAlive THEN "SUCCESS" ELSE "FAIL")
    /\ UNCHANGED <<delivery, flags, signalled, lastError, err, ws, json, tries>>

ReEstablish ==
    \/ ReEstablishJoined \/ ReEstablishArm \/ ReEstablishReset \/ ReEstablishRetries
    \/ ReEstablishGivesUp \/ ReEstablishStarts \/ ReEstablishReturns

-----------------------------------------------------------------------------
(* ~WebsocketStreamHolder.  No other thread uses the holder any more. *)

Destroy ==
    /\ pc[Poller] = "idle"
    /\ Goto(Owner, "idle", "destroy_signal")
    /\ running' = FALSE
    /\ UNCHANGED <<delivery, connectionAlive, connecting, signalled, lastError, err, ws, local>>

\* Mutation: the loop is left to sleep out its backoff.
DestroySignal_Missing ==
    /\ Goto(Owner, "destroy_signal", "destroy_join")
    /\ UNCHANGED <<delivery, flags, signalled, lastError, err, ws, local>>

DestroySignal ==
    /\ Goto(Owner, "destroy_signal", "destroy_join")
    /\ signalled' = TRUE
    /\ UNCHANGED <<delivery, flags, lastError, err, ws, local>>

DestroyJoined ==
    /\ Goto(Owner, "destroy_join", "destroyed")
    /\ pc[Loop] = "done"
    /\ UNCHANGED <<delivery, flags, signalled, lastError, err, ws, local>>

Destroyed == pc[Owner] \in {"destroy_signal", "destroy_join", "destroyed"}

-----------------------------------------------------------------------------
LoopStep ==
    \/ Setup(Loop) \/ Backoff(Loop) \/ Message(Loop)
    \/ LoopConnects \/ LoopConnected \/ LoopRetries \/ LoopGivesUp \/ LoopAlive
    \/ LoopReads \/ LoopEnds \/ LoopChecks \/ LoopReconnects \/ LoopProcesses
    \/ LoopTakesParser \/ LoopParses \/ LoopParseThrows \/ LoopEnqueues

\* An operation of the owner in progress.
OwnerStep ==
    \/ Setup(Owner) \/ Backoff(Owner) \/ Message(Owner)
    \/ Close \/ ReEstablish
    \/ DestroySignal \/ DestroyJoined

OwnerCalls == CloseCall \/ ReEstablishCall \/ Destroy

PollerCalls == ~Destroyed /\ GetStatusCall(Poller)

Timeout == BackoffTimeout(Loop) \/ BackoffTimeout(Owner)

\* What others do to the queue and the parser; nobody takes from a holder that is being destroyed.
Outside == (~Destroyed /\ getLatestData) \/ OthersTakeParser \/ OthersGiveParser

Next ==
    \/ LoopStep \/ OwnerStep \/ OwnerCalls \/ PollerCalls \/ GetStatus(Poller) \/ Timeout
    \/ Outside

Spec == Init /\ [][Next]_vars

(***************************************************************************)
(* The threads keep running, a connection attempt and a TLS shutdown end,  *)
(* and a read ends because the exchange sends or the connection breaks.    *)
(* Timeout is not fair: a property that holds all the same does not depend *)
(* on a sleep of up to half a minute to run out.  Nor is Outside: the      *)
(* consumer may stop taking, and another stream may keep the parser; but a *)
(* loop gets a parser that comes free again and again.  getStatus spins,   *)
(* and the half second of a backoff is more than enough for it to see      *)
(* connecting cleared, hence the strong fairness.                          *)
(***************************************************************************)
FairSpec ==
    /\ Spec
    /\ WF_vars(LoopStep)
    /\ SF_vars(LoopTakesParser)
    /\ WF_vars(OwnerStep)
    /\ SF_vars(GetStatus(Poller))

-----------------------------------------------------------------------------
PCs == {"idle", "done", "setup", "setup_net", "setup_done", "backoff", "sleeping", "woken", "tried",
        "message", "reading", "start", "started", "retried", "alive", "while", "read", "checked",
        "reconnected", "parser", "parse", "enqueue", "status_wait", "status_running", "status_alive", "close", "close_running",
        "close_signal", "close_read", "shutdown", "re_join", "re_arm", "re_reset", "re_setup",
        "re_retried", "re_status", "destroy_signal", "destroy_join", "destroyed"}

\* Type correctness: flags, places and attempts of the three threads stay in range.
TypeOK ==
    /\ running \in BOOLEAN /\ connectionAlive \in BOOLEAN /\ connecting \in BOOLEAN
    /\ signalled \in BOOLEAN /\ lastError \in BOOLEAN
    /\ err \in [Callers -> {"null", "live", "freed"}]
    /\ ws \in {"closed", "open"}
    /\ pc \in [Threads -> PCs]
    /\ stack \in [Threads -> Seq(PCs)]
    /\ status \in [Threads -> {"SUCCESS", "FAIL", "CLOSED"}]
    /\ json \in [Threads -> BOOLEAN]
    /\ tries \in [Threads -> 0 .. MaxTryCount - 1]
    /\ parserWrapper \in {"nobody", "loop", "others"}
    /\ bufferOut \in 0 .. BufferSize

\* A thread is connecting or about to.
Connecting(p) == pc[p] \in {"setup", "setup_net", "setup_done", "backoff", "sleeping", "woken", "tried"}

(***************************************************************************)
(* The owner connects only when the loop is finished: reEstablishExecution *)
(* and the loop never set the same socket up at the same time.             *)
(***************************************************************************)
ConnectsAlone == Connecting(Owner) => pc[Loop] = "done"

(***************************************************************************)
(* While the holder is running no old signal is left over, or every later  *)
(* backoff would try again at once, without a pause.                       *)
(***************************************************************************)
RetriesPause == (\E p \in Threads : pc[p] = "sleeping") /\ running => ~signalled

(***************************************************************************)
(* A holder that stopped on its own, out of attempts, has a reason; the    *)
(* order book takes its error() from it.                                   *)
(***************************************************************************)
GivenUpHasReason ==
    ~running /\ ~signalled /\ pc[Owner] \notin {"close_signal", "destroy_signal"} => lastError

(***************************************************************************)
(* isRunning() is not true of a holder that nobody serves: unless the      *)
(* owner is busy with it, its loop is alive.  The order book waits for     *)
(* events for as long as isRunning() says so.                              *)
(***************************************************************************)
RunningIsServed == running /\ pc[Owner] = "idle" => pc[Loop] # "done"

(***************************************************************************)
(* isRunning() tells the truth, whatever close, reconnect and giving up    *)
(* interleave: up, there is a loop behind it; down by itself, there is a   *)
(* reason.                                                                 *)
(***************************************************************************)
RunningIsTrue == TypeOK /\ RunningIsServed /\ GivenUpHasReason

(***************************************************************************)
(* closeConnection ends the loop, wherever it is: in an attempt, asleep    *)
(* between two, in a read or in the decoder, unless it stays stuck.        *)
(***************************************************************************)
CloseStopsLoop == (pc[Owner] = "close_signal") ~> (pc[Loop] = "done" \/ []Stuck)

(***************************************************************************)
(* The destructor's join returns, and does not have to wait for a backoff  *)
(* to sleep out its interval, unless the loop stays stuck.                 *)
(***************************************************************************)
DestructorJoins == (pc[Owner] = "destroy_signal") ~> (pc[Owner] = "destroyed" \/ []Stuck)

(***************************************************************************)
(* Shutting down, by closeConnection or by the destructor, ends the loop   *)
(* and waits for no backoff to sleep out.  There are two ways in which it  *)
(* does not, since neither wait looks at running or at the signal: the     *)
(* loop is in the enqueue at a full bufferOut that nobody takes from any   *)
(* more, or it waits for the parser while another stream keeps it.  Then   *)
(* the join of the destructor, and that of reEstablishExecution, hang.     *)
(***************************************************************************)
ShutdownStopsLoop == CloseStopsLoop /\ DestructorJoins

(***************************************************************************)
(* getStatus does not spin for ever, whether the attempts it waits for     *)
(* succeed or fail.                                                        *)
(***************************************************************************)
GetStatusReturns == (pc[Poller] = "status_wait") ~> (pc[Poller] = "idle")
=============================================================================
