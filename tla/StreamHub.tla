------------------------------ MODULE StreamHub ------------------------------
(***************************************************************************)
(* All streams of one APIManager decode their messages with one parser     *)
(* (websocketParser).  Each stream has a loop thread, which reads a        *)
(* message, decodes it under the parser's spinlock and queues the result,  *)
(* and consumers, which poll the stream's counter and take what is queued. *)
(*                                                                         *)
(* The enqueue is made with the parser still locked.  Connecting and       *)
(* reconnecting are WebsocketStreamHolder's subject: here a read returns a *)
(* message or the stream gives up.  A queued value is told apart from      *)
(* others by nothing, so bufferOut is its length.                          *)
(***************************************************************************)
EXTENDS Integers, FiniteSets

CONSTANTS
    Streams,
    Pollers,        \* the threads that poll one stream
    BufferSize,     \* capacity of bufferOut, 1024 in the code
    Free            \* the parser is not locked

ASSUME HubAssumption == BufferSize \in Nat \ {0} /\ Free \notin Streams /\ IsFiniteSet(Pollers)

VARIABLES
    parser,             \* the stream whose loop has websocketParser, or Free
    pc,                 \* where each loop thread is
    running,
    bufferOut,
    controlVariable,
    poll,               \* where each poller is
    stalled             \* the stream's consumer will not take anything any more

vars == <<parser, pc, running, bufferOut, controlVariable, poll, stalled>>

Init ==
    /\ parser = Free
    /\ pc = [s \in Streams |-> "while"]
    /\ running = [s \in Streams |-> TRUE]
    /\ bufferOut = [s \in Streams |-> 0]
    /\ controlVariable = [s \in Streams |-> 0]
    /\ poll = [s \in Streams |-> [c \in Pollers |-> "idle"]]
    /\ stalled = [s \in Streams |-> FALSE]

Goto(s, from, to) ==
    /\ pc[s] = from
    /\ pc' = [pc EXCEPT ![s] = to]

-----------------------------------------------------------------------------
(* executionLoop, from the test of running to the next one *)

LoopReads(s) ==
    /\ Goto(s, "while", "reading")
    /\ running[s]
    /\ UNCHANGED <<parser, running, bufferOut, controlVariable, poll, stalled>>

LoopEnds(s) ==
    /\ Goto(s, "while", "done")
    /\ ~running[s]
    /\ UNCHANGED <<parser, running, bufferOut, controlVariable, poll, stalled>>

MessageArrives(s) ==
    /\ Goto(s, "reading", "lock")
    /\ UNCHANGED <<parser, running, bufferOut, controlVariable, poll, stalled>>

StreamGivesUp(s) ==
    /\ Goto(s, "reading", "done")
    /\ running' = [running EXCEPT ![s] = FALSE]
    /\ UNCHANGED <<parser, bufferOut, controlVariable, poll, stalled>>

\* Mutation: the parser is used without its lock.
LockParser_NoWait(s) ==
    /\ Goto(s, "lock", "parse")
    /\ parser' = s
    /\ UNCHANGED <<running, bufferOut, controlVariable, poll, stalled>>

LockParser(s) ==
    /\ Goto(s, "lock", "parse")
    /\ parser = Free
    /\ parser' = s
    /\ UNCHANGED <<running, bufferOut, controlVariable, poll, stalled>>

Parse(s) ==
    /\ Goto(s, "parse", "enqueue")
    /\ UNCHANGED <<parser, running, bufferOut, controlVariable, poll, stalled>>

\* Mutation: the next message is waited for with the parser locked.
ParseThrows_KeepsParser(s) ==
    /\ Goto(s, "parse", "while")
    /\ UNCHANGED <<parser, running, bufferOut, controlVariable, poll, stalled>>

\* The decoder throws: this message is dropped, and the guard unlocks the parser.
ParseThrows(s) ==
    /\ Goto(s, "parse", "while")
    /\ parser' = Free
    /\ UNCHANGED <<running, bufferOut, controlVariable, poll, stalled>>

\* Spins while the buffer is full.
Enqueue(s) ==
    /\ Goto(s, "enqueue", "count")
    /\ bufferOut[s] < BufferSize
    /\ bufferOut' = [bufferOut EXCEPT ![s] = @ + 1]
    /\ UNCHANGED <<parser, running, controlVariable, poll, stalled>>

Count(s) ==
    /\ Goto(s, "count", "while")
    /\ controlVariable' = [controlVariable EXCEPT ![s] = @ + 1]
    /\ parser' = Free
    /\ UNCHANGED <<running, bufferOut, poll, stalled>>

-----------------------------------------------------------------------------
(* getLastMessage: the counter says whether to take anything. *)

PollGoto(s, c, from, to) ==
    /\ poll[s][c] = from
    /\ poll' = [poll EXCEPT ![s][c] = to]

PollCounts(s, c) ==
    /\ ~stalled[s]
    /\ PollGoto(s, c, "idle", "sub")
    /\ controlVariable[s] # 0
    /\ UNCHANGED <<parser, pc, running, bufferOut, controlVariable, stalled>>

\* Mutation: the value taken is not counted out.
PollSubtracts_Forgotten(s, c) ==
    /\ PollGoto(s, c, "sub", "dequeue")
    /\ UNCHANGED <<parser, pc, running, bufferOut, controlVariable, stalled>>

PollSubtracts(s, c) ==
    /\ PollGoto(s, c, "sub", "dequeue")
    /\ controlVariable' = [controlVariable EXCEPT ![s] = @ - 1]
    /\ UNCHANGED <<parser, pc, running, bufferOut, stalled>>

\* Spins while the buffer is empty.
PollDequeues(s, c) ==
    /\ PollGoto(s, c, "dequeue", "idle")
    /\ bufferOut[s] > 0
    /\ bufferOut' = [bufferOut EXCEPT ![s] = @ - 1]
    /\ UNCHANGED <<parser, pc, running, controlVariable, stalled>>

\* The consumer ends or, like an order book after stop(), is through with the stream.
ConsumerStalls(s) ==
    /\ ~stalled[s]
    /\ \A c \in Pollers : poll[s][c] = "idle"
    /\ stalled' = [stalled EXCEPT ![s] = TRUE]
    /\ UNCHANGED <<parser, pc, running, bufferOut, controlVariable, poll>>

\* The holder's destructor, once nobody uses the stream.
Destroy(s) ==
    /\ stalled[s]
    /\ running[s]
    /\ running' = [running EXCEPT ![s] = FALSE]
    /\ UNCHANGED <<parser, pc, bufferOut, controlVariable, poll, stalled>>

-----------------------------------------------------------------------------
\* Everything the loop does on its own.  Only MessageArrives is up to the exchange.
LoopStep(s) ==
    \/ LoopReads(s) \/ LoopEnds(s) \/ LockParser(s)
    \/ Parse(s) \/ ParseThrows(s) \/ Enqueue(s) \/ Count(s)

PollStep(s, c) == PollCounts(s, c) \/ PollSubtracts(s, c) \/ PollDequeues(s, c)

Next ==
    \E s \in Streams :
        \/ LoopStep(s) \/ MessageArrives(s) \/ StreamGivesUp(s)
        \/ \E c \in Pollers : PollStep(s, c)
        \/ ConsumerStalls(s) \/ Destroy(s)

Spec == Init /\ [][Next]_vars

(***************************************************************************)
(* Threads keep running, and a consumer that has not stalled keeps         *)
(* polling.  The spinlock has no queue: that every waiting loop gets it in *)
(* the end is granted here so as not to blame the lock for what the        *)
(* enqueue does.                                                           *)
(***************************************************************************)
FairSpec ==
    /\ Spec
    /\ \A s \in Streams :
          /\ WF_vars(LoopStep(s))
          /\ SF_vars(LockParser(s))
          /\ \A c \in Pollers : WF_vars(PollStep(s, c))

-----------------------------------------------------------------------------
\* Type correctness: buffers stay within their size.
TypeOK ==
    /\ parser \in Streams \cup {Free}
    /\ pc \in [Streams -> {"while", "reading", "lock", "parse", "enqueue", "count", "done"}]
    /\ running \in [Streams -> BOOLEAN]
    /\ bufferOut \in [Streams -> 0 .. BufferSize]
    /\ controlVariable \in [Streams -> Int]
    /\ poll \in [Streams -> [Pollers -> {"idle", "sub", "dequeue"}]]
    /\ stalled \in [Streams -> BOOLEAN]

HasParser(s) == pc[s] \in {"parse", "enqueue", "count"}

(***************************************************************************)
(* The parser, which is not thread safe, is used by one loop at a time and *)
(* is locked for nobody else: no way out of the loop's body keeps it.      *)
(***************************************************************************)
ParserUsedAlone == \A s \in Streams : HasParser(s) <=> parser = s

Uncounted(s) == IF pc[s] = "count" THEN 1 ELSE 0
Taking(s) == {c \in Pollers : poll[s][c] = "dequeue"}

(***************************************************************************)
(* The counter goes up after the enqueue and down before the dequeue, by   *)
(* whoever gets there first, and still never drifts: it differs from the   *)
(* length of the queue by the operations in progress.  So a poller never   *)
(* overlooks a message for good, nor waits for one that will not come, and *)
(* a count taken below zero by two pollers recovers.                       *)
(***************************************************************************)
CounterIsExact ==
    \A s \in Streams : bufferOut[s] = controlVariable[s] + Uncounted(s) + Cardinality(Taking(s))

(***************************************************************************)
(* What userFuturesStream.hpp says of getLastMessage at line 65: "non      *)
(* blocking".  A poll that found the counter up has something to take.     *)
(* False: the counter is read and counted down in two steps, so two        *)
(* threads that poll a stream may both see the only message, and the       *)
(* second one spins in dequeue until the next.                             *)
(***************************************************************************)
PollNeverBlocks ==
    \A s \in Streams, c \in Pollers : poll[s][c] = "dequeue" => bufferOut[s] > 0

(***************************************************************************)
(* As long as its own consumer takes what is queued, a stream gives the    *)
(* parser back.                                                            *)
(***************************************************************************)
ParserComesBack == \A s \in Streams : (parser = s) ~> (parser # s \/ stalled[s])

(***************************************************************************)
(* What README.md says at line 99: "a consumer that stalls will eventually *)
(* stall the reader behind it".  The reader behind it stalls with the      *)
(* parser locked, and every other stream stalls as well.                   *)
(***************************************************************************)
OnlyItsReaderStalls == \A s \in Streams : (pc[s] = "lock") ~> (pc[s] # "lock" \/ stalled[s])
=============================================================================
