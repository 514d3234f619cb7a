-------------------------- MODULE AtomicRingBuffer --------------------------
(***************************************************************************)
(* AstraLib::Buffers::AtomicRingBuffer, the bounded multi-producer and     *)
(* multi-consumer queue under every stream, slot pool and response buffer  *)
(* of AstraConnect.  Every atomic access of the code is one action, so any *)
(* interleaving of the threads at those accesses is a behaviour.           *)
(*                                                                         *)
(* A slot's sequence number says whose turn it is: t when the slot waits   *)
(* for the producer with ticket t, t + 1 when it holds that producer's     *)
(* value, t + SIZE once the consumer with ticket t has emptied it.         *)
(***************************************************************************)
EXTENDS Integers, Sequences, FiniteSets

CONSTANTS
    Producers,      \* the threads that put values in
    Consumers,      \* the threads that take values out
    Values,         \* the payloads
    SIZE,           \* the number of slots
    MaxTickets,     \* bound: tickets handed out on either side (int64_t in the code)
    NoValue         \* a payload that is not there: unwritten or moved from

Threads == Producers \cup Consumers

(***************************************************************************)
(* SIZE >= 2 is a static_assert.  The other one, that SIZE is a power of   *)
(* two, makes ticket & (SIZE - 1) the remainder ticket % SIZE used here.   *)
(***************************************************************************)
ASSUME SizeAssumption == SIZE \in Nat /\ SIZE >= 2
ASSUME ValueAssumption == NoValue \notin Values
ASSUME BoundAssumption == MaxTickets \in Nat

VARIABLES
    seq,            \* Slot::seq of every slot
    data,           \* Slot::data of every slot
    writeTicket,
    readTicket,
    pc,             \* where each thread is inside an operation
    ticket,         \* the local variable ticket (approxSize: read, then the result)
    val,            \* the argument of an enqueue, the local data of a dequeue
    out,            \* the value each thread dequeued last
    sent            \* history: the values of all write tickets, in ticket order

vars == <<seq, data, writeTicket, readTicket, pc, ticket, val, out, sent>>

Slots == 0 .. SIZE - 1

Slot(t) == t % SIZE

\* Where a thread has claimed a write ticket / a read ticket it has not served yet.
Writing == {"enq_spin", "enq_write", "enq_publish"}
Reading == {"deq_spin", "deq_read", "deq_release"}
Trying  == {"tryenq_load", "tryenq_check", "tryenq_cas",
            "trydeq_load", "trydeq_check", "trydeq_cas"}
PCs == {"idle", "size_second"} \cup Writing \cup Reading \cup Trying

prepareBuffer == [i \in Slots |-> i]

Init ==
    /\ seq = prepareBuffer
    /\ data = [i \in Slots |-> NoValue]
    /\ writeTicket = 0
    /\ readTicket = 0
    /\ pc = [p \in Threads |-> "idle"]
    /\ ticket = [p \in Threads |-> 0]
    /\ val = [p \in Threads |-> NoValue]
    /\ out = [p \in Threads |-> NoValue]
    /\ sent = <<>>

Goto(p, from, to) ==
    /\ pc[p] = from
    /\ pc' = [pc EXCEPT ![p] = to]

\* The locals of an operation end with it.
Return(p) ==
    /\ ticket' = [ticket EXCEPT ![p] = 0]
    /\ val' = [val EXCEPT ![p] = NoValue]

-----------------------------------------------------------------------------
(* enqueue and emplaceEnqueue: claim a ticket, spin on the slot, write, publish. *)

ClaimWrite(p, v) ==
    /\ writeTicket < MaxTickets
    /\ writeTicket' = writeTicket + 1
    /\ ticket' = [ticket EXCEPT ![p] = writeTicket]
    /\ val' = [val EXCEPT ![p] = v]
    /\ sent' = Append(sent, v)
    /\ UNCHANGED <<seq, data, readTicket, out>>

EnqueueClaim(p, v) ==
    /\ p \in Producers
    /\ Goto(p, "idle", "enq_spin")
    /\ ClaimWrite(p, v)

\* Mutation: the slot is not waited for.
EnqueueSpin_NoWait(p) ==
    /\ Goto(p, "enq_spin", "enq_write")
    /\ UNCHANGED <<seq, data, writeTicket, readTicket, ticket, val, out, sent>>

EnqueueSpin(p) ==
    /\ Goto(p, "enq_spin", "enq_write")
    /\ seq[Slot(ticket[p])] = ticket[p]
    /\ UNCHANGED <<seq, data, writeTicket, readTicket, ticket, val, out, sent>>

EnqueueWrite(p) ==
    /\ Goto(p, "enq_write", "enq_publish")
    /\ data' = [data EXCEPT ![Slot(ticket[p])] = val[p]]
    /\ UNCHANGED <<seq, writeTicket, readTicket, ticket, val, out, sent>>

EnqueuePublish(p) ==
    /\ Goto(p, "enq_publish", "idle")
    /\ seq' = [seq EXCEPT ![Slot(ticket[p])] = ticket[p] + 1]
    /\ Return(p)
    /\ UNCHANGED <<data, writeTicket, readTicket, out, sent>>

-----------------------------------------------------------------------------
(* dequeue, and each round of batchDequeue. *)

ClaimRead(p) ==
    /\ readTicket < MaxTickets
    /\ readTicket' = readTicket + 1
    /\ ticket' = [ticket EXCEPT ![p] = readTicket]
    /\ UNCHANGED <<seq, data, writeTicket, val, out, sent>>

DequeueClaim(p) ==
    /\ p \in Consumers
    /\ Goto(p, "idle", "deq_spin")
    /\ ClaimRead(p)

\* Mutation: the consumer waits for the producer of the next lap.
DequeueSpin_NextLap(p) ==
    /\ Goto(p, "deq_spin", "deq_read")
    /\ seq[Slot(ticket[p])] = ticket[p] + SIZE + 1
    /\ UNCHANGED <<seq, data, writeTicket, readTicket, ticket, val, out, sent>>

DequeueSpin(p) ==
    /\ Goto(p, "deq_spin", "deq_read")
    /\ seq[Slot(ticket[p])] = ticket[p] + 1
    /\ UNCHANGED <<seq, data, writeTicket, readTicket, ticket, val, out, sent>>

\* Mutation: the slot is released before the value is handed over.
DequeueRead_EarlyRelease(p) ==
    /\ Goto(p, "deq_read", "deq_release")
    /\ val' = [val EXCEPT ![p] = data[Slot(ticket[p])]]
    /\ data' = [data EXCEPT ![Slot(ticket[p])] = NoValue]
    /\ seq' = [seq EXCEPT ![Slot(ticket[p])] = ticket[p] + SIZE]
    /\ UNCHANGED <<writeTicket, readTicket, ticket, out, sent>>

\* Mutation: the slot is computed from the shared counter instead of the ticket.
DequeueRead_SharedIndex(p) ==
    /\ Goto(p, "deq_read", "deq_release")
    /\ val' = [val EXCEPT ![p] = data[Slot(readTicket - 1)]]
    /\ data' = [data EXCEPT ![Slot(readTicket - 1)] = NoValue]
    /\ UNCHANGED <<seq, writeTicket, readTicket, ticket, out, sent>>

DequeueRead(p) ==
    /\ Goto(p, "deq_read", "deq_release")
    /\ val' = [val EXCEPT ![p] = data[Slot(ticket[p])]]
    /\ data' = [data EXCEPT ![Slot(ticket[p])] = NoValue]
    /\ UNCHANGED <<seq, writeTicket, readTicket, ticket, out, sent>>

DequeueRelease(p) ==
    /\ Goto(p, "deq_release", "idle")
    /\ seq' = [seq EXCEPT ![Slot(ticket[p])] = ticket[p] + SIZE]
    /\ out' = [out EXCEPT ![p] = val[p]]
    /\ Return(p)
    /\ UNCHANGED <<data, writeTicket, readTicket, sent>>

-----------------------------------------------------------------------------
(***************************************************************************)
(* tryEnqueue and tryDequeue.  The ticket is loaded relaxed, so the load   *)
(* may return any earlier value of the counter.  The exchange is weak: it  *)
(* may fail although the counter still has the expected value; a failure   *)
(* stores another loaded value in ticket, which the _load step stands for. *)
(***************************************************************************)

TryEnqueueCall(p, v) ==
    /\ p \in Producers
    /\ Goto(p, "idle", "tryenq_load")
    /\ val' = [val EXCEPT ![p] = v]
    /\ UNCHANGED <<seq, data, writeTicket, readTicket, ticket, out, sent>>

TryEnqueueLoad(p) ==
    /\ Goto(p, "tryenq_load", "tryenq_check")
    /\ \E t \in 0 .. writeTicket : ticket' = [ticket EXCEPT ![p] = t]
    /\ UNCHANGED <<seq, data, writeTicket, readTicket, val, out, sent>>

\* The slot is free for this ticket: try to claim it.
TryEnqueueTurn(p) ==
    /\ Goto(p, "tryenq_check", "tryenq_cas")
    /\ seq[Slot(ticket[p])] = ticket[p]
    /\ UNCHANGED <<seq, data, writeTicket, readTicket, ticket, val, out, sent>>

\* Mutation: a stale ticket is taken for a full buffer.
TryEnqueueFull_OnStale(p) ==
    /\ Goto(p, "tryenq_check", "idle")
    /\ seq[Slot(ticket[p])] # ticket[p]
    /\ Return(p)
    /\ UNCHANGED <<seq, data, writeTicket, readTicket, out, sent>>

\* The slot still holds the item from one lap ago: return false.
TryEnqueueFull(p) ==
    /\ Goto(p, "tryenq_check", "idle")
    /\ seq[Slot(ticket[p])] < ticket[p]
    /\ Return(p)
    /\ UNCHANGED <<seq, data, writeTicket, readTicket, out, sent>>

\* Another producer took this ticket first: load again.
TryEnqueueStale(p) ==
    /\ Goto(p, "tryenq_check", "tryenq_load")
    /\ seq[Slot(ticket[p])] > ticket[p]
    /\ UNCHANGED <<seq, data, writeTicket, readTicket, ticket, val, out, sent>>

TryEnqueueCas(p) ==
    /\ Goto(p, "tryenq_cas", "enq_write")
    /\ writeTicket = ticket[p]
    /\ ClaimWrite(p, val[p])

TryEnqueueCasFails(p) ==
    /\ Goto(p, "tryenq_cas", "tryenq_load")
    /\ UNCHANGED <<seq, data, writeTicket, readTicket, ticket, val, out, sent>>

TryDequeueCall(p) ==
    /\ p \in Consumers
    /\ Goto(p, "idle", "trydeq_load")
    /\ UNCHANGED <<seq, data, writeTicket, readTicket, ticket, val, out, sent>>

TryDequeueLoad(p) ==
    /\ Goto(p, "trydeq_load", "trydeq_check")
    /\ \E t \in 0 .. readTicket : ticket' = [ticket EXCEPT ![p] = t]
    /\ UNCHANGED <<seq, data, writeTicket, readTicket, val, out, sent>>

TryDequeueTurn(p) ==
    /\ Goto(p, "trydeq_check", "trydeq_cas")
    /\ seq[Slot(ticket[p])] = ticket[p] + 1
    /\ UNCHANGED <<seq, data, writeTicket, readTicket, ticket, val, out, sent>>

\* Mutation: a stale ticket is taken for an empty buffer.
TryDequeueEmpty_OnStale(p) ==
    /\ Goto(p, "trydeq_check", "idle")
    /\ seq[Slot(ticket[p])] # ticket[p] + 1
    /\ Return(p)
    /\ UNCHANGED <<seq, data, writeTicket, readTicket, out, sent>>

\* Mutation: the failing call has taken a ticket.
TryDequeueEmpty_TakesTicket(p) ==
    /\ Goto(p, "trydeq_check", "idle")
    /\ seq[Slot(ticket[p])] < ticket[p] + 1
    /\ readTicket < MaxTickets
    /\ readTicket' = readTicket + 1
    /\ Return(p)
    /\ UNCHANGED <<seq, data, writeTicket, out, sent>>

\* Not published yet: return false.
TryDequeueEmpty(p) ==
    /\ Goto(p, "trydeq_check", "idle")
    /\ seq[Slot(ticket[p])] < ticket[p] + 1
    /\ Return(p)
    /\ UNCHANGED <<seq, data, writeTicket, readTicket, out, sent>>

\* Another consumer took this ticket first: load again.
TryDequeueStale(p) ==
    /\ Goto(p, "trydeq_check", "trydeq_load")
    /\ seq[Slot(ticket[p])] > ticket[p] + 1
    /\ UNCHANGED <<seq, data, writeTicket, readTicket, ticket, val, out, sent>>

TryDequeueCas(p) ==
    /\ Goto(p, "trydeq_cas", "deq_read")
    /\ readTicket = ticket[p]
    /\ ClaimRead(p)

TryDequeueCasFails(p) ==
    /\ Goto(p, "trydeq_cas", "trydeq_load")
    /\ UNCHANGED <<seq, data, writeTicket, readTicket, ticket, val, out, sent>>

-----------------------------------------------------------------------------
(* approxSize: two loads, of readTicket and then of writeTicket. *)

\* Mutation: a full buffer counts as one less.
ApproxSize_OneFree(read, write) ==
    IF write <= read THEN 0
    ELSE IF write - read >= SIZE THEN SIZE - 1 ELSE write - read

ApproxSize(read, write) ==
    IF write <= read THEN 0
    ELSE IF write - read > SIZE THEN SIZE ELSE write - read

ApproxSizeFirst(p) ==
    /\ Goto(p, "idle", "size_second")
    /\ ticket' = [ticket EXCEPT ![p] = readTicket]
    /\ UNCHANGED <<seq, data, writeTicket, readTicket, val, out, sent>>

ApproxSizeSecond(p) ==
    /\ Goto(p, "size_second", "idle")
    /\ ticket' = [ticket EXCEPT ![p] = ApproxSize(ticket[p], writeTicket)]
    /\ UNCHANGED <<seq, data, writeTicket, readTicket, val, out, sent>>

(* clearBuffer takes no part in the protocol: its callers own the buffer. *)
ClearBuffer ==
    /\ \A p \in Threads : pc[p] = "idle"
    /\ writeTicket' = 0
    /\ readTicket' = 0
    /\ seq' = prepareBuffer
    /\ sent' = <<>>
    /\ UNCHANGED <<data, pc, ticket, val, out>>

-----------------------------------------------------------------------------
Begin(p) ==
    \/ \E v \in Values : EnqueueClaim(p, v) \/ TryEnqueueCall(p, v)
    \/ DequeueClaim(p)
    \/ TryDequeueCall(p)
    \/ ApproxSizeFirst(p)

Continue(p) ==
    \/ EnqueueSpin(p) \/ EnqueueWrite(p) \/ EnqueuePublish(p)
    \/ DequeueSpin(p) \/ DequeueRead(p) \/ DequeueRelease(p)
    \/ TryEnqueueLoad(p) \/ TryEnqueueTurn(p) \/ TryEnqueueFull(p) \/ TryEnqueueStale(p)
    \/ TryEnqueueCas(p) \/ TryEnqueueCasFails(p)
    \/ TryDequeueLoad(p) \/ TryDequeueTurn(p) \/ TryDequeueEmpty(p) \/ TryDequeueStale(p)
    \/ TryDequeueCas(p) \/ TryDequeueCasFails(p)
    \/ ApproxSizeSecond(p)

Next ==
    \/ \E p \in Threads : Begin(p) \/ Continue(p)
    \/ ClearBuffer

Spec == Init /\ [][Next]_vars

-----------------------------------------------------------------------------
\* The value of write ticket k is in its slot, or was; it has left it again.
\* Tickets are served in order within a slot, so both are read off its seq.
Published(k) == seq[Slot(k)] > k
Released(k)  == seq[Slot(k)] > k + 1

Touching == {"enq_write", "enq_publish", "deq_read", "deq_release"}

\* Type correctness: counters, turns and tickets stay in range, approxSize's result (kept in ticket) included.
TypeOK ==
    /\ seq \in [Slots -> Nat]
    /\ data \in [Slots -> Values \cup {NoValue}]
    /\ writeTicket \in 0 .. MaxTickets
    /\ readTicket \in 0 .. MaxTickets
    /\ pc \in [Threads -> PCs]
    /\ ticket \in [Threads -> 0 .. MaxTickets]
    /\ val \in [Threads -> Values \cup {NoValue}]
    /\ out \in [Threads -> Values \cup {NoValue}]
    /\ sent \in Seq(Values)
    /\ Len(sent) = writeTicket

(***************************************************************************)
(* Slot::data is an ordinary object that the code reads and writes outside *)
(* any atomic access (lines 48, 68, 142 and 179): between passing the seq  *)
(* test and storing the new seq a thread has its slot to itself, however   *)
(* blocking and try operations of several laps are mixed.                  *)
(***************************************************************************)
SlotExclusive ==
    \A p, q \in Threads :
        /\ p # q
        /\ pc[p] \in Touching
        /\ pc[q] \in Touching
        => Slot(ticket[p]) # Slot(ticket[q])

(***************************************************************************)
(* A consumer about to return holds the value of exactly its own ticket:   *)
(* nothing is overwritten, delivered twice, torn or out of order, however  *)
(* many laps producers and consumers are apart.                            *)
(***************************************************************************)
DeliversOwnTicket ==
    \A p \in Threads : pc[p] = "deq_release" => val[p] = sent[ticket[p] + 1]

(***************************************************************************)
(* A ticket, once taken from a counter, is either served or still held by  *)
(* a thread that is going to serve it.  A ticket dropped by a try that     *)
(* gives up would leave its slot waiting for ever and with it every later  *)
(* ticket of that slot.                                                    *)
(***************************************************************************)
NoTicketLost ==
    /\ \A k \in 0 .. writeTicket - 1 :
          Published(k) \/ \E p \in Threads : pc[p] \in Writing /\ ticket[p] = k
    /\ \A k \in 0 .. readTicket - 1 :
          Released(k) \/ \E p \in Threads : pc[p] \in Reading /\ ticket[p] = k

(***************************************************************************)
(* Tickets are honoured, in blocking and try operations that race over     *)
(* several laps: none is dropped on the way to its slot, and none is given *)
(* the value of another.                                                   *)
(***************************************************************************)
TicketsHonoured == DeliversOwnTicket /\ NoTicketLost

(***************************************************************************)
(* tryEnqueue returns false only if the buffer is full: some value at      *)
(* least SIZE tickets behind the next free ticket is still in its slot.    *)
(* The ticket it compared may have been stale; the answer is not.          *)
(***************************************************************************)
TryEnqueueFailsOnlyWhenFull ==
    [][\A p \in Threads :
         pc[p] = "tryenq_check" /\ pc'[p] = "idle"
         => \E k \in 0 .. MaxTickets : k + SIZE <= writeTicket /\ ~Released(k)]_vars

(***************************************************************************)
(* tryDequeue returns false only if the buffer is empty for it: a ticket   *)
(* at or before the next read ticket has no published value yet, so every  *)
(* value that could be delivered in order belongs to another consumer.     *)
(***************************************************************************)
TryDequeueFailsOnlyWhenEmpty ==
    [][\A p \in Threads :
         pc[p] = "trydeq_check" /\ pc'[p] = "idle"
         => \E k \in 0 .. readTicket : ~Published(k)]_vars

(***************************************************************************)
(* A failing try tells the truth, although the ticket it has looked at may *)
(* be taken by the time it answers.                                        *)
(***************************************************************************)
TriesAreHonest == TryEnqueueFailsOnlyWhenFull /\ TryDequeueFailsOnlyWhenEmpty

(***************************************************************************)
(* approxSize never reports fewer values than are claimed by producers and *)
(* not by consumers when it returns: readTicket is loaded first, so a      *)
(* consumer that moves in between can only make the answer too large.      *)
(***************************************************************************)
ApproxSizeNotUnderstated ==
    [][\A p \in Threads :
         pc[p] = "size_second" /\ pc'[p] = "idle"
         => ticket'[p] >= writeTicket - readTicket \/ ticket'[p] = SIZE]_vars

-----------------------------------------------------------------------------
(***************************************************************************)
(* The strengthening that makes the properties above inductive.            *)
(***************************************************************************)

\* Tickets in service are claimed, not served yet, and held by one thread only.
ClaimsDistinct ==
    \A p, q \in Threads :
        p # q => /\ pc[p] \in Writing /\ pc[q] \in Writing => ticket[p] # ticket[q]
                 /\ pc[p] \in Reading /\ pc[q] \in Reading => ticket[p] # ticket[q]

ClaimsPending ==
    \A p \in Threads :
        /\ pc[p] \in Writing => ticket[p] < writeTicket /\ ~Published(ticket[p])
        /\ pc[p] \in Reading => ticket[p] < readTicket /\ ~Released(ticket[p])

\* A ticket nobody has claimed yet has not been served.
UnclaimedUnserved ==
    \A k \in 0 .. MaxTickets :
        /\ k >= writeTicket => ~Published(k)
        /\ k >= readTicket => ~Released(k)

\* A thread past its seq test still finds the seq it tested.
TurnHeld ==
    \A p \in Threads :
        /\ pc[p] \in {"enq_write", "enq_publish"} => seq[Slot(ticket[p])] = ticket[p]
        /\ pc[p] \in {"deq_read", "deq_release"} => seq[Slot(ticket[p])] = ticket[p] + 1
        /\ pc[p] = "tryenq_cas" => seq[Slot(ticket[p])] >= ticket[p]
        /\ pc[p] = "trydeq_cas" => seq[Slot(ticket[p])] >= ticket[p] + 1

\* Where the value of a write ticket is, from the claim to the delivery.
ValueCarried ==
    \A p \in Threads :
        /\ pc[p] \in {"enq_spin", "enq_write"} => val[p] = sent[ticket[p] + 1]
        /\ pc[p] = "enq_publish" => data[Slot(ticket[p])] = sent[ticket[p] + 1]
        /\ pc[p] \in {"tryenq_load", "tryenq_check", "tryenq_cas"} => val[p] \in Values

ValueInSlot ==
    \A k \in 0 .. writeTicket - 1 :
        seq[Slot(k)] = k + 1
        => \/ data[Slot(k)] = sent[k + 1]
           \/ \E p \in Threads : pc[p] = "deq_release" /\ ticket[p] = k

IInv ==
    /\ TypeOK
    /\ ClaimsDistinct
    /\ ClaimsPending
    /\ UnclaimedUnserved
    /\ TurnHeld
    /\ ValueCarried
    /\ ValueInSlot
    /\ DeliversOwnTicket
    /\ NoTicketLost

\* A ticket loaded by a try operation or by approxSize is never ahead of the counter.
LoadedBehind ==
    \A p \in Threads :
        /\ pc[p] \in {"tryenq_check", "tryenq_cas"} => ticket[p] <= writeTicket
        /\ pc[p] \in {"trydeq_check", "trydeq_cas", "size_second"} => ticket[p] <= readTicket

\* A slot waits for a ticket of its own or holds the value of one.
SeqShape ==
    \A i \in Slots : Slot(seq[i]) = i \/ (seq[i] > 0 /\ Slot(seq[i] - 1) = i)

-----------------------------------------------------------------------------
(* The promise: every step of the ring buffer is a step of the ticket queue. *)
Queue == INSTANCE TicketQueue WITH
    Consumers <- Threads,
    offers   <- sent,
    demanded <- readTicket,
    placed   <- {k \in 0 .. MaxTickets : Published(k)},
    taken    <- {k \in 0 .. MaxTickets : Released(k)},
    result   <- out

ImplementsTicketQueue == Queue!AbsSpec

(***************************************************************************)
(* Liveness.  A thread inside an operation keeps running (the spin loops   *)
(* have no other exit); starting an operation is the caller's choice.      *)
(* Then every value that was offered and asked for is delivered: no        *)
(* producer or consumer of a lap waits for ever on a slot.                 *)
(***************************************************************************)
Fairness == \A p \in Threads : WF_vars(Continue(p))

FairSpec == Spec /\ Fairness

EveryMatchedTicketDelivered ==
    \A k \in 0 .. MaxTickets - 1 :
        (k < writeTicket /\ k < readTicket) ~> (Released(k) \/ writeTicket = 0)
=============================================================================
