--------------------------- MODULE OrderbookArrays ---------------------------
(***************************************************************************)
(* The slots that carry depth events from the stream thread, which decodes *)
(* into them (DepthDecoder), to the orderbook thread, which applies them   *)
(* and hands them back (OrderbookArrayHolder).                             *)
(*                                                                         *)
(* Free slots wait in an AtomicRingBuffer.  Its cells are kept here in the *)
(* order of their write tickets, as TicketQueue promises: a cell exists    *)
(* from the moment a releasing thread has claimed its ticket, but it can   *)
(* be dequeued only once it is published, and only in ticket order.        *)
(* A counter next to the ring tells acquire() whether to try at all.       *)
(***************************************************************************)
EXTENDS Integers, Sequences

CONSTANTS
    SLOTS,          \* slots of the holder, 128 in the code; also the size of the ring
    BufferSize      \* capacity of the stream's bufferOut, 1024 in the code

ASSUME SlotsAssumption == SLOTS \in Nat
ASSUME BufferAssumption == BufferSize \in Nat

Slots == 0 .. SLOTS - 1

NoSlot == -1        \* the slot of a dropped event

Stream == "stream"              \* the thread that runs DepthDecoder::operator()
Book   == "orderbook"           \* the thread that runs Orderbook::executionLoop
Threads == {Stream, Book}

VARIABLES
    freeSlots,      \* the ring: cells [slot, published] in ticket order
    freeCount,
    bufferOut,      \* the events in flight, by slot
    pc,             \* where each thread is
    slot            \* the slot each thread is working with

vars == <<freeSlots, freeCount, bufferOut, pc, slot>>

Init ==
    /\ freeSlots = [i \in 1 .. SLOTS |-> [slot |-> i - 1, published |-> TRUE]]
    /\ freeCount = SLOTS
    /\ bufferOut = <<>>
    /\ pc = [p \in Threads |-> "idle"]
    /\ slot = [p \in Threads |-> NoSlot]

Goto(p, from, to) ==
    /\ pc[p] = from
    /\ pc' = [pc EXCEPT ![p] = to]

-----------------------------------------------------------------------------
(* acquire(), called by the decoder for every message. *)

AcquireEmpty ==
    /\ Goto(Stream, "idle", "deliver")
    /\ freeCount = 0
    /\ UNCHANGED <<freeSlots, freeCount, bufferOut, slot>>

AcquireLoad ==
    /\ Goto(Stream, "idle", "acq_sub")
    /\ freeCount # 0
    /\ UNCHANGED <<freeSlots, freeCount, bufferOut, slot>>

\* Mutation: the slot is not counted out.
AcquireSub_Forgotten ==
    /\ Goto(Stream, "acq_sub", "acq_take")
    /\ UNCHANGED <<freeSlots, freeCount, bufferOut, slot>>

AcquireSub ==
    /\ Goto(Stream, "acq_sub", "acq_take")
    /\ freeCount' = freeCount - 1
    /\ UNCHANGED <<freeSlots, bufferOut, slot>>

\* freeSlots.dequeue(): the only dequeuer gets the oldest cell, once it is published.
AcquireTake ==
    /\ Goto(Stream, "acq_take", "decode")
    /\ freeSlots # <<>>
    /\ Head(freeSlots).published
    /\ slot' = [slot EXCEPT ![Stream] = Head(freeSlots).slot]
    /\ freeSlots' = Tail(freeSlots)
    /\ UNCHANGED <<freeCount, bufferOut>>

-----------------------------------------------------------------------------
(* release(): into the ring first, then into the counter. *)

ReleaseClaim(p) ==
    /\ Goto(p, "rel_claim", "rel_publish")
    /\ freeSlots' = Append(freeSlots, [slot |-> slot[p], published |-> FALSE])
    /\ UNCHANGED <<freeCount, bufferOut, slot>>

\* Mutation: the ring is taken for full one cell early.
ReleasePublish_FullEarly(p) ==
    /\ Goto(p, "rel_publish", "rel_count")
    /\ \E i \in 1 .. Len(freeSlots) :
          /\ freeSlots[i].slot = slot[p]
          /\ i < SLOTS
          /\ freeSlots' = [freeSlots EXCEPT ![i].published = TRUE]
    /\ UNCHANGED <<freeCount, bufferOut, slot>>

\* enqueue spins while the cell a lap ago is still in the ring.
ReleasePublish(p) ==
    /\ Goto(p, "rel_publish", "rel_count")
    /\ \E i \in 1 .. Len(freeSlots) :
          /\ freeSlots[i].slot = slot[p]
          /\ i <= SLOTS
          /\ freeSlots' = [freeSlots EXCEPT ![i].published = TRUE]
    /\ UNCHANGED <<freeCount, bufferOut, slot>>

\* Mutation: the event is handed on with the slot that was just given back.
ReleaseCount_KeepsSlot(p) ==
    /\ Goto(p, "rel_count", IF p = Stream THEN "deliver" ELSE "idle")
    /\ freeCount' = freeCount + 1
    /\ UNCHANGED <<freeSlots, bufferOut, slot>>

\* The decoder goes on with a dropped event, the orderbook with the next one.
ReleaseCount(p) ==
    /\ Goto(p, "rel_count", IF p = Stream THEN "deliver" ELSE "idle")
    /\ freeCount' = freeCount + 1
    /\ slot' = [slot EXCEPT ![p] = NoSlot]
    /\ UNCHANGED <<freeSlots, bufferOut>>

-----------------------------------------------------------------------------
(* The rest of the decoder, and what the stream thread does with its result. *)

Decode ==
    /\ Goto(Stream, "decode", "deliver")
    /\ UNCHANGED <<freeSlots, freeCount, bufferOut, slot>>

\* Too many levels, a short pair, or a parse error: the decoder releases the slot itself.
DecodeFails ==
    /\ Goto(Stream, "decode", "rel_claim")
    /\ UNCHANGED <<freeSlots, freeCount, bufferOut, slot>>

Deliver ==
    /\ Goto(Stream, "deliver", "idle")
    /\ Len(bufferOut) < BufferSize
    /\ bufferOut' = Append(bufferOut, slot[Stream])
    /\ slot' = [slot EXCEPT ![Stream] = NoSlot]
    /\ UNCHANGED <<freeSlots, freeCount>>

(* The orderbook thread takes an event, looks at it and releases its slot. *)

NextUpdate ==
    /\ bufferOut # <<>>
    /\ Head(bufferOut) # NoSlot
    /\ Goto(Book, "idle", "look")
    /\ slot' = [slot EXCEPT ![Book] = Head(bufferOut)]
    /\ bufferOut' = Tail(bufferOut)
    /\ UNCHANGED <<freeSlots, freeCount>>

NextUpdateDropped ==
    /\ bufferOut # <<>>
    /\ Head(bufferOut) = NoSlot
    /\ pc[Book] = "idle"
    /\ bufferOut' = Tail(bufferOut)
    /\ UNCHANGED <<freeSlots, freeCount, pc, slot>>

LookedAt ==
    /\ Goto(Book, "look", "rel_claim")
    /\ UNCHANGED <<freeSlots, freeCount, bufferOut, slot>>

-----------------------------------------------------------------------------
Release(p) == ReleaseClaim(p) \/ ReleasePublish(p) \/ ReleaseCount(p)

StreamStep ==
    \/ AcquireEmpty \/ AcquireLoad \/ AcquireSub \/ AcquireTake
    \/ Decode \/ DecodeFails \/ Deliver
    \/ Release(Stream)

BookStep == NextUpdate \/ NextUpdateDropped \/ LookedAt \/ Release(Book)

Next == StreamStep \/ BookStep

Spec == Init /\ [][Next]_vars

(***************************************************************************)
(* Both threads keep running.  The stream thread may stay between two      *)
(* messages for ever, so it is fair only inside an operation.              *)
(***************************************************************************)
FairSpec ==
    /\ Spec
    /\ WF_vars(BookStep)
    /\ WF_vars(StreamStep /\ pc[Stream] # "idle")

-----------------------------------------------------------------------------
PCs == {"idle", "acq_sub", "acq_take", "decode", "deliver", "look",
        "rel_claim", "rel_publish", "rel_count"}

\* Type correctness: cells, buffer and threads hold slots, and the counter never goes below zero.
TypeOK ==
    /\ freeSlots \in Seq([slot : Slots, published : BOOLEAN])
    /\ freeCount \in Nat
    /\ bufferOut \in Seq(Slots \cup {NoSlot})
    /\ pc \in [Threads -> PCs]
    /\ slot \in [Threads -> Slots \cup {NoSlot}]

\* A thread has its slot to itself until the ring has a cell for it.
Holds(p, s) ==
    /\ slot[p] = s
    /\ pc[p] \in {"decode", "deliver", "look", "rel_claim"}

InRing(s)   == \E i \in 1 .. Len(freeSlots) : freeSlots[i].slot = s
InFlight(s) == \E i \in 1 .. Len(bufferOut) : bufferOut[i] = s

(***************************************************************************)
(* A slot is in exactly one place: free in the ring, in the hands of one   *)
(* thread, or in flight with one event.  So no event is overwritten while  *)
(* it waits, and none of the decoder's and the orderbook's early returns   *)
(* loses a slot or gives it back twice.                                    *)
(***************************************************************************)
SlotHasOneOwner ==
    /\ \A i, j \in 1 .. Len(freeSlots) : freeSlots[i].slot = freeSlots[j].slot => i = j
    /\ \A i, j \in 1 .. Len(bufferOut) : bufferOut[i] = bufferOut[j] /\ bufferOut[i] # NoSlot => i = j
    /\ \A s \in Slots :
          /\ InRing(s) \/ InFlight(s) \/ \E p \in Threads : Holds(p, s)
          /\ ~(InRing(s) /\ InFlight(s))
          /\ \A p \in Threads : Holds(p, s) => ~InRing(s) /\ ~InFlight(s)
          /\ ~(Holds(Stream, s) /\ Holds(Book, s))

(***************************************************************************)
(* When acquire() has counted a slot out, there is a cell in the ring for  *)
(* it: the dequeue waits at most for a release in progress, never for an   *)
(* event that is still queued.                                             *)
(***************************************************************************)
AcquireFindsSlot == pc[Stream] = "acq_take" => freeSlots # <<>>

(***************************************************************************)
(* The decoder is never stuck in acquire() or release(), and no release by *)
(* the orderbook is: whoever is waited for is on its way.                  *)
(***************************************************************************)
HolderReturns ==
    /\ (pc[Stream] = "acq_take") ~> (pc[Stream] = "decode")
    /\ \A p \in Threads : (pc[p] = "rel_claim") ~> (pc[p] \in {"idle", "deliver"})

-----------------------------------------------------------------------------
(* The strengthening that makes SlotHasOneOwner and AcquireFindsSlot inductive. *)

\* Where a thread has a slot in its hands, and where it has none.
Carries ==
    /\ pc[Stream] # "look"
    /\ pc[Book] \in {"idle", "look", "rel_claim", "rel_publish", "rel_count"}
    /\ \A p \in Threads :
          /\ pc[p] \in {"idle", "acq_sub", "acq_take"} => slot[p] = NoSlot
          /\ pc[p] \in {"decode", "look", "rel_claim", "rel_publish", "rel_count"} => slot[p] \in Slots

Taking == IF pc[Stream] = "acq_take" THEN 1 ELSE 0
Uncounted(p) == IF pc[p] \in {"rel_publish", "rel_count"} THEN 1 ELSE 0

\* The counter lags behind the ring by the operations in progress.
FreeCountAccounts ==
    /\ Len(freeSlots) = freeCount + Taking + Uncounted(Stream) + Uncounted(Book)
    /\ pc[Stream] = "acq_sub" => freeCount >= 1

IInv ==
    /\ TypeOK
    /\ Carries
    /\ FreeCountAccounts
    /\ SlotHasOneOwner
=============================================================================
