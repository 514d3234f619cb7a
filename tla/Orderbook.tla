------------------------------ MODULE Orderbook ------------------------------
(***************************************************************************)
(* The local order book of one futures pair (APIManager::Orderbook).  The  *)
(* orderbook thread takes a REST snapshot, aligns it with the depth diffs  *)
(* that the stream thread queues in bufferOut, and then follows the diffs; *)
(* whatever breaks the chain of update ids makes it start again from a new *)
(* snapshot.  Users read isSynced(), error() and the levels meanwhile.     *)
(*                                                                         *)
(* Every update the exchange makes to the pair has an id and changes one   *)
(* level.  The volume it gives the level is told apart by that id alone,   *)
(* so a book maps each level to the id of the update its volume is from.   *)
(* A level removed by update n is the level with volume "n", and 0 means   *)
(* that neither a snapshot nor an event has mentioned the level.           *)
(*                                                                         *)
(* The exchange and the connection are external.  A diff may reach the     *)
(* stream thread late, so a snapshot may be ahead of the diffs or behind.  *)
(***************************************************************************)
EXTENDS Integers, Sequences, FiniteSets

CONSTANTS
    Levels,             \* price levels
    SLOTS,              \* depth event slots, 128 in the code
    BufferSize,         \* capacity of bufferOut, 1024 in the code
    SnapshotAttempts,   \* snapshotAttempts, 3 in the code
    MaxFailedSyncs,     \* maxFailedSyncs, 5 in the code
    MaxUpdates          \* bound: update ids of the exchange

ASSUME BoundsAssumption ==
    /\ SLOTS \in Nat /\ BufferSize \in Nat
    /\ SnapshotAttempts \in Nat \ {0} /\ MaxFailedSyncs \in Nat \ {0} /\ MaxUpdates \in Nat \ {0}

VARIABLES
    exchange,       \* history: the exchange's book after each update id
    sent,           \* the last update id the stream has delivered or lost
    streamRunning,  \* websocketStream.isRunning()
    bufferOut,      \* the queued depth events
    freeSlots,      \* how many event slots are free
    pc,             \* where the orderbook thread is
    sawEmpty,       \* waitForUpdate has just found bufferOut empty
    running,
    synced,
    lastError,
    book,           \* bidBook and askBook
    updateID,
    attempt,        \* snapshot attempts of this resync
    failedSyncs,
    snapshotID,     \* history: the id of the snapshot the book started from
    destroyed       \* ~Orderbook has been called

feedVars  == <<exchange, sent, streamRunning>>
queueVars == <<bufferOut, freeSlots>>
bookVars  == <<book, updateID, snapshotID>>
flagVars  == <<running, synced, lastError, destroyed>>
syncVars  == <<attempt, failedSyncs>>
vars == <<feedVars, queueVars, bookVars, flagVars, syncVars, pc, sawEmpty>>

Dropped == [dropped |-> TRUE, pu |-> 0, U |-> 0, u |-> 0]

Event(from, to) == [dropped |-> FALSE, pu |-> from, U |-> from + 1, u |-> to]

Init ==
    /\ exchange = <<[l \in Levels |-> 1]>>
    /\ sent = 1
    /\ streamRunning = TRUE
    /\ bufferOut = <<>>
    /\ freeSlots = SLOTS
    /\ pc = "start"
    /\ sawEmpty = FALSE
    /\ running = TRUE
    /\ synced = FALSE
    /\ lastError = "none"
    /\ book = [l \in Levels |-> 0]
    /\ updateID = 0
    /\ attempt = 0
    /\ failedSyncs = 0
    /\ snapshotID = 0
    /\ destroyed = FALSE

-----------------------------------------------------------------------------
(* The exchange, and the stream thread as the orderbook thread sees it. *)

ExchangeUpdate(l) ==
    /\ Len(exchange) < MaxUpdates
    /\ exchange' = Append(exchange, [exchange[Len(exchange)] EXCEPT ![l] = Len(exchange) + 1])
    /\ UNCHANGED <<sent, streamRunning, queueVars, bookVars, flagVars, syncVars, pc, sawEmpty>>

\* A diff of the updates since the last one is decoded into a slot and queued.
StreamDelivers(to) ==
    /\ streamRunning
    /\ Len(bufferOut) < BufferSize
    /\ freeSlots > 0
    /\ to \in sent + 1 .. Len(exchange)
    /\ bufferOut' = Append(bufferOut, Event(sent, to))
    /\ freeSlots' = freeSlots - 1
    /\ sent' = to
    /\ UNCHANGED <<exchange, streamRunning, bookVars, flagVars, syncVars, pc, sawEmpty>>

\* The decoder drops what it cannot decode or has no slot for.  After a reconnect it
\* does the same with an empty message, and the diffs of the meantime are gone.
StreamDrops(to) ==
    /\ streamRunning
    /\ Len(bufferOut) < BufferSize
    /\ to \in sent .. Len(exchange)
    /\ bufferOut' = Append(bufferOut, Dropped)
    /\ sent' = to
    /\ UNCHANGED <<exchange, streamRunning, freeSlots, bookVars, flagVars, syncVars, pc, sawEmpty>>

\* The exchange leaves updates out without a trace but the next diff's pu.
FeedSkips(to) ==
    /\ to \in sent + 1 .. Len(exchange)
    /\ sent' = to
    /\ UNCHANGED <<exchange, streamRunning, queueVars, bookVars, flagVars, syncVars, pc, sawEmpty>>

\* The stream is out of reconnect attempts.
StreamGivesUp ==
    /\ streamRunning
    /\ streamRunning' = FALSE
    /\ UNCHANGED <<exchange, sent, queueVars, bookVars, flagVars, syncVars, pc, sawEmpty>>

-----------------------------------------------------------------------------
(* stop: the reason first, then synced, then running. *)

\* Mutation: running is cleared before the reason is there.
Stop_RunningFirst(error) ==
    /\ running' = FALSE
    /\ pc' = "stop_synced"
    /\ UNCHANGED <<lastError, synced, destroyed>>

Stop(error) ==
    /\ lastError' = error
    /\ pc' = "stop_synced"
    /\ UNCHANGED <<running, synced, destroyed>>

StopSynced ==
    /\ pc = "stop_synced"
    /\ synced' = FALSE
    /\ pc' = "stop_running"
    /\ UNCHANGED <<feedVars, queueVars, bookVars, running, lastError, destroyed, syncVars, sawEmpty>>

StopRunning ==
    /\ pc = "stop_running"
    /\ running' = FALSE
    /\ pc' = "done"
    /\ UNCHANGED <<feedVars, queueVars, bookVars, synced, lastError, destroyed, syncVars, sawEmpty>>

-----------------------------------------------------------------------------
(* waitForUpdate, called from the three places of Waiting. *)

Waiting == {"wait", "align", "follow"}

WaitEmpty ==
    /\ pc \in Waiting
    /\ ~sawEmpty
    /\ bufferOut = <<>>
    /\ sawEmpty' = TRUE
    /\ UNCHANGED <<feedVars, queueVars, bookVars, flagVars, syncVars, pc>>

WaitAgain ==
    /\ sawEmpty
    /\ running
    /\ streamRunning
    /\ sawEmpty' = FALSE
    /\ UNCHANGED <<feedVars, queueVars, bookVars, flagVars, syncVars, pc>>

\* Mutation: the wait goes on while the book is stopping.
WaitStopping_Ignored ==
    /\ sawEmpty
    /\ ~running
    /\ sawEmpty' = FALSE
    /\ UNCHANGED <<feedVars, queueVars, bookVars, flagVars, syncVars, pc>>

\* The book is stopping: every caller of waitForUpdate returns.
WaitStopping ==
    /\ sawEmpty
    /\ ~running
    /\ sawEmpty' = FALSE
    /\ pc' = "done"
    /\ UNCHANGED <<feedVars, queueVars, bookVars, flagVars, syncVars>>

\* Mutation: the wait goes on although the stream has given up.
WaitDisconnected_Ignored ==
    /\ sawEmpty
    /\ running
    /\ ~streamRunning
    /\ sawEmpty' = FALSE
    /\ UNCHANGED <<feedVars, queueVars, bookVars, flagVars, syncVars, pc>>

WaitDisconnected ==
    /\ sawEmpty
    /\ running
    /\ ~streamRunning
    /\ sawEmpty' = FALSE
    /\ Stop("DISCONNECTED")
    /\ UNCHANGED <<feedVars, queueVars, bookVars, syncVars>>

\* nextUpdate has an event: take it out of the buffer and, once looked at, release it.
Update == Head(bufferOut)

TakeUpdate ==
    /\ ~sawEmpty
    /\ bufferOut # <<>>
    /\ bufferOut' = Tail(bufferOut)
    /\ freeSlots' = IF Update.dropped THEN freeSlots ELSE freeSlots + 1
    /\ UNCHANGED <<feedVars, flagVars, sawEmpty>>

-----------------------------------------------------------------------------
(* executionLoop up to the snapshot. *)

LoadTickSize ==
    /\ pc = "start"
    /\ pc' = "wait"
    /\ UNCHANGED <<feedVars, queueVars, bookVars, flagVars, syncVars, sawEmpty>>

LoadTickSizeFails ==
    /\ pc = "start"
    /\ Stop("FETCH")
    /\ UNCHANGED <<feedVars, queueVars, bookVars, syncVars, sawEmpty>>

FirstUpdateSeen ==
    /\ pc = "wait"
    /\ ~sawEmpty
    /\ bufferOut # <<>>
    /\ failedSyncs' = 0
    /\ pc' = "loop"
    /\ UNCHANGED <<feedVars, queueVars, bookVars, flagVars, attempt, sawEmpty>>

\* Mutation: the old levels are still offered as synced during the resync.
ResyncBegin_StaysSynced ==
    /\ pc = "loop"
    /\ running
    /\ attempt' = 1
    /\ pc' = "fetch"
    /\ UNCHANGED <<feedVars, queueVars, bookVars, flagVars, failedSyncs, sawEmpty>>

ResyncBegin ==
    /\ pc = "loop"
    /\ running
    /\ synced' = FALSE
    /\ attempt' = 1
    /\ pc' = "fetch"
    /\ UNCHANGED <<feedVars, queueVars, bookVars, running, lastError, destroyed, failedSyncs, sawEmpty>>

LoopEnds ==
    /\ pc = "loop"
    /\ ~running
    /\ pc' = "done"
    /\ UNCHANGED <<feedVars, queueVars, bookVars, flagVars, syncVars, sawEmpty>>

FetchRetried ==
    /\ pc = "fetch"
    /\ attempt < SnapshotAttempts
    /\ running
    /\ attempt' = attempt + 1
    /\ UNCHANGED <<feedVars, queueVars, bookVars, flagVars, failedSyncs, pc, sawEmpty>>

FetchFails ==
    /\ pc = "fetch"
    /\ attempt = SnapshotAttempts \/ ~running
    /\ Stop("FETCH")
    /\ UNCHANGED <<feedVars, queueVars, bookVars, syncVars, sawEmpty>>

\* Mutation: the snapshot is applied on top of the old levels.
ApplySnapshot_OnTop(id, covered) ==
    /\ book' = [l \in Levels |-> IF l \in covered THEN exchange[id][l] ELSE book[l]]
    /\ updateID' = id
    /\ snapshotID' = id

\* Both sides are cleared; the snapshot has only the best levels of each.
ApplySnapshot(id, covered) ==
    /\ book' = [l \in Levels |-> IF l \in covered THEN exchange[id][l] ELSE 0]
    /\ updateID' = id
    /\ snapshotID' = id

FetchSucceeds(id, covered) ==
    /\ pc = "fetch"
    /\ ApplySnapshot(id, covered)
    /\ pc' = "align"
    /\ UNCHANGED <<feedVars, queueVars, flagVars, syncVars, sawEmpty>>

-----------------------------------------------------------------------------
(* Applying an event: its entries are absolute volumes, bids first. *)

Touched(e) == {l \in Levels : exchange[e.u][l] >= e.U}

ApplyEntries(e, entries) ==
    book' = [l \in Levels |-> IF l \in entries THEN exchange[e.u][l] ELSE book[l]]

ApplyUpdate(e) ==
    /\ ApplyEntries(e, Touched(e))
    /\ updateID' = e.u
    /\ UNCHANGED snapshotID

\* A side ran out of room: the entries before that one stay applied.
ApplyUpdateFails(e, entries) ==
    /\ entries \in SUBSET Touched(e) /\ entries # Touched(e)
    /\ ApplyEntries(e, entries)
    /\ UNCHANGED <<updateID, snapshotID>>

(* applyFirstUpdate *)

AlignDropped ==
    /\ pc = "align"
    /\ TakeUpdate
    /\ Update.dropped
    /\ pc' = "failed"
    /\ UNCHANGED <<bookVars, syncVars>>

AlignSkips ==
    /\ pc = "align"
    /\ TakeUpdate
    /\ ~Update.dropped
    /\ Update.u < updateID
    /\ UNCHANGED <<bookVars, syncVars, pc>>

AlignGap ==
    /\ pc = "align"
    /\ TakeUpdate
    /\ ~Update.dropped
    /\ Update.u >= updateID
    /\ Update.U > updateID
    /\ pc' = "failed"
    /\ UNCHANGED <<bookVars, syncVars>>

\* The event straddles the snapshot.
Straddles(e) == ~e.dropped /\ e.u >= updateID /\ e.U <= updateID

\* Mutation: the event may begin after the snapshot.
AlignApplies_NoLowerEnd ==
    /\ pc = "align"
    /\ TakeUpdate
    /\ ~Update.dropped /\ Update.u >= updateID
    /\ ApplyUpdate(Update)
    /\ pc' = "aligned"
    /\ UNCHANGED syncVars

AlignApplies ==
    /\ pc = "align"
    /\ TakeUpdate
    /\ Straddles(Update)
    /\ ApplyUpdate(Update)
    /\ pc' = "aligned"
    /\ UNCHANGED syncVars

AlignSideFull(entries) ==
    /\ pc = "align"
    /\ TakeUpdate
    /\ Straddles(Update)
    /\ ApplyUpdateFails(Update, entries)
    /\ pc' = "failed"
    /\ UNCHANGED syncVars

AlignStopping ==
    /\ pc = "failed"
    /\ ~running
    /\ pc' = "done"
    /\ UNCHANGED <<feedVars, queueVars, bookVars, flagVars, syncVars, sawEmpty>>

AlignFailed ==
    /\ pc = "failed"
    /\ running
    /\ failedSyncs + 1 # MaxFailedSyncs
    /\ failedSyncs' = failedSyncs + 1
    /\ pc' = "loop"
    /\ UNCHANGED <<feedVars, queueVars, bookVars, flagVars, attempt, sawEmpty>>

AlignGivesUp ==
    /\ pc = "failed"
    /\ running
    /\ failedSyncs + 1 = MaxFailedSyncs
    /\ failedSyncs' = failedSyncs + 1
    /\ Stop("ORDERBOOK_OUTDATED")
    /\ UNCHANGED <<feedVars, queueVars, bookVars, attempt, sawEmpty>>

SetSynced ==
    /\ pc = "aligned"
    /\ failedSyncs' = 0
    /\ synced' = TRUE
    /\ pc' = "follow"
    /\ UNCHANGED <<feedVars, queueVars, bookVars, running, lastError, destroyed, attempt, sawEmpty>>

-----------------------------------------------------------------------------
(* Following the stream: each event must continue where the last one ended. *)

Continues(e) == ~e.dropped /\ e.pu = updateID

\* Mutation: a gap between two events is not noticed.
FollowApplies_AnyNewer ==
    /\ pc = "follow"
    /\ TakeUpdate
    /\ ~Update.dropped /\ Update.pu >= updateID
    /\ ApplyUpdate(Update)
    /\ UNCHANGED <<pc, syncVars>>

FollowApplies ==
    /\ pc = "follow"
    /\ TakeUpdate
    /\ Continues(Update)
    /\ ApplyUpdate(Update)
    /\ UNCHANGED <<pc, syncVars>>

\* Mutation: the slot of an event out of order is not released.
FollowBreaks_Leaks ==
    /\ pc = "follow"
    /\ ~sawEmpty
    /\ bufferOut # <<>>
    /\ bufferOut' = Tail(bufferOut)
    /\ ~Continues(Update)
    /\ pc' = "loop"
    /\ UNCHANGED <<feedVars, freeSlots, bookVars, flagVars, syncVars, sawEmpty>>

FollowBreaks ==
    /\ pc = "follow"
    /\ TakeUpdate
    /\ ~Continues(Update)
    /\ pc' = "loop"
    /\ UNCHANGED <<bookVars, syncVars>>

FollowSideFull(entries) ==
    /\ pc = "follow"
    /\ TakeUpdate
    /\ Continues(Update)
    /\ ApplyUpdateFails(Update, entries)
    /\ pc' = "loop"
    /\ UNCHANGED syncVars

-----------------------------------------------------------------------------
(* ~Orderbook clears running and joins the thread. *)
Destroy ==
    /\ ~destroyed
    /\ destroyed' = TRUE
    /\ running' = FALSE
    /\ UNCHANGED <<feedVars, queueVars, bookVars, synced, lastError, syncVars, pc, sawEmpty>>

BookStep ==
    \/ StopSynced \/ StopRunning
    \/ WaitEmpty \/ WaitAgain \/ WaitStopping \/ WaitDisconnected
    \/ LoadTickSize \/ LoadTickSizeFails \/ FirstUpdateSeen
    \/ ResyncBegin \/ LoopEnds \/ FetchRetried \/ FetchFails
    \/ \E id \in 1 .. Len(exchange), covered \in SUBSET Levels : FetchSucceeds(id, covered)
    \/ AlignStopping \/ AlignFailed \/ AlignGivesUp \/ SetSynced
    \/ AlignDropped \/ AlignSkips \/ AlignGap \/ AlignApplies
    \/ FollowApplies \/ FollowBreaks
    \/ \E entries \in SUBSET Levels : AlignSideFull(entries) \/ FollowSideFull(entries)

FeedStep ==
    \/ \E l \in Levels : ExchangeUpdate(l)
    \/ \E to \in 1 .. Len(exchange) : StreamDelivers(to) \/ StreamDrops(to) \/ FeedSkips(to)
    \/ StreamGivesUp

Next == BookStep \/ FeedStep \/ Destroy

Spec == Init /\ [][Next]_vars

(***************************************************************************)
(* The orderbook thread keeps running and every REST call returns.  The    *)
(* bound on update ids stands for a stream that is slower than the thread. *)
(***************************************************************************)
FairSpec == Spec /\ WF_vars(BookStep)

-----------------------------------------------------------------------------
PCs == {"start", "wait", "loop", "fetch", "align", "failed", "aligned", "follow",
        "stop_synced", "stop_running", "done"}

UpdateIds == 0 .. MaxUpdates

Events == [dropped : BOOLEAN, pu : UpdateIds, U : UpdateIds, u : UpdateIds]

\* Type correctness: update ids, attempts and failures stay within their bounds.
TypeOK ==
    /\ exchange \in Seq([Levels -> UpdateIds])
    /\ Len(exchange) \in UpdateIds \ {0}
    /\ sent \in 1 .. Len(exchange)
    /\ streamRunning \in BOOLEAN
    /\ bufferOut \in Seq(Events)
    /\ freeSlots \in Nat
    /\ pc \in PCs
    /\ sawEmpty \in BOOLEAN
    /\ running \in BOOLEAN
    /\ synced \in BOOLEAN
    /\ lastError \in {"none", "FETCH", "DISCONNECTED", "ORDERBOOK_OUTDATED"}
    /\ book \in [Levels -> UpdateIds]
    /\ updateID \in UpdateIds
    /\ attempt \in 0 .. SnapshotAttempts
    /\ failedSyncs \in 0 .. MaxFailedSyncs
    /\ snapshotID \in UpdateIds
    /\ destroyed \in BOOLEAN

\* Every level in the book has the volume the exchange gave it last, up to updateID;
\* a level is missing only if nothing happened to it since the snapshot.
Matches ==
    \A l \in Levels :
        \/ book[l] = exchange[updateID][l]
        \/ book[l] = 0 /\ exchange[updateID][l] <= snapshotID

(***************************************************************************)
(* From the alignment on, until an event breaks the chain, the book is the *)
(* exchange's book at updateID: no diff is skipped, applied twice with an  *)
(* effect, or applied to the wrong snapshot, whatever the stream drops,    *)
(* delays or loses in a reconnect and however old the snapshot is.         *)
(***************************************************************************)
FollowedBookIsExchangeBook == pc \in {"aligned", "follow"} => Matches

(***************************************************************************)
(* Until the first alignment, during a resync and after a stop, isSynced() *)
(* is false.                                                               *)
(***************************************************************************)
UnsyncedOutsideFollowing ==
    \/ pc \in {"start", "wait", "fetch", "align", "failed", "aligned", "stop_running"}
    \/ pc = "done" /\ ~destroyed
    => ~synced

(***************************************************************************)
(* A user who sees the book not running also finds the reason in error(),  *)
(* and a synced book never has one.  stop() relies on the order of its     *)
(* three stores for that.                                                  *)
(***************************************************************************)
StopExplained ==
    /\ ~running /\ ~destroyed => lastError # "none"
    /\ synced /\ pc = "follow" => lastError = "none"

(***************************************************************************)
(* What isSynced(), isRunning() and error() say, read one by one and       *)
(* without a lock, is true of the book at every moment of a resync or a    *)
(* stop.                                                                   *)
(***************************************************************************)
FlagsTellTheTruth == UnsyncedOutsideFollowing /\ StopExplained

(***************************************************************************)
(* Every event that holds a slot is in bufferOut: all the ways out of      *)
(* applyFirstUpdate and of the following loop release the slot they took.  *)
(***************************************************************************)
SlotsConserved ==
    freeSlots + Cardinality({i \in 1 .. Len(bufferOut) : ~bufferOut[i].dropped}) = SLOTS

(***************************************************************************)
(* The destructor's join returns, wherever the thread is when running is   *)
(* cleared: in a wait, between snapshot attempts, or in the middle of an   *)
(* alignment.                                                              *)
(***************************************************************************)
DestructorJoins == destroyed ~> (pc = "done")

(***************************************************************************)
(* A stream that has given up for good is always reported: the book stops  *)
(* and does not wait for events that cannot come.                          *)
(***************************************************************************)
DeadStreamReported == ~streamRunning ~> (lastError # "none" \/ destroyed)

-----------------------------------------------------------------------------
(* The strengthening that makes FollowedBookIsExchangeBook inductive. *)

\* A level not changed since update m has kept the volume it had then.
ExchangeHistory ==
    \A m, n \in 1 .. Len(exchange), l \in Levels :
        /\ exchange[n][l] <= n
        /\ m <= n /\ exchange[n][l] <= m => exchange[m][l] = exchange[n][l]

\* A queued diff covers the updates after pu up to u, all made by the exchange.
DiffSound(e) ==
    ~e.dropped => /\ e.pu >= 1 /\ e.U = e.pu + 1
                  /\ e.pu < e.u /\ e.u <= Len(exchange)

QueueSound == \A i \in 1 .. Len(bufferOut) : DiffSound(bufferOut[i])

\* The snapshot is the exchange's book as well, before any diff is applied.
BookAligned ==
    pc \in {"align", "aligned", "follow"} => updateID \in 1 .. Len(exchange) /\ Matches

\* How the flags follow the thread.
Stopping == {"stop_synced", "stop_running", "done"}

FlagsFollow ==
    /\ synced => pc \in {"loop", "follow", "stop_synced", "done"}
    /\ lastError # "none" => pc \in Stopping
    /\ pc \in {"stop_synced", "stop_running"} => lastError # "none"
    /\ ~running /\ ~destroyed => pc = "done" /\ lastError # "none"
    /\ pc = "done" /\ ~destroyed => ~synced
    /\ pc = "done" => ~running
    /\ failedSyncs = MaxFailedSyncs => pc \in Stopping
    /\ sawEmpty => pc \in Waiting

IInv ==
    /\ TypeOK
    /\ ExchangeHistory
    /\ QueueSound
    /\ BookAligned
    /\ FlagsFollow
=============================================================================
