--------------------------- MODULE OrderbookProofs ---------------------------
(***************************************************************************)
(* The order book is the exchange's book whenever it follows the stream:   *)
(* proved for any set of levels, any number of slots, attempts and update  *)
(* ids, from what a diff and a snapshot contain.                           *)
(***************************************************************************)
EXTENDS Orderbook, SequenceTheorems, FiniteSetTheorems, TLAPS

Aligned == {"align", "aligned", "follow"}

USE DEF feedVars, queueVars, bookVars, flagVars, syncVars

\* The book is empty and nothing is queued.
LEMMA InitInv == Init => IInv
<1> SUFFICES ASSUME Init PROVE IInv
  OBVIOUS
<1> USE DEF Init
<1> DEFINE first == [l \in Levels |-> 1]
<1>1. /\ first \in [Levels -> UpdateIds] /\ exchange = <<first>>
  BY BoundsAssumption DEF UpdateIds
<1>2. exchange \in Seq([Levels -> UpdateIds]) /\ Len(exchange) = 1 /\ exchange[1] = first
  <2> HIDE DEF first
  <2> QED BY <1>1
<1>3. TypeOK
  <2>1. bufferOut \in Seq(Events) /\ Len(exchange) \in UpdateIds \ {0} /\ sent \in 1 .. Len(exchange)
    BY <1>2, BoundsAssumption DEF UpdateIds
  <2>2. book \in [Levels -> UpdateIds] /\ updateID \in UpdateIds /\ snapshotID \in UpdateIds
    BY BoundsAssumption DEF UpdateIds
  <2>3. attempt \in 0 .. SnapshotAttempts /\ failedSyncs \in 0 .. MaxFailedSyncs /\ freeSlots \in Nat
    BY BoundsAssumption
  <2> QED BY <1>2, <2>1, <2>2, <2>3 DEF TypeOK, PCs
<1>4. ExchangeHistory
  BY <1>2 DEF ExchangeHistory
<1> QED BY <1>3, <1>4, BoundsAssumption DEF IInv, QueueSound, BookAligned, FlagsFollow

-----------------------------------------------------------------------------
\* Steps that touch neither the exchange, nor the queue, nor the book.
LEMMA KeepBook ==
    ASSUME IInv, TypeOK', FlagsFollow',
           UNCHANGED <<exchange, bufferOut, book, updateID, snapshotID>>,
           pc' \in Aligned => pc \in Aligned
    PROVE  IInv'
BY DEF IInv, ExchangeHistory, QueueSound, DiffSound, BookAligned, Matches, Aligned

\* stop(), the steps of waitForUpdate that take nothing, and the destructor.
LEMMA StopWaitInv ==
    ASSUME IInv,
           \/ StopSynced \/ StopRunning \/ WaitEmpty \/ WaitAgain \/ WaitStopping
           \/ WaitDisconnected \/ Destroy \/ StreamGivesUp
    PROVE  IInv'
<1> USE DEF IInv
<1>1. CASE StopSynced \/ StopRunning
  <2>1. TypeOK' BY <1>1 DEF TypeOK, StopSynced, StopRunning, PCs
  <2>2. FlagsFollow' BY <1>1 DEF TypeOK, FlagsFollow, StopSynced, StopRunning, Stopping, Waiting
  <2> QED BY <1>1, <2>1, <2>2, KeepBook DEF StopSynced, StopRunning, Aligned
<1>2. CASE WaitEmpty \/ WaitAgain \/ WaitStopping
  <2>1. TypeOK' BY <1>2 DEF TypeOK, WaitEmpty, WaitAgain, WaitStopping, PCs
  <2>2. FlagsFollow' BY <1>2 DEF TypeOK, FlagsFollow, WaitEmpty, WaitAgain, WaitStopping, Stopping, Waiting
  <2> QED BY <1>2, <2>1, <2>2, KeepBook DEF WaitEmpty, WaitAgain, WaitStopping, Aligned
<1>3. CASE WaitDisconnected
  <2>1. TypeOK' BY <1>3 DEF TypeOK, WaitDisconnected, Stop, PCs
  <2>2. FlagsFollow' BY <1>3 DEF TypeOK, FlagsFollow, WaitDisconnected, Stop, Stopping, Waiting
  <2> QED BY <1>3, <2>1, <2>2, KeepBook DEF WaitDisconnected, Stop, Aligned
<1>4. CASE Destroy \/ StreamGivesUp
  <2>1. TypeOK' BY <1>4 DEF TypeOK, Destroy, StreamGivesUp
  <2>2. FlagsFollow' BY <1>4 DEF TypeOK, FlagsFollow, Destroy, StreamGivesUp, Stopping, Waiting
  <2> QED BY <1>4, <2>1, <2>2, KeepBook DEF Destroy, StreamGivesUp, Aligned
<1> QED BY <1>1, <1>2, <1>3, <1>4

\* executionLoop between two events, except for a snapshot that arrives.
LEMMA LoopInv ==
    ASSUME IInv,
           \/ LoadTickSize \/ LoadTickSizeFails \/ FirstUpdateSeen \/ ResyncBegin \/ LoopEnds
           \/ FetchRetried \/ FetchFails \/ AlignStopping \/ AlignFailed \/ AlignGivesUp \/ SetSynced
    PROVE  IInv'
<1> USE BoundsAssumption DEF IInv
<1>1. CASE LoadTickSize \/ LoopEnds \/ AlignStopping
  <2>1. TypeOK' BY <1>1 DEF TypeOK, LoadTickSize, LoopEnds, AlignStopping, PCs
  <2>2. FlagsFollow'
    BY <1>1 DEF TypeOK, FlagsFollow, LoadTickSize, LoopEnds, AlignStopping, Stopping, Waiting
  <2> QED BY <1>1, <2>1, <2>2, KeepBook DEF LoadTickSize, LoopEnds, AlignStopping, Aligned
<1>2. CASE LoadTickSizeFails \/ FetchFails
  <2>1. TypeOK' BY <1>2 DEF TypeOK, LoadTickSizeFails, FetchFails, Stop, PCs
  <2>2. FlagsFollow'
    BY <1>2 DEF TypeOK, FlagsFollow, LoadTickSizeFails, FetchFails, Stop, Stopping, Waiting
  <2> QED BY <1>2, <2>1, <2>2, KeepBook DEF LoadTickSizeFails, FetchFails, Stop, Aligned
<1>3. CASE FirstUpdateSeen \/ ResyncBegin \/ FetchRetried
  <2>0. attempt' \in 0 .. SnapshotAttempts /\ failedSyncs' \in 0 .. MaxFailedSyncs
    BY <1>3 DEF TypeOK, FirstUpdateSeen, ResyncBegin, FetchRetried
  <2>1. TypeOK' BY <1>3, <2>0 DEF TypeOK, FirstUpdateSeen, ResyncBegin, FetchRetried, PCs
  <2>2. FlagsFollow'
    BY <1>3 DEF TypeOK, FlagsFollow, FirstUpdateSeen, ResyncBegin, FetchRetried, Stopping, Waiting
  <2> QED BY <1>3, <2>1, <2>2, KeepBook DEF FirstUpdateSeen, ResyncBegin, FetchRetried, Aligned
<1>4. CASE AlignFailed \/ AlignGivesUp
  <2>0. failedSyncs # MaxFailedSyncs
    BY <1>4 DEF FlagsFollow, AlignFailed, AlignGivesUp, Stopping
  <2>1. TypeOK' BY <1>4, <2>0 DEF TypeOK, AlignFailed, AlignGivesUp, Stop, PCs
  <2>2. FlagsFollow'
    BY <1>4, <2>0 DEF TypeOK, FlagsFollow, AlignFailed, AlignGivesUp, Stop, Stopping, Waiting
  <2> QED BY <1>4, <2>1, <2>2, KeepBook DEF AlignFailed, AlignGivesUp, Stop, Aligned
<1>5. CASE SetSynced
  <2>1. TypeOK' BY <1>5 DEF TypeOK, SetSynced, PCs
  <2>2. FlagsFollow' BY <1>5 DEF TypeOK, FlagsFollow, SetSynced, Stopping, Waiting
  <2> QED BY <1>5, <2>1, <2>2, KeepBook DEF SetSynced, Aligned
<1> QED BY <1>1, <1>2, <1>3, <1>4, <1>5

-----------------------------------------------------------------------------
\* The exchange changes a level: the books before it are untouched.
LEMMA ExchangeInv == ASSUME IInv, NEW l \in Levels, ExchangeUpdate(l) PROVE IInv'
<1> USE DEF IInv
<1> DEFINE n == Len(exchange)
           new == [exchange[n] EXCEPT ![l] = n + 1]
<1>1. /\ exchange \in Seq([Levels -> UpdateIds]) /\ n \in Nat /\ n >= 1 /\ n + 1 \in UpdateIds
      /\ exchange[n] \in [Levels -> UpdateIds]
  BY BoundsAssumption DEF TypeOK, ExchangeUpdate, UpdateIds
<1>2. /\ new \in [Levels -> UpdateIds] /\ new[l] = n + 1
      /\ \A k \in Levels : k # l => new[k] = exchange[n][k]
  BY <1>1
<1>3. /\ exchange' \in Seq([Levels -> UpdateIds]) /\ Len(exchange') = n + 1
      /\ exchange'[n + 1] = new
      /\ \A m \in 1 .. n : exchange'[m] = exchange[m]
  <2>1. exchange' = Append(exchange, new)
    BY DEF ExchangeUpdate
  <2> HIDE DEF new
  <2> QED BY <1>1, <1>2, <2>1
<1> HIDE DEF new
<1>4. TypeOK'
  BY <1>1, <1>3 DEF TypeOK, ExchangeUpdate
<1>5. ExchangeHistory'
  <2> SUFFICES ASSUME NEW a \in 1 .. n + 1, NEW b \in 1 .. n + 1, NEW k \in Levels
               PROVE  /\ exchange'[b][k] <= b
                      /\ a <= b /\ exchange'[b][k] <= a => exchange'[a][k] = exchange'[b][k]
    BY <1>3 DEF ExchangeHistory
  <2>1. CASE b \in 1 .. n
    BY <2>1, <1>1, <1>3 DEF ExchangeHistory
  <2>2. CASE b = n + 1 /\ a = n + 1
    <3>1. exchange[n][k] <= n /\ exchange[n][k] \in Nat
      BY <1>1, BoundsAssumption DEF ExchangeHistory, UpdateIds
    <3> QED BY <2>2, <3>1, <1>1, <1>2, <1>3
  <2>3. CASE b = n + 1 /\ a \in 1 .. n
    <3>1. n \in 1 .. n /\ exchange[n][k] \in Nat /\ exchange[n][k] <= n
      BY <1>1, BoundsAssumption DEF ExchangeHistory, UpdateIds
    <3>2. exchange[n][k] <= a => exchange[a][k] = exchange[n][k]
      BY <2>3, <3>1 DEF ExchangeHistory
    <3>3. CASE k = l
      BY <2>3, <3>3, <3>1, <1>1, <1>2, <1>3
    <3>4. CASE k # l
      BY <2>3, <3>4, <3>1, <3>2, <1>1, <1>2, <1>3
    <3> QED BY <3>3, <3>4
  <2> QED BY <2>1, <2>2, <2>3, <1>1
<1>6. QueueSound'
  <2> SUFFICES ASSUME NEW i \in 1 .. Len(bufferOut) PROVE DiffSound(bufferOut[i])'
    BY DEF QueueSound, ExchangeUpdate
  <2>1. DiffSound(bufferOut[i]) /\ bufferOut' = bufferOut /\ bufferOut[i] \in Events
    BY DEF QueueSound, ExchangeUpdate, TypeOK
  <2> QED BY <2>1, <1>1, <1>3, BoundsAssumption DEF DiffSound, Events, UpdateIds
<1>7. BookAligned'
  BY <1>1, <1>3 DEF BookAligned, Matches, ExchangeUpdate, TypeOK
<1>8. FlagsFollow'
  BY DEF FlagsFollow, ExchangeUpdate
<1> QED BY <1>4, <1>5, <1>6, <1>7, <1>8

\* What joins the queue is a diff of updates the exchange has made, or nothing.
LEMMA FeedInv ==
    ASSUME IInv, NEW to \in 1 .. Len(exchange), StreamDelivers(to) \/ StreamDrops(to) \/ FeedSkips(to)
    PROVE  IInv'
<1> USE DEF IInv
<1>0. /\ UNCHANGED <<exchange, book, updateID, snapshotID, pc, flagVars, syncVars, sawEmpty, streamRunning>>
      /\ sent' = to
  BY DEF StreamDelivers, StreamDrops, FeedSkips
<1>1. ExchangeHistory' /\ BookAligned' /\ FlagsFollow'
  BY <1>0 DEF ExchangeHistory, BookAligned, Matches, FlagsFollow
<1>2. bufferOut \in Seq(Events) /\ sent \in Nat /\ sent >= 1 /\ Len(exchange) \in Nat /\ Len(exchange) <= MaxUpdates
  BY BoundsAssumption DEF TypeOK, UpdateIds
<1>3. ASSUME NEW e \in Events, DiffSound(e), bufferOut' = Append(bufferOut, e)
      PROVE  bufferOut' \in Seq(Events) /\ QueueSound'
  <2>1. /\ bufferOut' \in Seq(Events) /\ Len(bufferOut') = Len(bufferOut) + 1
        /\ \A i \in 1 .. Len(bufferOut) : bufferOut'[i] = bufferOut[i]
        /\ bufferOut'[Len(bufferOut) + 1] = e
    BY <1>2, <1>3
  <2>2. ASSUME NEW i \in 1 .. Len(bufferOut) + 1 PROVE DiffSound(bufferOut'[i])
    <3>1. i \in 1 .. Len(bufferOut) \/ i = Len(bufferOut) + 1
      BY <1>2
    <3> QED BY <3>1, <2>1, <1>3 DEF QueueSound
  <2> QED BY <2>1, <2>2, <1>0 DEF QueueSound, DiffSound
<1>4. CASE StreamDelivers(to)
  <2>1. Event(sent, to) \in Events /\ DiffSound(Event(sent, to))
    BY <1>2, <1>4, BoundsAssumption DEF Event, Events, DiffSound, StreamDelivers, UpdateIds
  <2>2. bufferOut' \in Seq(Events) /\ QueueSound'
    BY <2>1, <1>3, <1>4 DEF StreamDelivers
  <2>3. TypeOK'
    BY <2>2, <1>0, <1>4 DEF TypeOK, StreamDelivers
  <2> QED BY <2>2, <2>3, <1>1
<1>5. CASE StreamDrops(to)
  <2>1. Dropped \in Events /\ DiffSound(Dropped)
    BY BoundsAssumption DEF Dropped, Events, DiffSound, UpdateIds
  <2>2. bufferOut' \in Seq(Events) /\ QueueSound'
    BY <2>1, <1>3, <1>5 DEF StreamDrops
  <2>3. TypeOK'
    BY <2>2, <1>0, <1>5 DEF TypeOK, StreamDrops
  <2> QED BY <2>2, <2>3, <1>1
<1>6. CASE FeedSkips(to)
  <2>1. UNCHANGED queueVars
    BY <1>6 DEF FeedSkips
  <2>2. QueueSound'
    BY <2>1, <1>0 DEF QueueSound, DiffSound
  <2>3. TypeOK'
    BY <2>1, <1>0 DEF TypeOK
  <2> QED BY <2>2, <2>3, <1>1
<1> QED BY <1>4, <1>5, <1>6

-----------------------------------------------------------------------------
\* A snapshot is the exchange's book at its id, restricted to the levels it covers.
LEMMA SnapshotInv ==
    ASSUME IInv, NEW id \in 1 .. Len(exchange), NEW covered \in SUBSET Levels, FetchSucceeds(id, covered)
    PROVE  IInv'
<1> USE DEF IInv, FetchSucceeds, ApplySnapshot
<1>1. /\ exchange[id] \in [Levels -> UpdateIds] /\ Len(exchange) \in Nat /\ id \in UpdateIds /\ 0 \in UpdateIds
      /\ UpdateIds \subseteq Nat
  BY BoundsAssumption DEF TypeOK, UpdateIds
<1>2. book' \in [Levels -> UpdateIds]
  BY <1>1
<1>3. TypeOK'
  BY <1>1, <1>2 DEF TypeOK, PCs
<1>4. ExchangeHistory' /\ QueueSound'
  BY DEF ExchangeHistory, QueueSound, DiffSound
<1>5. BookAligned'
  BY <1>1 DEF BookAligned, Matches, ExchangeHistory
<1>6. FlagsFollow'
  BY DEF FlagsFollow, Stopping, Waiting
<1> QED BY <1>3, <1>4, <1>5, <1>6

\* Taking the oldest event leaves a sound queue.
LEMMA TakeSound ==
    ASSUME IInv, TakeUpdate
    PROVE  /\ bufferOut' \in Seq(Events) /\ QueueSound'
           /\ Update \in Events /\ DiffSound(Update)
           /\ freeSlots' \in Nat /\ ExchangeHistory'
           /\ UNCHANGED <<feedVars, flagVars, sawEmpty>>
<1> USE DEF IInv, TakeUpdate
<1>1. bufferOut \in Seq(Events) /\ bufferOut # <<>>
  BY DEF TypeOK
<1>2. /\ Len(bufferOut) \in Nat /\ Len(bufferOut) >= 1
      /\ Update = bufferOut[1] /\ Update \in Events
      /\ bufferOut' \in Seq(Events) /\ Len(bufferOut') = Len(bufferOut) - 1
      /\ \A i \in 1 .. Len(bufferOut) - 1 : bufferOut'[i] = bufferOut[i + 1]
  BY <1>1 DEF Update
<1>3. DiffSound(Update)
  BY <1>2 DEF QueueSound
<1>4. \A i \in 1 .. Len(bufferOut') : DiffSound(bufferOut'[i])
  <2> SUFFICES ASSUME NEW i \in 1 .. Len(bufferOut) - 1 PROVE DiffSound(bufferOut[i + 1])
    BY <1>2
  <2>1. i + 1 \in 1 .. Len(bufferOut)
    BY <1>2
  <2> QED BY <2>1 DEF QueueSound
<1>5. QueueSound'
  BY <1>4 DEF QueueSound, DiffSound
<1> QED BY <1>2, <1>3, <1>5 DEF TypeOK, ExchangeHistory

\* Events that are thrown away, with the book as it was.
LEMMA DiscardInv ==
    ASSUME IInv, AlignDropped \/ AlignSkips \/ AlignGap \/ FollowBreaks
    PROVE  IInv'
<1> USE DEF IInv
<1>1. /\ TakeUpdate /\ UNCHANGED <<bookVars, syncVars>> /\ ~sawEmpty
      /\ pc \in {"align", "follow"}
      /\ pc' \in {"failed", "loop"} \/ pc' = pc
      /\ pc' = "failed" => pc = "align"
  BY DEF AlignDropped, AlignSkips, AlignGap, FollowBreaks, TakeUpdate
<1>2. /\ bufferOut' \in Seq(Events) /\ QueueSound' /\ freeSlots' \in Nat /\ ExchangeHistory'
      /\ UNCHANGED <<feedVars, flagVars, sawEmpty>>
  BY <1>1, TakeSound
<1>3. TypeOK'
  BY <1>1, <1>2 DEF TypeOK, PCs
<1>4. BookAligned'
  BY <1>1, <1>2 DEF BookAligned, Matches
<1>5. FlagsFollow'
  BY <1>1, <1>2 DEF FlagsFollow, Stopping, Waiting
<1> QED BY <1>2, <1>3, <1>4, <1>5

(***************************************************************************)
(* The heart of the matter.  A diff that begins at or before the update    *)
(* after the book's, and does not end before the book's, turns the book    *)
(* at updateID into the book at u: a level it does not mention has not     *)
(* changed since U, hence not since updateID.                              *)
(***************************************************************************)
LEMMA DiffApplies ==
    ASSUME IInv, pc \in {"align", "follow"}, NEW e \in Events, DiffSound(e), ~e.dropped,
           e.U <= updateID + 1, updateID <= e.u, ApplyUpdate(e), UNCHANGED exchange
    PROVE  /\ book' \in [Levels -> UpdateIds] /\ updateID' \in 1 .. Len(exchange) /\ updateID' \in UpdateIds
           /\ snapshotID' = snapshotID
           /\ Matches'
<1> USE DEF IInv, ApplyUpdate, ApplyEntries
<1>1. /\ updateID \in 1 .. Len(exchange) /\ Matches
      /\ e.u \in 1 .. Len(exchange) /\ e.u \in UpdateIds /\ e.U \in Nat /\ Len(exchange) \in Nat
      /\ UpdateIds \subseteq Nat /\ snapshotID \in Nat
  BY BoundsAssumption DEF BookAligned, DiffSound, Events, UpdateIds, TypeOK
<1>2. exchange[e.u] \in [Levels -> UpdateIds] /\ exchange[updateID] \in [Levels -> UpdateIds]
  BY <1>1 DEF TypeOK
<1>3. book' \in [Levels -> UpdateIds]
  BY <1>2 DEF TypeOK
<1>4. Matches'
  <2> SUFFICES ASSUME NEW l \in Levels
               PROVE  \/ book'[l] = exchange[e.u][l]
                      \/ book'[l] = 0 /\ exchange[e.u][l] <= snapshotID
    BY DEF Matches
  <2>1. CASE l \in Touched(e)
    BY <2>1
  <2>2. CASE l \notin Touched(e)
    <3>1. book'[l] = book[l] /\ exchange[e.u][l] < e.U
      <4>1. exchange[e.u][l] \in Nat /\ ~(exchange[e.u][l] >= e.U)
        BY <2>2, <1>1, <1>2 DEF Touched
      <4>2. exchange[e.u][l] < e.U
        BY <4>1, <1>1
      <4> QED BY <2>2, <4>2 DEF TypeOK
    <3>2. exchange[e.u][l] \in Nat /\ exchange[e.u][l] <= updateID
      <4>1. updateID \in Nat
        BY <1>1
      <4>0. exchange[e.u][l] \in Nat
        BY <1>1, <1>2
      <4>2. \A a, b, c \in Nat : a < b /\ b <= c + 1 => a <= c
        OBVIOUS
      <4>3. e.U \in Nat /\ e.U <= updateID + 1
        BY <1>1
      <4> HIDE DEF IInv, ApplyUpdate, ApplyEntries
      <4> QED BY <4>0, <4>1, <4>2, <4>3, <3>1
    <3>3. exchange[updateID][l] = exchange[e.u][l]
      BY <3>2, <1>1 DEF ExchangeHistory
    <3> QED BY <3>1, <3>3, <1>1 DEF Matches
  <2> QED BY <2>1, <2>2
<1> QED BY <1>1, <1>3, <1>4

\* The two places where a whole diff is applied.
LEMMA ApplyInv == ASSUME IInv, AlignApplies \/ FollowApplies PROVE IInv'
<1> USE DEF IInv
<1>1. /\ TakeUpdate /\ ApplyUpdate(Update) /\ UNCHANGED syncVars /\ ~sawEmpty
      /\ ~Update.dropped
      /\ \/ pc = "align" /\ pc' = "aligned" /\ Update.U <= updateID /\ updateID <= Update.u
         \/ pc = "follow" /\ pc' = "follow" /\ Update.pu = updateID
  BY DEF AlignApplies, FollowApplies, Straddles, Continues, TakeUpdate
<1>2. /\ bufferOut' \in Seq(Events) /\ QueueSound' /\ freeSlots' \in Nat /\ ExchangeHistory'
      /\ Update \in Events /\ DiffSound(Update)
      /\ UNCHANGED <<feedVars, flagVars, sawEmpty>>
  BY <1>1, TakeSound
<1>3. updateID \in Nat /\ Update.u \in Nat /\ Update.U \in Nat /\ Update.pu \in Nat
  BY <1>2, BoundsAssumption DEF TypeOK, Events, UpdateIds
<1>4. Update.U <= updateID + 1 /\ updateID <= Update.u
  BY <1>1, <1>2, <1>3 DEF DiffSound
<1>5. /\ book' \in [Levels -> UpdateIds] /\ updateID' \in 1 .. Len(exchange) /\ updateID' \in UpdateIds
      /\ snapshotID' = snapshotID
      /\ Matches'
  BY <1>1, <1>2, <1>4, DiffApplies
<1>6. TypeOK'
  BY <1>1, <1>2, <1>5 DEF TypeOK, PCs
<1>7. BookAligned'
  BY <1>2, <1>5 DEF BookAligned
<1>8. FlagsFollow'
  BY <1>1, <1>2 DEF FlagsFollow, Stopping, Waiting
<1> QED BY <1>2, <1>6, <1>7, <1>8

\* A half applied diff: the thread leaves the aligned part of the loop with it.
LEMMA SideFullInv ==
    ASSUME IInv, NEW entries \in SUBSET Levels, AlignSideFull(entries) \/ FollowSideFull(entries)
    PROVE  IInv'
<1> USE DEF IInv
<1>1. /\ TakeUpdate /\ ApplyUpdateFails(Update, entries) /\ UNCHANGED syncVars /\ ~sawEmpty
      /\ ~Update.dropped
      /\ \/ pc = "align" /\ pc' = "failed"
         \/ pc = "follow" /\ pc' = "loop"
  <2> HIDE DEF IInv
  <2>1. /\ TakeUpdate /\ ApplyUpdateFails(Update, entries) /\ UNCHANGED syncVars
        /\ Straddles(Update) \/ Continues(Update)
        /\ \/ pc = "align" /\ pc' = "failed"
           \/ pc = "follow" /\ pc' = "loop"
    BY DEF AlignSideFull, FollowSideFull
  <2>2. ~sawEmpty
    BY <2>1 DEF TakeUpdate
  <2>3. ~Update.dropped
    BY <2>1 DEF Straddles, Continues
  <2> QED BY <2>1, <2>2, <2>3
<1>2. /\ bufferOut' \in Seq(Events) /\ QueueSound' /\ freeSlots' \in Nat /\ ExchangeHistory'
      /\ Update \in Events /\ DiffSound(Update)
      /\ UNCHANGED <<feedVars, flagVars, sawEmpty>>
  BY <1>1, TakeSound
<1>3. Update.u \in 1 .. Len(exchange)
  BY <1>1, <1>2, BoundsAssumption DEF DiffSound, Events, UpdateIds, TypeOK
<1>4. exchange[Update.u] \in [Levels -> UpdateIds]
  BY <1>3 DEF TypeOK
<1>5. book' \in [Levels -> UpdateIds] /\ UNCHANGED <<updateID, snapshotID>>
  BY <1>1, <1>4 DEF ApplyUpdateFails, ApplyEntries, TypeOK
<1>6. TypeOK'
  BY <1>1, <1>2, <1>5 DEF TypeOK, PCs
<1>7. BookAligned' /\ FlagsFollow'
  BY <1>1, <1>2 DEF BookAligned, FlagsFollow, Stopping, Waiting
<1> QED BY <1>2, <1>6, <1>7

-----------------------------------------------------------------------------
(***************************************************************************)
(* The invariant of the synchronisation protocol.                          *)
(***************************************************************************)
THEOREM OrderbookInvariant == Spec => []IInv
<1>1. IInv /\ [Next]_vars => IInv'
  <2> SUFFICES ASSUME IInv, [Next]_vars PROVE IInv'
    OBVIOUS
  <2>1. CASE UNCHANGED vars
    <3>1. TypeOK' /\ FlagsFollow'
      BY <2>1 DEF vars, IInv, TypeOK, FlagsFollow
    <3> QED BY <2>1, <3>1, KeepBook DEF vars
  <2>2. CASE BookStep
    BY <2>2, StopWaitInv, LoopInv, SnapshotInv, DiscardInv, ApplyInv, SideFullInv DEF BookStep
  <2>3. CASE FeedStep
    BY <2>3, ExchangeInv, FeedInv, StopWaitInv DEF FeedStep
  <2>4. CASE Destroy
    BY <2>4, StopWaitInv
  <2> QED BY <2>1, <2>2, <2>3, <2>4 DEF Next
<1> QED BY <1>1, InitInv, PTL DEF Spec

-----------------------------------------------------------------------------
(* How many events of a queue hold a slot. *)

Holding(s) == {i \in 1 .. Len(s) : ~s[i].dropped}

\* The events that hold a slot can be counted.
LEMMA HoldingFinite ==
    ASSUME NEW s \in Seq(Events)
    PROVE  IsFiniteSet(Holding(s)) /\ Cardinality(Holding(s)) \in Nat
<1>1. IsFiniteSet(1 .. Len(s))
  BY FS_Interval
<1> QED BY <1>1, FS_Subset, FS_CardinalityType DEF Holding

\* One more event at the end.
LEMMA HoldingAppend ==
    ASSUME NEW s \in Seq(Events), NEW e \in Events
    PROVE  Cardinality(Holding(Append(s, e))) = Cardinality(Holding(s)) + (IF e.dropped THEN 0 ELSE 1)
<1> DEFINE t == Append(s, e)
           n == Len(s)
<1>1. n \in Nat /\ Len(t) = n + 1 /\ t[n + 1] = e /\ \A i \in 1 .. n : t[i] = s[i]
  OBVIOUS
<1> HIDE DEF t
<1>2. Holding(t) = IF e.dropped THEN Holding(s) ELSE Holding(s) \cup {n + 1}
  <2> HIDE DEF n
  <2>0. Len(s) = n
    BY DEF n
  <2>1. ASSUME NEW i \in 1 .. n + 1
        PROVE  i \in Holding(t) <=> i \in Holding(s) \/ (i = n + 1 /\ ~e.dropped)
    <3>1. CASE i = n + 1
      BY <1>1, <2>0, <3>1 DEF Holding
    <3>2. CASE i \in 1 .. n
      <4>1. i # n + 1
        BY <1>1, <3>2
      <4> QED BY <1>1, <2>0, <3>2, <4>1 DEF Holding
    <3> QED BY <1>1, <3>1, <3>2
  <2>2. Holding(t) \subseteq 1 .. n + 1 /\ Holding(s) \subseteq 1 .. n + 1 /\ n + 1 \in 1 .. n + 1
    BY <1>1, <2>0 DEF Holding
  <2> QED BY <2>1, <2>2
<1>3. n + 1 \notin Holding(s)
  BY <1>1 DEF Holding
<1>4. CASE e.dropped
  BY <1>2, <1>4, HoldingFinite DEF t
<1>5. CASE ~e.dropped
  <2>1. Cardinality(Holding(s) \cup {n + 1}) = Cardinality(Holding(s)) + 1
    BY <1>3, HoldingFinite, FS_AddElement
  <2> QED BY <1>2, <1>5, <2>1 DEF t
<1> QED BY <1>4, <1>5

\* One event less at the front: the others move up by one place.
LEMMA HoldingTail ==
    ASSUME NEW s \in Seq(Events), s # <<>>
    PROVE  Cardinality(Holding(s)) = Cardinality(Holding(Tail(s))) + (IF Head(s).dropped THEN 0 ELSE 1)
<1> DEFINE t == Tail(s)
           n == Len(s)
           up == [i \in Holding(t) |-> i + 1]
           rest == Holding(s) \ {1}
<1>1. /\ n \in Nat /\ n > 0 /\ Len(t) = n - 1 /\ t \in Seq(Events) /\ s[1] = Head(s)
      /\ \A i \in 1 .. n - 1 : t[i] = s[i + 1]
  OBVIOUS
<1> HIDE DEF t, n
<1>0. Len(s) = n
  BY DEF n
<1>2. Cardinality(rest) = Cardinality(Holding(t))
  <2>1. \A i \in Holding(t) : i \in 1 .. n - 1 /\ i + 1 \in rest
    BY <1>0, <1>1 DEF Holding
  <2>2. ASSUME NEW j \in rest
        PROVE  j - 1 \in Holding(t) /\ j = (j - 1) + 1
    <3>1. j \in 1 .. n /\ j # 1 /\ ~s[j].dropped
      BY <1>0 DEF Holding
    <3>2. j - 1 \in 1 .. n - 1 /\ j = (j - 1) + 1
      BY <1>1, <3>1
    <3>3. ~t[j - 1].dropped
      BY <1>1, <3>1, <3>2
    <3> QED BY <1>1, <3>2, <3>3 DEF Holding
  <2>3. up \in [Holding(t) -> rest]
    BY <2>1
  <2>4. \A i, j \in Holding(t) : up[i] = up[j] => i = j
    BY <2>1
  <2>5. \A j \in rest : \E i \in Holding(t) : up[i] = j
    BY <2>2
  <2>6. up \in Bijection(Holding(t), rest)
    <3> HIDE DEF up, rest
    <3>1. up \in Injection(Holding(t), rest)
      BY <2>3, <2>4 DEF Injection, IsInjective
    <3>2. up \in Surjection(Holding(t), rest)
      BY <2>3, <2>5 DEF Surjection
    <3> QED BY <3>1, <3>2 DEF Bijection
  <2>7. IsFiniteSet(Holding(t)) /\ ExistsBijection(Holding(t), rest)
    BY <1>1, <2>6, HoldingFinite DEF ExistsBijection
  <2> HIDE DEF rest
  <2> QED BY <2>7, FS_Bijection
<1>3. 1 \in Holding(s) <=> ~Head(s).dropped
  BY <1>0, <1>1 DEF Holding
<1>4. Cardinality(rest) = IF 1 \in Holding(s) THEN Cardinality(Holding(s)) - 1 ELSE Cardinality(Holding(s))
  BY HoldingFinite, FS_RemoveElement
<1>5. Cardinality(Holding(s)) \in Nat
  BY HoldingFinite
<1> QED BY <1>2, <1>3, <1>4, <1>5 DEF t

(***************************************************************************)
(* No event slot is lost or given back twice, on any way out of            *)
(* applyFirstUpdate and of the following loop, for any number of slots and *)
(* any mix of diffs and dropped messages.                                  *)
(***************************************************************************)
THEOREM SlotsAreConserved == Spec => []SlotsConserved
<1> DEFINE Slots == freeSlots + Cardinality(Holding(bufferOut)) = SLOTS
<1>1. SlotsConserved <=> Slots
  BY DEF SlotsConserved, Holding
<1>2. Init => Slots
  <2> SUFFICES ASSUME Init PROVE Slots
    OBVIOUS
  <2>1. Holding(bufferOut) = {}
    BY DEF Init, Holding
  <2> QED BY <2>1, FS_EmptySet, BoundsAssumption DEF Init
<1>3. IInv /\ Slots /\ [Next]_vars => Slots'
  <2> SUFFICES ASSUME IInv, Slots, [Next]_vars PROVE Slots'
    OBVIOUS
  <2>0. bufferOut \in Seq(Events) /\ freeSlots \in Nat
    BY DEF IInv, TypeOK
  <2>1. CASE \E to \in 1 .. Len(exchange) : StreamDelivers(to)
    <3> PICK to \in 1 .. Len(exchange) : StreamDelivers(to)
      BY <2>1
    <3>1. Event(sent, to) \in Events /\ ~Event(sent, to).dropped
      BY BoundsAssumption DEF Event, Events, StreamDelivers, UpdateIds, IInv, TypeOK
    <3>2. Cardinality(Holding(bufferOut')) = Cardinality(Holding(bufferOut)) + 1
      BY <2>0, <3>1, HoldingAppend DEF StreamDelivers
    <3>3. Cardinality(Holding(bufferOut)) \in Nat
      BY <2>0, HoldingFinite
    <3> QED BY <2>0, <3>2, <3>3 DEF StreamDelivers
  <2>2. CASE \E to \in 1 .. Len(exchange) : StreamDrops(to)
    <3>1. Dropped \in Events /\ Dropped.dropped
      BY BoundsAssumption DEF Dropped, Events, UpdateIds
    <3>2. Cardinality(Holding(Append(bufferOut, Dropped))) = Cardinality(Holding(bufferOut)) + 0
      BY <2>0, <3>1, HoldingAppend
    <3>3. Cardinality(Holding(bufferOut)) \in Nat
      BY <2>0, HoldingFinite
    <3> QED BY <2>2, <3>2, <3>3 DEF StreamDrops
  <2>3. CASE TakeUpdate
    <3>1. Cardinality(Holding(bufferOut)) = Cardinality(Holding(Tail(bufferOut))) + (IF Update.dropped THEN 0 ELSE 1)
      BY <2>0, <2>3, HoldingTail DEF TakeUpdate, Update
    <3>2. Tail(bufferOut) \in Seq(Events)
      BY <2>0, <2>3 DEF TakeUpdate
    <3>3. Cardinality(Holding(Tail(bufferOut))) \in Nat
      BY <3>2, HoldingFinite
    <3> QED BY <2>0, <2>3, <3>1, <3>3 DEF TakeUpdate
  <2>4. CASE UNCHANGED queueVars
    BY <2>4
  <2>5. \/ \E to \in 1 .. Len(exchange) : StreamDelivers(to) \/ StreamDrops(to)
        \/ TakeUpdate \/ UNCHANGED queueVars
    BY DEF Next, vars, BookStep, FeedStep, Destroy, ExchangeUpdate, FeedSkips, StreamGivesUp,
           StopSynced, StopRunning, WaitEmpty, WaitAgain, WaitStopping, WaitDisconnected,
           LoadTickSize, LoadTickSizeFails, FirstUpdateSeen, ResyncBegin, LoopEnds, FetchRetried, FetchFails,
           FetchSucceeds, AlignDropped, AlignSkips, AlignGap, AlignApplies, AlignSideFull, AlignStopping,
           AlignFailed, AlignGivesUp, SetSynced, FollowApplies, FollowBreaks, FollowSideFull
  <2> QED BY <2>1, <2>2, <2>3, <2>4, <2>5
<1> HIDE DEF Slots
<1> QED BY <1>1, <1>2, <1>3, OrderbookInvariant, PTL DEF Spec

(***************************************************************************)
(* While executionLoop follows the stream, the local book is the           *)
(* exchange's book at updateID, for any number of levels and updates and   *)
(* whatever the stream loses.                                              *)
(***************************************************************************)
THEOREM FollowedBookCorrect == Spec => []FollowedBookIsExchangeBook
<1>1. IInv => FollowedBookIsExchangeBook
  BY DEF IInv, BookAligned, FollowedBookIsExchangeBook
<1> QED BY <1>1, OrderbookInvariant, PTL

(***************************************************************************)
(* isSynced() is false before the first alignment, during a resync and     *)
(* after a stop.                                                           *)
(***************************************************************************)
THEOREM UnsyncedOutside == Spec => []UnsyncedOutsideFollowing
<1>1. IInv => UnsyncedOutsideFollowing
  BY DEF IInv, FlagsFollow, UnsyncedOutsideFollowing
<1> QED BY <1>1, OrderbookInvariant, PTL

(***************************************************************************)
(* A book that has stopped by itself always has its reason in error().     *)
(***************************************************************************)
THEOREM StopIsExplained == Spec => []StopExplained
<1>1. IInv => StopExplained
  BY DEF IInv, FlagsFollow, StopExplained, Stopping
<1> QED BY <1>1, OrderbookInvariant, PTL

(***************************************************************************)
(* isSynced(), isRunning() and error() are true of the book whenever they  *)
(* are read.                                                               *)
(***************************************************************************)
THEOREM FlagsAreTrue == Spec => []FlagsTellTheTruth
<1>1. UnsyncedOutsideFollowing /\ StopExplained => FlagsTellTheTruth
  BY DEF FlagsTellTheTruth
<1> QED BY <1>1, UnsyncedOutside, StopIsExplained, PTL

(***************************************************************************)
(* Type correctness of the order book; attempts and failed alignments stay *)
(* within their limits.                                                    *)
(***************************************************************************)
THEOREM OrderbookTypes == Spec => []TypeOK
BY OrderbookInvariant, PTL DEF IInv
=============================================================================
