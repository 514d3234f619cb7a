----------------------------- MODULE SortedBook -----------------------------
(***************************************************************************)
(* SortedBook<IsBid>: one side of the order book as blocks of consecutive  *)
(* ticks.  Blocks inside the window are found by index, the others sit in  *)
(* `fallback`, sorted by block id.  Blocks and level slots come from two   *)
(* stacks of free ones.  The order book serialises all calls with a lock,  *)
(* so that every operation is one step.                                    *)
(*                                                                         *)
(* The two words of bits and the array of slots of a PriceLevel are one    *)
(* partial function from offset to slot: its domain is the set of bits.    *)
(* blockId and entries are kept for the blocks and slots in use: what is   *)
(* left in a free one is overwritten before it is read.                    *)
(***************************************************************************)
EXTENDS Integers, Sequences, FiniteSets, FiniteSetsExt, SequencesExt, Functions

CONSTANTS
    Prices, Volumes,
    tickSize, TICKS, WINDOW, MAX_LEVELS, MAX_BLOCKS

ASSUME SizeAssumption ==
    /\ Prices \subseteq Nat /\ Volumes \subseteq Nat
    /\ {tickSize, TICKS, WINDOW, MAX_LEVELS, MAX_BLOCKS} \subseteq Nat \ {0}

VARIABLES
    isBid,                  \* the template parameter
    windowBase, centred, windowBlocks, window, fallback,
    blockId, slots,         \* of each PriceLevel in blocks
    freeBlocks,
    entries, freeSlots,
    accepted                \* what the last update returned

place_ == <<windowBase, centred, windowBlocks, window, fallback>>
levels == <<slots, entries, freeSlots>>
vars   == <<isBid, place_, blockId, freeBlocks, levels, accepted>>

Blocks == 0 .. MAX_BLOCKS - 1
Slots  == 0 .. MAX_LEVELS - 1
Null   == -1

toTick(price) == (price + tickSize \div 2) \div tickSize
Id(price)     == toTick(price) \div TICKS
Offset(price) == toTick(price) % TICKS

Entry(price, volume) == [price |-> price, volume |-> volume]

\* f with x mapped to v, whether or not x was in its domain; f without x.
With(f, x, v)  == [y \in DOMAIN f \cup {x} |-> IF y = x THEN v ELSE f[y]]
Without(f, x)  == Restrict(f, DOMAIN f \ {x})

\* What clear() makes of everything but windowBase, which keeps its value.
Cleared(win, count, fall, cent, ids, sl, fb, ent, fs) ==
    /\ win = [o \in 0 .. WINDOW - 1 |-> Null]
    /\ count = 0 /\ fall = <<>> /\ cent = FALSE
    /\ ids = <<>> /\ ent = <<>> /\ sl = [b \in Blocks |-> <<>>]
    /\ fb = [i \in 1 .. MAX_BLOCKS |-> MAX_BLOCKS - i]
    /\ fs = [i \in 1 .. MAX_LEVELS |-> MAX_LEVELS - i]

Init ==
    /\ isBid \in BOOLEAN
    /\ windowBase = 0
    /\ Cleared(window, windowBlocks, fallback, centred, blockId, slots, freeBlocks, entries, freeSlots)
    /\ accepted = TRUE

-----------------------------------------------------------------------------
InWindow(id, base) == id - base \in 0 .. WINDOW - 1

beyondBestEdge(id) == IF isBid THEN id >= windowBase + WINDOW ELSE id < windowBase

\* lower_bound: how many blocks of the sorted fallback have a smaller id.
fallbackFind(id) == Cardinality({i \in DOMAIN fallback : blockId[fallback[i]] < id})

\* Mutation: the fallback is not searched.
findBlock_WindowOnly(id) == IF InWindow(id, windowBase) THEN window[id - windowBase] ELSE Null

findBlock(id) ==
    LET i == fallbackFind(id) + 1
    IN  CASE InWindow(id, windowBase) -> window[id - windowBase]
          [] ~InWindow(id, windowBase) /\ i \in DOMAIN fallback /\ blockId[fallback[i]] = id -> fallback[i]
          [] OTHER -> Null

Exists(price) ==
    LET level == findBlock(Id(price))
    IN  level # Null /\ Offset(price) \in DOMAIN slots[level]

place(level, id) ==
    /\ IF InWindow(id, windowBase)
       THEN /\ window' = [window EXCEPT ![id - windowBase] = level]
            /\ windowBlocks' = windowBlocks + 1
            /\ UNCHANGED fallback
       ELSE /\ fallback' = InsertAt(fallback, fallbackFind(id) + 1, level)
            /\ UNCHANGED <<window, windowBlocks>>
    /\ UNCHANGED <<windowBase, centred>>

\* A set of blocks in the order of their ids.
Ascending(S, ids) ==
    CHOOSE s \in [1 .. Cardinality(S) -> S] : \A i, j \in DOMAIN s : i < j => ids[s[i]] < ids[s[j]]

\* Every block goes to its container for the new window, in the order of the ids.
recentre(scratch, ids, centre) ==
    LET base == centre - WINDOW \div 2
        inside == {b \in scratch : InWindow(ids[b], base)}
    IN  /\ windowBase' = base
        /\ centred' = TRUE
        /\ window' = [o \in 0 .. WINDOW - 1 |->
                         IF \E b \in inside : ids[b] = base + o
                         THEN CHOOSE b \in inside : ids[b] = base + o ELSE Null]
        /\ windowBlocks' = Cardinality(inside)
        /\ fallback' = Ascending(scratch \ inside, ids)

Placed == (Range(window) \ {Null}) \cup Range(fallback)

\* Mutation: a new best block beyond the edge does not move the window.
acquireBlock_NoRecentre(level, id) ==
    /\ freeBlocks' = Front(freeBlocks)
    /\ blockId' = With(blockId, level, id)
    /\ IF ~centred THEN recentre(Placed \cup {level}, blockId', id) ELSE place(level, id)

acquireBlock(level, id) ==
    /\ freeBlocks' = Front(freeBlocks)
    /\ blockId' = With(blockId, level, id)
    /\ IF ~centred \/ beyondBestEdge(id)
       THEN recentre(Placed \cup {level}, blockId', id)
       ELSE place(level, id)

\* Mutation: the block is not given back.
releaseBlock_Leaks(level) ==
    LET id == blockId[level]
    IN  /\ blockId' = Without(blockId, level)
        /\ UNCHANGED <<freeBlocks, windowBase, centred>>
        /\ window' = IF InWindow(id, windowBase) THEN [window EXCEPT ![id - windowBase] = Null] ELSE window
        /\ windowBlocks' = IF InWindow(id, windowBase) THEN windowBlocks - 1 ELSE windowBlocks
        /\ fallback' = SelectSeq(fallback, LAMBDA b : b # level)

releaseBlock(level) ==
    LET id == blockId[level]
        in == InWindow(id, windowBase)
        rest == IF in THEN fallback ELSE RemoveAt(fallback, fallbackFind(id) + 1)
        count == IF in THEN windowBlocks - 1 ELSE windowBlocks
    IN  /\ freeBlocks' = Append(freeBlocks, level)
        /\ blockId' = Without(blockId, level)
        /\ IF count = 0 /\ rest # <<>>
           THEN recentre(Range(rest), blockId, blockId[IF isBid THEN Last(rest) ELSE Head(rest)])
           ELSE /\ window' = IF in THEN [window EXCEPT ![id - windowBase] = Null] ELSE window
                /\ windowBlocks' = count
                /\ fallback' = rest
                /\ UNCHANGED <<windowBase, centred>>

-----------------------------------------------------------------------------
(* update(price, volume), case by case. *)

RemoveAbsent(price) ==
    /\ ~Exists(price)
    /\ accepted' = TRUE
    /\ UNCHANGED <<isBid, place_, blockId, freeBlocks, levels>>

RemoveLevel(price) ==
    LET level == findBlock(Id(price))
    IN  /\ Exists(price)
        /\ slots' = [slots EXCEPT ![level] = Without(@, Offset(price))]
        /\ freeSlots' = Append(freeSlots, slots[level][Offset(price)])
        /\ entries' = Without(entries, slots[level][Offset(price)])
        /\ IF slots'[level] = <<>>
           THEN releaseBlock(level)
           ELSE UNCHANGED <<place_, blockId, freeBlocks>>
        /\ accepted' = TRUE
        /\ UNCHANGED isBid

SetLevel(price, volume) ==
    /\ Exists(price)
    /\ entries' = [entries EXCEPT ![slots[findBlock(Id(price))][Offset(price)]] = Entry(price, volume)]
    /\ accepted' = TRUE
    /\ UNCHANGED <<isBid, place_, blockId, freeBlocks, slots, freeSlots>>

\* Mutation: the last slot is never used.
NoRoom_OneSpare(price) ==
    /\ ~Exists(price)
    /\ Len(freeSlots) <= 1 \/ (findBlock(Id(price)) = Null /\ freeBlocks = <<>>)
    /\ accepted' = FALSE
    /\ UNCHANGED <<isBid, place_, blockId, freeBlocks, levels>>

NoRoom(price) ==
    /\ ~Exists(price)
    /\ freeSlots = <<>> \/ (findBlock(Id(price)) = Null /\ freeBlocks = <<>>)
    /\ accepted' = FALSE
    /\ UNCHANGED <<isBid, place_, blockId, freeBlocks, levels>>

AddTo(level, price, volume) ==
    LET slot == Last(freeSlots)
    IN  /\ freeSlots' = Front(freeSlots)
        /\ slots' = [slots EXCEPT ![level] = With(@, Offset(price), slot)]
        /\ entries' = With(entries, slot, Entry(price, volume))
        /\ accepted' = TRUE

AddLevel(price, volume) ==
    /\ ~Exists(price)
    /\ freeSlots # <<>>
    /\ findBlock(Id(price)) # Null
    /\ AddTo(findBlock(Id(price)), price, volume)
    /\ UNCHANGED <<isBid, place_, blockId, freeBlocks>>

AddBlock(price, volume) ==
    /\ findBlock(Id(price)) = Null
    /\ freeSlots # <<>> /\ freeBlocks # <<>>
    /\ acquireBlock(Last(freeBlocks), Id(price))
    /\ AddTo(Last(freeBlocks), price, volume)
    /\ UNCHANGED isBid

clear ==
    /\ Cleared(window', windowBlocks', fallback', centred', blockId', slots', freeBlocks', entries', freeSlots')
    /\ UNCHANGED <<isBid, windowBase, accepted>>

Next ==
    \/ \E price \in Prices : RemoveAbsent(price) \/ RemoveLevel(price) \/ NoRoom(price)
    \/ \E price \in Prices, volume \in Volumes \ {0} :
          SetLevel(price, volume) \/ AddLevel(price, volume) \/ AddBlock(price, volume)
    \/ clear

Spec == Init /\ [][Next]_vars

-----------------------------------------------------------------------------
(* What readers see. *)

\* Ticks or offsets in the order of a walk: the highest bid, the lowest ask first.
BestFirst(S) == Ascending(S, [x \in S |-> IF isBid THEN -x ELSE x])

\* PriceLevel::forEach: the entries of a block, best first.
forEach(level) ==
    LET order == BestFirst(DOMAIN slots[level])
    IN  [i \in DOMAIN order |-> entries[slots[level][order[i]]]]

\* The walk over the blocks, past the empty places of the window.
forEachIn(blocks) ==
    FlattenSeq([i \in DOMAIN blocks |-> IF blocks[i] = Null THEN <<>> ELSE forEach(blocks[i])])

\* Mutation: all of the fallback is taken to be above the window.
forEachBest_WindowFirst ==
    LET inWindow == [i \in 1 .. WINDOW |-> window[i - 1]]
    IN  forEachIn(IF isBid THEN Reverse(fallback) \o Reverse(inWindow) ELSE inWindow \o fallback)

forEachBest ==
    LET low  == fallbackFind(windowBase)
        high == fallbackFind(windowBase + WINDOW)
        inWindow == [i \in 1 .. WINDOW |-> window[i - 1]]
        ascending == SubSeq(fallback, 1, low) \o inWindow \o SubSeq(fallback, high + 1, Len(fallback))
    IN  forEachIn(IF isBid THEN Reverse(ascending) ELSE ascending)

\* find(price): the entry, or nothing.
find(price) ==
    IF Exists(price) THEN {entries[slots[findBlock(Id(price))][Offset(price)]]} ELSE {}

-----------------------------------------------------------------------------
(* Properties *)

\* Type correctness: blocks and slots are those of the side, and no level has volume zero.
TypeOK ==
    /\ isBid \in BOOLEAN /\ centred \in BOOLEAN /\ accepted \in BOOLEAN
    /\ windowBase \in Int /\ windowBlocks \in 0 .. WINDOW
    /\ window \in [0 .. WINDOW - 1 -> Blocks \cup {Null}]
    /\ fallback \in Seq(Blocks) /\ freeBlocks \in Seq(Blocks) /\ freeSlots \in Seq(Slots)
    /\ DOMAIN blockId \subseteq Blocks /\ Range(blockId) \subseteq Int
    /\ \A b \in Blocks : IsInjective(slots[b]) /\ Range(slots[b]) \subseteq Slots
    /\ DOMAIN entries \subseteq Slots /\ Range(entries) \subseteq [price : Prices, volume : Volumes \ {0}]

\* The map that the blocks in use amount to.
Used == Blocks \ Range(freeBlocks)
Book ==
    LET where == {w \in Used \X (0 .. TICKS - 1) : w[2] \in DOMAIN slots[w[1]]}
        TickOf(w) == blockId[w[1]] * TICKS + w[2]
    IN  [t \in {TickOf(w) : w \in where} |->
            LET w == CHOOSE x \in where : TickOf(x) = t IN entries[slots[w[1]][w[2]]]]

(***************************************************************************)
(* A side is a map from ticks to entries: update() sets and removes what   *)
(* it says, other levels stay through every recentring of the window, and  *)
(* a new level is refused, with the book unchanged, exactly when the       *)
(* levels or the blocks are used up.                                       *)
(***************************************************************************)
Map == INSTANCE PriceMap WITH book <- Book
ImplementsPriceMap == Map!MapSpec

(***************************************************************************)
(* forEachBest, and with it top(), visits every level once and strictly    *)
(* best first, wherever the window stands.                                 *)
(***************************************************************************)
VisitsBestFirst ==
    LET order == BestFirst(DOMAIN Book)
    IN  forEachBest = [i \in DOMAIN order |-> Book[order[i]]]

(***************************************************************************)
(* find() reaches each level through the window or through the fallback,   *)
(* after any recentring, and finds nothing where there is none.            *)
(***************************************************************************)
FindsItsLevel ==
    \A price \in Prices :
        find(price) = IF toTick(price) \in DOMAIN Book THEN {Book[toTick(price)]} ELSE {}

(***************************************************************************)
(* All ways to read a side agree on its levels, after any history.         *)
(***************************************************************************)
ReadsAreExact == VisitsBestFirst /\ FindsItsLevel

(***************************************************************************)
(* What is outside the window lies beyond its worst edge, so the best      *)
(* level is in the window unless the window is empty.  acquireBlock        *)
(* relies on it: a block beyond the best edge is the best of all, and the  *)
(* window may be centred on it.  (An empty window can stay behind: it is   *)
(* moved when its last block goes, but not when there is nothing to move   *)
(* it to and the next block is beyond the worst edge.)                     *)
(***************************************************************************)
FallbackIsWorse ==
    \A i \in DOMAIN fallback :
        IF isBid THEN blockId[fallback[i]] < windowBase ELSE blockId[fallback[i]] >= windowBase + WINDOW

(***************************************************************************)
(* Nothing leaks over any sequence of updates: each block is free or in    *)
(* one place of the window or the fallback with at least one level, each   *)
(* slot is free or of one level, and windowBlocks counts the window.       *)
(***************************************************************************)
Conserved ==
    /\ Placed = Used /\ DOMAIN blockId = Used
    /\ IsInjective(freeBlocks) /\ IsInjective(freeSlots) /\ IsInjective(fallback)
    /\ \A o \in DOMAIN window : window[o] # Null => blockId[window[o]] = windowBase + o
    /\ windowBlocks = Cardinality({o \in DOMAIN window : window[o] # Null})
    /\ Cardinality(Used) = windowBlocks + Len(fallback)
    /\ \A b \in Used : slots[b] # <<>>
    /\ Range(freeSlots) = Slots \ UNION {Range(slots[b]) : b \in Used}
    /\ \A b, c \in Used : b # c => Range(slots[b]) \cap Range(slots[c]) = {}

(***************************************************************************)
(* The representation stays well formed over any sequence of updates,      *)
(* refusals at the limits, recentrings and clears: nothing leaks and the   *)
(* best blocks are the ones in the window.                                 *)
(***************************************************************************)
LayoutIsSound == TypeOK /\ Conserved /\ FallbackIsWorse
=============================================================================
