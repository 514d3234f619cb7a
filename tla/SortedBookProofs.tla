-------------------------- MODULE SortedBookProofs --------------------------
(***************************************************************************)
(* One side of the book for any sizes of block, window and pools: blocks   *)
(* and slots are shared out without loss, the fallback is sorted, and what *)
(* it holds lies beyond the worst edge of the window.  From that, find()   *)
(* reaches every level, forEachBest visits each of them once and best      *)
(* first, and the side implements PriceMap.  Then the numbers: for any     *)
(* width and any number of decimals parseFixed reads every text as exact   *)
(* arithmetic does, and reads back what formatFixed writes.                *)
(***************************************************************************)
EXTENDS MCSortedBook, SequenceTheorems, FiniteSetTheorems, NaturalsInduction, WellFoundedInduction, TLAPS

-----------------------------------------------------------------------------
(* Sorted sequences of blocks *)

\* s lists S in the order of the ids.
Lists(s, S, ids) ==
    s \in [1 .. Cardinality(S) -> S] /\ \A i, j \in 1 .. Cardinality(S) : i < j => ids[s[i]] < ids[s[j]]

\* A finite set of blocks with different ids can be listed: a smallest one that cannot
\* be has a block with the greatest id, and without that block it can.
LEMMA Listed ==
    ASSUME NEW S, IsFiniteSet(S), NEW ids, \A b \in S : ids[b] \in Int,
           \A b, c \in S : ids[b] = ids[c] => b = c
    PROVE  \E s : Lists(s, S, ids)
<1> DEFINE Bad == {A \in SUBSET S : ~\E s : Lists(s, A, ids)}
<1>1. SUFFICES ASSUME Bad # {}
               PROVE  FALSE
  BY <1>1
<1>2. IsWellFoundedOn(StrictSubsetOrdering(S), SUBSET S)
  BY FS_FiniteSubsetsOfFinite, FS_StrictSubsetOrderingWellFounded
<1>3. PICK A \in Bad : \A B \in Bad : ~(<<B, A>> \in StrictSubsetOrdering(S))
  <2> HIDE DEF Bad
  <2>1. Bad \subseteq SUBSET S
    BY DEF Bad
  <2> QED BY <1>1, <1>2, <2>1, WFMin
<1>4. A \in SUBSET S /\ IsFiniteSet(A) /\ ~\E s : Lists(s, A, ids)
  BY FS_Subset
<1>5. ASSUME NEW B \in SUBSET A, B # A
      PROVE  \E s : Lists(s, B, ids)
  <2>1. B \in SUBSET S /\ <<B, A>> \in StrictSubsetOrdering(S)
    BY <1>4, <1>5 DEF StrictSubsetOrdering
  <2>2. B \notin Bad
    BY <1>3, <2>1
  <2> QED BY <2>1, <2>2
<1>6. A # {}
  <2>1. Lists(<<>>, {}, ids)
    BY FS_EmptySet DEF Lists
  <2> QED BY <1>4, <2>1
<1> HIDE DEF Bad
<1>7. PICK x : x \in A
  BY <1>6
<1>8. \E m \in A : \A b \in A : ids[b] <= ids[m]
  <2> DEFINE B == A \ {x}
             n == Cardinality(B)
  <2>1. IsFiniteSet(B) /\ n \in Nat
    BY <1>4, FS_RemoveElement, FS_CardinalityType
  <2>2. PICK s : Lists(s, B, ids)
    BY <1>5, <1>7
  <2>3. s \in [1 .. n -> B] /\ \A i, j \in 1 .. n : i < j => ids[s[i]] < ids[s[j]]
    BY <2>2 DEF Lists
  <2>4. CASE B = {}
    BY <1>4, <1>7, <2>4
  <2>5. (B # {} => n # 0) /\ n = Cardinality(B) /\ B \subseteq A /\ \A b \in A : b = x \/ b \in B
    BY <2>1, FS_EmptySet
  <2> HIDE DEF n, B
  <2>6. CASE B # {}
    <3>1. n # 0
      BY <2>5, <2>6
    <3>2. s[n] \in B /\ n \in 1 .. n
      BY <2>1, <2>3, <3>1
    <3>3. s \in Injection(1 .. n, B)
      <4>1. ASSUME NEW i \in 1 .. n, NEW j \in 1 .. n, s[i] = s[j]
            PROVE  i = j
        <5>1. ids[s[i]] \in Int /\ i \in Int /\ j \in Int
          BY <1>4, <2>3, <2>5
        <5>2. ~(i < j) /\ ~(j < i)
          BY <2>3, <4>1, <5>1
        <5> QED BY <5>2
      <4> QED BY <2>3, <4>1 DEF Injection, IsInjective
    <3>4. IsFiniteSet(1 .. n) /\ Cardinality(1 .. n) = n
      BY <2>1, <3>1, FS_Interval
    <3>5. s \in Surjection(1 .. n, B)
      BY <2>1, <2>5, <3>3, <3>4, FS_Injection
    <3>6. ASSUME NEW b \in B
          PROVE  ids[b] <= ids[s[n]]
      <4>1. PICK i \in 1 .. n : s[i] = b
        BY <3>5 DEF Surjection
      <4>2. ids[b] \in Int /\ ids[s[n]] \in Int
        BY <1>4, <2>5, <3>2
      <4>3. i = n \/ i < n
        BY <2>1
      <4> QED BY <2>3, <3>2, <4>1, <4>2, <4>3
    <3>7. CASE ids[x] <= ids[s[n]]
      BY <1>7, <2>5, <3>2, <3>6, <3>7
    <3>8. CASE ~(ids[x] <= ids[s[n]])
      <4>1. ids[x] \in Int /\ ids[s[n]] \in Int
        BY <1>4, <1>7, <2>5, <3>2
      <4>2. ASSUME NEW b \in A
            PROVE  ids[b] <= ids[x]
        <5>1. ids[b] \in Int
          BY <1>4
        <5>2. b = x \/ b \in B
          BY <2>5
        <5> QED BY <3>6, <3>8, <4>1, <5>1, <5>2
      <4> QED BY <1>7, <4>2
    <3> QED BY <3>7, <3>8
  <2> QED BY <2>4, <2>6
<1>9. PICK m \in A : \A b \in A : ids[b] <= ids[m]
  BY <1>8
<1> DEFINE B == A \ {m}
           n == Cardinality(B)
<1>10. IsFiniteSet(B) /\ n \in Nat /\ Cardinality(A) = n + 1
  <2>1. Cardinality(A) \in Nat
    BY <1>4, FS_CardinalityType
  <2>2. IsFiniteSet(B) /\ n = Cardinality(A) - 1
    BY <1>4, FS_RemoveElement
  <2>3. n \in Nat
    BY <2>2, FS_CardinalityType
  <2> QED BY <2>1, <2>2, <2>3
<1>11. PICK s : Lists(s, B, ids)
  BY <1>5
<1>12. s \in [1 .. n -> B] /\ \A i, j \in 1 .. n : i < j => ids[s[i]] < ids[s[j]]
  BY <1>11 DEF Lists
<1> DEFINE t == [i \in 1 .. n + 1 |-> IF i = n + 1 THEN m ELSE s[i]]
<1> HIDE DEF n
<1>13. t \in [1 .. n + 1 -> A]
  <2>1. ASSUME NEW i \in 1 .. n + 1
        PROVE  t[i] \in A
    <3>1. CASE i = n + 1
      BY <3>1
    <3>2. CASE i # n + 1
      <4>1. i \in 1 .. n
        BY <1>10, <3>2
      <4> QED BY <1>12, <3>2, <4>1
    <3> QED BY <3>1, <3>2
  <2> QED BY <2>1
<1>14. ASSUME NEW i \in 1 .. n + 1, NEW j \in 1 .. n + 1, i < j
       PROVE  ids[t[i]] < ids[t[j]]
  <2>1. i \in 1 .. n /\ i # n + 1 /\ t[i] = s[i]
    BY <1>10, <1>14
  <2>2. s[i] \in B
    BY <1>12, <2>1
  <2>3. CASE j = n + 1
    <3>1. t[j] = m
      BY <2>3
    <3>2. ids[s[i]] \in Int /\ ids[m] \in Int /\ ids[s[i]] <= ids[m] /\ ids[s[i]] # ids[m]
      BY <1>4, <1>9, <2>2
    <3> QED BY <2>1, <3>1, <3>2
  <2>4. CASE j # n + 1
    <3>1. j \in 1 .. n /\ t[j] = s[j]
      BY <1>10, <2>4
    <3> QED BY <1>12, <1>14, <2>1, <3>1
  <2> QED BY <2>3, <2>4
<1>15. Lists(t, A, ids)
  BY <1>10, <1>13, <1>14 DEF Lists
<1> QED BY <1>4, <1>15

\* What recentre() puts into the fallback.
LEMMA AscendingLists ==
    ASSUME NEW S, IsFiniteSet(S), NEW ids, \A b \in S : ids[b] \in Int,
           \A b, c \in S : ids[b] = ids[c] => b = c
    PROVE  /\ Ascending(S, ids) \in Seq(S) /\ Len(Ascending(S, ids)) = Cardinality(S)
           /\ Range(Ascending(S, ids)) = S
           /\ \A i, j \in DOMAIN Ascending(S, ids) : i < j => ids[Ascending(S, ids)[i]] < ids[Ascending(S, ids)[j]]
<1> DEFINE s == Ascending(S, ids)
           n == Cardinality(S)
<1>1. n \in Nat
  BY FS_CardinalityType
<1>2. PICK r : Lists(r, S, ids)
  BY Listed
<1>3. r \in [1 .. n -> S] /\ \A i, j \in DOMAIN r : i < j => ids[r[i]] < ids[r[j]]
  BY <1>2 DEF Lists
<1>4. s \in [1 .. n -> S] /\ \A i, j \in DOMAIN s : i < j => ids[s[i]] < ids[s[j]]
  BY <1>3 DEF Ascending
<1> HIDE DEF s
<1>5. s \in Seq(S) /\ Len(s) = n
  BY <1>1, <1>4
<1>6. s \in Injection(1 .. n, S)
  <2>1. ASSUME NEW i \in 1 .. n, NEW j \in 1 .. n, s[i] = s[j]
        PROVE  i = j
    <3>1. ids[s[i]] \in Int
      BY <1>4
    <3>2. ~(i < j) /\ ~(j < i)
      BY <1>4, <2>1, <3>1
    <3> QED BY <3>2
  <2> QED BY <1>4, <2>1 DEF Injection, IsInjective
<1>7. IsFiniteSet(1 .. n) /\ Cardinality(1 .. n) = n
  BY <1>1, FS_Interval
<1>8. s \in Surjection(1 .. n, S)
  BY <1>6, <1>7, FS_Injection
<1>9. Range(s) = S
  BY <1>4, <1>8 DEF Surjection, Range
<1> QED BY <1>4, <1>5, <1>9 DEF s

-----------------------------------------------------------------------------
(* The inductive invariant *)

\* Beyond the worst edge of the window at base.
Worse(bid, id, base) == IF bid THEN id < base ELSE id >= base + WINDOW

\* The blocks U are laid out in the window and the sorted fallback by their ids.
Arranged(bid, U, ids, base, win, count, fall) ==
    /\ base \in Int
    /\ win \in [0 .. WINDOW - 1 -> U \cup {Null}]
    /\ count = Cardinality({o \in 0 .. WINDOW - 1 : win[o] # Null})
    /\ fall \in Seq(U)
    /\ \A b \in U : (\E o \in 0 .. WINDOW - 1 : win[o] = b) \/ (\E i \in 1 .. Len(fall) : fall[i] = b)
    /\ \A o \in 0 .. WINDOW - 1 : win[o] # Null => ids[win[o]] = base + o
    /\ \A i, j \in 1 .. Len(fall) : i < j => ids[fall[i]] < ids[fall[j]]
    /\ \A i \in 1 .. Len(fall) : Worse(bid, ids[fall[i]], base)

\* Every block is free or arranged.
BlocksInv ==
    /\ isBid \in BOOLEAN /\ centred \in BOOLEAN
    /\ freeBlocks \in Seq(Blocks) /\ IsInjective(freeBlocks)
    /\ blockId \in [Used -> Int]
    /\ Arranged(isBid, Used, blockId, windowBase, window, windowBlocks, fallback)
    /\ ~centred => Used = {}

\* Every slot is free or of one level.
SlotsInv ==
    /\ slots \in [Blocks -> UNION {[D -> Slots] : D \in SUBSET (0 .. TICKS - 1)}]
    /\ freeSlots \in Seq(Slots) /\ IsInjective(freeSlots)
    /\ \A b, c \in Blocks : \A o \in DOMAIN slots[b], p \in DOMAIN slots[c] :
          slots[b][o] = slots[c][p] => b = c /\ o = p
    /\ \A s \in Slots : s \in Range(freeSlots) <=> \A b \in Blocks : \A o \in DOMAIN slots[b] : slots[b][o] # s
    /\ entries \in [Slots \ Range(freeSlots) -> [price : Prices, volume : Volumes \ {0}]]

\* The blocks in use are the ones with levels.
LayoutInv ==
    /\ BlocksInv /\ SlotsInv
    /\ \A b \in Blocks : b \in Used <=> DOMAIN slots[b] # {}
    /\ accepted \in BOOLEAN

-----------------------------------------------------------------------------
(* Where blocks are found *)

\* Blocks in their places have different ids.
LEMMA IdsDiffer ==
    ASSUME NEW bid, NEW U, NEW ids, NEW base, NEW win, NEW count, NEW fall,
           Arranged(bid, U, ids, base, win, count, fall), Null \notin U, \A b \in U : ids[b] \in Int
    PROVE  /\ \A b, c \in U : ids[b] = ids[c] => b = c
           /\ \A b \in U : InWindow(ids[b], base) => win[ids[b] - base] = b
           /\ \A b \in U : ~InWindow(ids[b], base) => Worse(bid, ids[b], base) /\ \E i \in 1 .. Len(fall) : fall[i] = b
<1>1. WINDOW \in Nat /\ base \in Int /\ fall \in Seq(U) /\ Len(fall) \in Nat
  BY SizeAssumption, LenProperties DEF Arranged
<1>2. ASSUME NEW i \in 1 .. Len(fall)
      PROVE  fall[i] \in U /\ ids[fall[i]] \in Int /\ ~InWindow(ids[fall[i]], base)
  <2>1. fall[i] \in U
    BY <1>1, ElementOfSeq
  <2>2. Worse(bid, ids[fall[i]], base)
    BY DEF Arranged
  <2> QED BY <1>1, <2>1, <2>2 DEF Worse, InWindow
<1>3. ASSUME NEW o \in 0 .. WINDOW - 1, win[o] # Null
      PROVE  win[o] \in U /\ ids[win[o]] = base + o /\ InWindow(ids[win[o]], base)
  <2>1. win[o] \in U /\ ids[win[o]] = base + o
    BY <1>3 DEF Arranged
  <2>2. ids[win[o]] - base = o
    BY <1>1, <2>1
  <2> QED BY <2>1, <2>2 DEF InWindow
<1>4. ASSUME NEW b \in U, InWindow(ids[b], base)
      PROVE  win[ids[b] - base] = b
  <2>1. CASE \E o \in 0 .. WINDOW - 1 : win[o] = b
    <3>1. PICK o \in 0 .. WINDOW - 1 : win[o] = b
      BY <2>1
    <3>2. ids[b] = base + o
      BY <1>3, <3>1
    <3>3. ids[b] - base = o
      BY <1>1, <3>2
    <3> QED BY <3>1, <3>3
  <2>2. CASE \E i \in 1 .. Len(fall) : fall[i] = b
    BY <1>2, <1>4, <2>2
  <2> QED BY <2>1, <2>2 DEF Arranged
<1>5. ASSUME NEW b \in U, ~InWindow(ids[b], base)
      PROVE  Worse(bid, ids[b], base) /\ \E i \in 1 .. Len(fall) : fall[i] = b
  <2>1. ~\E o \in 0 .. WINDOW - 1 : win[o] = b
    BY <1>3, <1>5
  <2>2. PICK i \in 1 .. Len(fall) : fall[i] = b
    BY <2>1 DEF Arranged
  <2>3. Worse(bid, ids[fall[i]], base)
    BY DEF Arranged
  <2> QED BY <2>2, <2>3
<1>6. ASSUME NEW b \in U, NEW c \in U, ids[b] = ids[c]
      PROVE  b = c
  <2>1. CASE InWindow(ids[b], base)
    BY <1>4, <1>6, <2>1
  <2>2. CASE ~InWindow(ids[b], base)
    <3>1. PICK i \in 1 .. Len(fall) : fall[i] = b
      BY <1>5, <2>2
    <3>2. PICK j \in 1 .. Len(fall) : fall[j] = c
      BY <1>5, <1>6, <2>2
    <3>3. ~(ids[b] < ids[c]) /\ ~(ids[c] < ids[b])
      BY <1>6
    <3>4. ~(i < j) /\ ~(j < i)
      BY <3>1, <3>2, <3>3 DEF Arranged
    <3> QED BY <1>1, <3>1, <3>2, <3>4
  <2> QED BY <2>1, <2>2
<1> QED BY <1>4, <1>5, <1>6

\* How many numbers there are up to n.
LEMMA CountTo ==
    ASSUME NEW n \in Nat
    PROVE  IsFiniteSet(1 .. n) /\ Cardinality(1 .. n) = n
<1>1. IsFiniteSet(1 .. n) /\ Cardinality(1 .. n) = IF 1 > n THEN 0 ELSE n - 1 + 1
  BY FS_Interval
<1> QED BY <1>1

\* A set of offsets in the window is finite.
LEMMA FewOffsets ==
    ASSUME NEW W \in SUBSET (0 .. WINDOW - 1)
    PROVE  IsFiniteSet(W) /\ Cardinality(W) \in 0 .. WINDOW
<1>1. WINDOW \in Nat \ {0}
  BY SizeAssumption
<1>2. WINDOW - 1 \in Int
  BY <1>1
<1>3. IsFiniteSet(0 .. WINDOW - 1) /\ Cardinality(0 .. WINDOW - 1) = IF 0 > WINDOW - 1 THEN 0 ELSE (WINDOW - 1) - 0 + 1
  BY <1>2, FS_Interval
<1>4. Cardinality(0 .. WINDOW - 1) = WINDOW
  BY <1>1, <1>3
<1>5. IsFiniteSet(W) /\ Cardinality(W) <= WINDOW
  BY <1>3, <1>4, FS_Subset
<1> QED BY <1>1, <1>5, FS_CardinalityType

\* Two sets matched one to one have the same size.
LEMMA Matched ==
    ASSUME NEW S, NEW T, NEW f \in [S -> T], \A a, b \in S : f[a] = f[b] => a = b,
           \A t \in T : \E a \in S : f[a] = t, IsFiniteSet(S)
    PROVE  IsFiniteSet(T) /\ Cardinality(T) = Cardinality(S)
<1>1. f \in Injection(S, T)
  BY DEF Injection, IsInjective
<1>2. f \in Surjection(S, T)
  BY DEF Surjection
<1>3. ExistsBijection(S, T)
  BY <1>1, <1>2 DEF Bijection, ExistsBijection
<1> QED BY <1>3, FS_Bijection

\* A set of naturals that is not empty has a least element.
LEMMA Least ==
    ASSUME NEW S \in SUBSET Nat, S # {}
    PROVE  \E m \in S : \A k \in S : m <= k
<1>1. PICK m \in S : \A k \in S : ~(<<k, m>> \in OpToRel(<, Nat))
  BY NatLessThanWellFounded, WFMin
<1>2. ASSUME NEW k \in S
      PROVE  m <= k
  <2>1. ~(k < m)
    BY <1>1 DEF OpToRel
  <2> QED BY <2>1
<1> QED BY <1>2

\* How many blocks of a sequence have a smaller id, and that they are the first k.
Below(fall, ids, id) == Cardinality({i \in DOMAIN fall : ids[fall[i]] < id})
Splits(k, fall, ids, id) == k \in 0 .. Len(fall) /\ \A i \in 1 .. Len(fall) : ids[fall[i]] < id <=> i <= k

\* lower_bound on a sorted sequence: the smaller ids are the first ones.
LEMMA LowerBound ==
    ASSUME NEW U, NEW fall \in Seq(U), NEW ids, \A b \in U : ids[b] \in Int, NEW id \in Int,
           \A i, j \in 1 .. Len(fall) : i < j => ids[fall[i]] < ids[fall[j]]
    PROVE  Splits(Below(fall, ids, id), fall, ids, id)
<1> DEFINE n == Len(fall)
           D == {i \in DOMAIN fall : ids[fall[i]] < id}
           R == (1 .. n) \ D
<1>1. n \in Nat /\ DOMAIN fall = 1 .. n
  BY LenProperties
<1>2. \A i \in 1 .. n : ids[fall[i]] \in Int
  BY <1>1, ElementOfSeq
<1>3. CASE R = {}
  <2>1. D = 1 .. n
    BY <1>1, <1>3
  <2>2. Cardinality(D) = n
    BY <1>1, <2>1, CountTo
  <2>3. \A i \in 1 .. n : ids[fall[i]] < id /\ i <= n
    BY <1>1, <2>1
  <2>4. n \in 0 .. n
    BY <1>1
  <2> QED BY <2>2, <2>3, <2>4 DEF Below, Splits
<1>4. CASE R # {}
  <2>1. PICK m \in R : \A k \in R : m <= k
    <3>1. R \in SUBSET Nat
      BY <1>1
    <3> HIDE DEF R
    <3> QED BY <1>4, <3>1, Least
  <2>2. m \in 1 .. n /\ ~(ids[fall[m]] < id)
    BY <1>1, <2>1
  <2>3. \A i \in 1 .. n : ids[fall[i]] < id <=> i <= m - 1
    <3>1. ASSUME NEW i \in 1 .. n, i <= m - 1
          PROVE  ids[fall[i]] < id
      <4>1. ~(m <= i)
        BY <1>1, <2>2, <3>1
      <4>2. i \notin R
        BY <2>1, <4>1
      <4> QED BY <1>1, <4>2
    <3>2. ASSUME NEW i \in 1 .. n, ~(i <= m - 1)
          PROVE  ~(ids[fall[i]] < id)
      <4>1. i = m \/ m < i
        BY <1>1, <2>2, <3>2
      <4>2. i = m \/ ids[fall[m]] < ids[fall[i]]
        BY <2>2, <4>1
      <4> QED BY <1>2, <2>2, <4>2
    <3> QED BY <3>1, <3>2
  <2>4. D = 1 .. m - 1
    BY <1>1, <2>2, <2>3
  <2>5. m - 1 \in 0 .. n /\ m - 1 \in Nat
    BY <1>1, <2>2
  <2>6. Cardinality(D) = m - 1
    BY <2>4, <2>5, CountTo
  <2> QED BY <2>3, <2>5, <2>6 DEF Below, Splits
<1> QED BY <1>3, <1>4

\* The block of an id is found, through the window or through the fallback.
LEMMA FindBlock ==
    ASSUME BlocksInv, NEW id \in Int
    PROVE  /\ findBlock(id) \in Used \cup {Null}
           /\ findBlock(id) # Null => blockId[findBlock(id)] = id
           /\ findBlock(id) = Null => \A b \in Used : blockId[b] # id
<1>1. /\ Arranged(isBid, Used, blockId, windowBase, window, windowBlocks, fallback)
      /\ Null \notin Used /\ \A b \in Used : blockId[b] \in Int
  BY SizeAssumption DEF BlocksInv, Used, Blocks, Null
<1>2. windowBase \in Int /\ fallback \in Seq(Used) /\ DOMAIN fallback = 1 .. Len(fallback) /\ Len(fallback) \in Nat
  BY <1>1, LenProperties DEF Arranged
<1>3. /\ \A b \in Used : InWindow(blockId[b], windowBase) => window[blockId[b] - windowBase] = b
      /\ \A b \in Used : ~InWindow(blockId[b], windowBase) => \E i \in 1 .. Len(fallback) : fallback[i] = b
  BY <1>1, IdsDiffer
<1>4. CASE InWindow(id, windowBase)
  <2>1. findBlock(id) = window[id - windowBase]
    BY <1>4 DEF findBlock
  <2>2. id - windowBase \in 0 .. WINDOW - 1
    BY <1>4 DEF InWindow
  <2>3. window[id - windowBase] \in Used \cup {Null}
    BY <1>1, <2>2 DEF Arranged
  <2>4. window[id - windowBase] # Null => blockId[window[id - windowBase]] = windowBase + (id - windowBase)
    BY <1>1, <2>2 DEF Arranged
  <2>5. windowBase + (id - windowBase) = id
    BY <1>2
  <2>6. ASSUME NEW b \in Used, blockId[b] = id
        PROVE  window[id - windowBase] = b
    BY <1>3, <1>4, <2>6
  <2> QED BY <1>1, <2>1, <2>3, <2>4, <2>5, <2>6
<1>5. CASE ~InWindow(id, windowBase)
  <2>1. PICK k \in 0 .. Len(fallback) :
            /\ fallbackFind(id) = k
            /\ \A i \in 1 .. Len(fallback) : blockId[fallback[i]] < id <=> i <= k
    BY <1>1, <1>2, LowerBound DEF Arranged, fallbackFind, Below, Splits
  <2>2. CASE k + 1 \in DOMAIN fallback /\ blockId[fallback[k + 1]] = id
    <3>1. findBlock(id) = fallback[k + 1]
      BY <1>5, <2>1, <2>2 DEF findBlock
    <3>2. fallback[k + 1] \in Used
      BY <1>2, <2>2, ElementOfSeq
    <3> QED BY <1>1, <2>2, <3>1, <3>2
  <2>3. CASE ~(k + 1 \in DOMAIN fallback /\ blockId[fallback[k + 1]] = id)
    <3>1. findBlock(id) = Null
      BY <1>5, <2>1, <2>3 DEF findBlock
    <3>2. ASSUME NEW b \in Used, blockId[b] = id
          PROVE  FALSE
      <4>1. PICK i \in 1 .. Len(fallback) : fallback[i] = b
        BY <1>3, <1>5, <3>2
      <4>2. ~(i <= k) /\ k \in Int /\ i \in Int
        BY <1>2, <2>1, <3>2, <4>1
      <4>3. k + 1 \in 1 .. Len(fallback) /\ (i = k + 1 \/ k + 1 < i)
        BY <1>2, <4>2
      <4>4. i # k + 1
        BY <1>2, <2>3, <3>2, <4>1, <4>3
      <4>5. blockId[fallback[k + 1]] < id
        BY <1>1, <3>2, <4>1, <4>3, <4>4 DEF Arranged
      <4>6. k + 1 <= k
        BY <2>1, <4>3, <4>5
      <4> QED BY <4>2, <4>6
    <3> QED BY <3>1, <3>2
  <2> QED BY <2>2, <2>3
<1> QED BY <1>4, <1>5

-----------------------------------------------------------------------------
(* Sequences that grow and shrink *)

\* t is s with x after its first k elements; t is s without its element k.
IsInserted(t, s, k, x) ==
    /\ Len(t) = Len(s) + 1
    /\ \A i \in 1 .. k : t[i] = s[i]
    /\ t[k + 1] = x
    /\ \A i \in k + 2 .. Len(s) + 1 : t[i] = s[i - 1]
IsRemoved(t, s, k) ==
    /\ Len(t) = Len(s) - 1
    /\ \A i \in 1 .. k - 1 : t[i] = s[i]
    /\ \A i \in k .. Len(s) - 1 : t[i] = s[i + 1]

\* fallback.insert
LEMMA Inserted ==
    ASSUME NEW S, NEW s \in Seq(S), NEW x \in S, NEW k \in 0 .. Len(s)
    PROVE  InsertAt(s, k + 1, x) \in Seq(S) /\ IsInserted(InsertAt(s, k + 1, x), s, k, x)
<1> DEFINE n == Len(s)
           u == SubSeq(s, 1, k)
           v == SubSeq(s, k + 1, n)
           w == u \o <<x>>
           t == w \o v
<1>1. n \in Nat /\ k \in Nat /\ k <= n /\ \A i \in 1 .. n : s[i] \in S
  BY LenProperties, ElementOfSeq
<1>2. u \in Seq(S) /\ Len(u) = k /\ \A i \in 1 .. k : u[i] = s[i]
  <2>1. \A i \in 1 .. k : s[i] \in S
    BY <1>1
  <2>2. /\ u \in Seq(S) /\ Len(u) = IF 1 <= k THEN k - 1 + 1 ELSE 0
        /\ \A i \in 1 .. k - 1 + 1 : u[i] = s[1 + i - 1]
    BY <1>1, <2>1, SubSeqProperties
  <2>3. ASSUME NEW i \in 1 .. k
        PROVE  i \in 1 .. k - 1 + 1 /\ 1 + i - 1 = i
    BY <1>1
  <2> HIDE DEF u
  <2> QED BY <1>1, <2>2, <2>3
<1>3. v \in Seq(S) /\ Len(v) = n - k /\ \A i \in 1 .. n - k : v[i] = s[k + i]
  <2>1. \A i \in k + 1 .. n : s[i] \in S
    BY <1>1
  <2>2. /\ v \in Seq(S) /\ Len(v) = IF k + 1 <= n THEN n - (k + 1) + 1 ELSE 0
        /\ \A i \in 1 .. n - (k + 1) + 1 : v[i] = s[k + 1 + i - 1]
    BY <1>1, <2>1, SubSeqProperties
  <2>3. ASSUME NEW i \in 1 .. n - k
        PROVE  i \in 1 .. n - (k + 1) + 1 /\ k + 1 + i - 1 = k + i
    BY <1>1
  <2> HIDE DEF v, n
  <2> QED BY <1>1, <2>2, <2>3
<1>4. InsertAt(s, k + 1, x) = t
  <2>1. (k + 1) - 1 = k
    BY <1>1
  <2> QED BY <2>1, Zenon DEF InsertAt
<1> HIDE DEF n, u, v
<1>5. <<x>> \in Seq(S) /\ Len(<<x>>) = 1 /\ <<x>>[1] = x
  OBVIOUS
<1>6. /\ w \in Seq(S) /\ Len(w) = k + 1
      /\ \A i \in 1 .. k + 1 : w[i] = IF i <= k THEN u[i] ELSE <<x>>[i - k]
  BY <1>2, <1>5, ConcatProperties
<1>7. (\A i \in 1 .. k : w[i] = s[i]) /\ w[k + 1] = x
  <2> HIDE DEF w
  <2>1. \A i \in 1 .. k : w[i] = u[i]
    BY <1>1, <1>6
  <2>2. w[k + 1] = <<x>>[k + 1 - k] /\ k + 1 - k = 1
    BY <1>1, <1>6
  <2> QED BY <1>2, <1>5, <2>1, <2>2
<1> HIDE DEF w
<1>8. /\ t \in Seq(S) /\ Len(t) = k + 1 + (n - k)
      /\ \A i \in 1 .. k + 1 + (n - k) : t[i] = IF i <= k + 1 THEN w[i] ELSE v[i - (k + 1)]
  <2>1. /\ t \in Seq(S) /\ Len(t) = Len(w) + Len(v)
        /\ \A i \in 1 .. Len(w) + Len(v) : t[i] = IF i <= Len(w) THEN w[i] ELSE v[i - Len(w)]
    BY <1>3, <1>6, ConcatProperties
  <2> HIDE DEF t
  <2> QED BY <1>3, <1>6, <2>1
<1> HIDE DEF t
<1>9. k + 1 + (n - k) = n + 1
  BY <1>1
<1>10. (\A i \in 1 .. k : t[i] = w[i]) /\ t[k + 1] = w[k + 1]
  BY <1>1, <1>8, <1>9
<1>11. ASSUME NEW i \in k + 2 .. n + 1
       PROVE  t[i] = s[i - 1]
  <2>1. t[i] = v[i - (k + 1)] /\ i - (k + 1) \in 1 .. n - k /\ k + (i - (k + 1)) = i - 1
    BY <1>1, <1>8, <1>9
  <2>2. v[i - (k + 1)] = s[k + (i - (k + 1))]
    BY <1>3, <2>1
  <2> QED BY <2>1, <2>2
<1> QED BY <1>4, <1>7, <1>8, <1>9, <1>10, <1>11 DEF n, IsInserted

\* fallback.erase
LEMMA Removed ==
    ASSUME NEW S, NEW s \in Seq(S), NEW k \in 1 .. Len(s)
    PROVE  RemoveAt(s, k) \in Seq(S) /\ IsRemoved(RemoveAt(s, k), s, k)
<1> DEFINE n == Len(s)
           u == SubSeq(s, 1, k - 1)
           v == SubSeq(s, k + 1, n)
           t == u \o v
<1>1. n \in Nat /\ k \in Nat /\ 1 <= k /\ k <= n /\ \A i \in 1 .. n : s[i] \in S
  BY LenProperties, ElementOfSeq
<1>2. u \in Seq(S) /\ Len(u) = k - 1 /\ \A i \in 1 .. k - 1 : u[i] = s[i]
  <2>1. \A i \in 1 .. k - 1 : s[i] \in S
    BY <1>1
  <2>2. /\ u \in Seq(S) /\ Len(u) = IF 1 <= k - 1 THEN k - 1 - 1 + 1 ELSE 0
        /\ \A i \in 1 .. k - 1 - 1 + 1 : u[i] = s[1 + i - 1]
    BY <1>1, <2>1, SubSeqProperties
  <2>3. ASSUME NEW i \in 1 .. k - 1
        PROVE  i \in 1 .. k - 1 - 1 + 1 /\ 1 + i - 1 = i
    BY <1>1
  <2> HIDE DEF u
  <2> QED BY <1>1, <2>2, <2>3
<1>3. v \in Seq(S) /\ Len(v) = n - k /\ \A i \in 1 .. n - k : v[i] = s[k + i]
  <2>1. \A i \in k + 1 .. n : s[i] \in S
    BY <1>1
  <2>2. /\ v \in Seq(S) /\ Len(v) = IF k + 1 <= n THEN n - (k + 1) + 1 ELSE 0
        /\ \A i \in 1 .. n - (k + 1) + 1 : v[i] = s[k + 1 + i - 1]
    BY <1>1, <2>1, SubSeqProperties
  <2>3. ASSUME NEW i \in 1 .. n - k
        PROVE  i \in 1 .. n - (k + 1) + 1 /\ k + 1 + i - 1 = k + i
    BY <1>1
  <2> HIDE DEF v, n
  <2> QED BY <1>1, <2>2, <2>3
<1>4. RemoveAt(s, k) = t
  BY DEF RemoveAt
<1> HIDE DEF n, u, v
<1>5. /\ t \in Seq(S) /\ Len(t) = k - 1 + (n - k)
      /\ \A i \in 1 .. k - 1 + (n - k) : t[i] = IF i <= k - 1 THEN u[i] ELSE v[i - (k - 1)]
  BY <1>2, <1>3, ConcatProperties
<1> HIDE DEF t
<1>6. k - 1 + (n - k) = n - 1
  BY <1>1
<1>7. \A i \in 1 .. k - 1 : t[i] = s[i]
  BY <1>1, <1>2, <1>5, <1>6
<1>8. ASSUME NEW i \in k .. n - 1
      PROVE  t[i] = s[i + 1]
  <2>1. t[i] = v[i - (k - 1)] /\ i - (k - 1) \in 1 .. n - k /\ k + (i - (k - 1)) = i + 1
    BY <1>1, <1>5, <1>6
  <2>2. v[i - (k - 1)] = s[k + (i - (k - 1))]
    BY <1>3, <2>1
  <2> QED BY <2>1, <2>2
<1> QED BY <1>4, <1>5, <1>6, <1>7, <1>8 DEF n, IsRemoved

\* Taking the last of a stack of free blocks or slots.
LEMMA Popped ==
    ASSUME NEW S, NEW s \in Seq(S), IsInjective(s), s # <<>>
    PROVE  /\ Last(s) \in S /\ Last(s) \in Range(s)
           /\ Front(s) \in Seq(S) /\ IsInjective(Front(s))
           /\ Range(Front(s)) = Range(s) \ {Last(s)}
<1> DEFINE n == Len(s)
           f == Front(s)
<1>1. n \in Nat \ {0} /\ DOMAIN s = 1 .. n /\ \A i \in 1 .. n : s[i] \in S
  BY LenProperties, EmptySeq, ElementOfSeq
<1>2. f \in Seq(S) /\ Len(f) = n - 1 /\ \A i \in 1 .. n - 1 : f[i] = s[i]
  <2>1. \A i \in 1 .. n - 1 : s[i] \in S
    BY <1>1
  <2>2. /\ f \in Seq(S) /\ Len(f) = IF 1 <= n - 1 THEN n - 1 - 1 + 1 ELSE 0
        /\ \A i \in 1 .. n - 1 - 1 + 1 : f[i] = s[1 + i - 1]
    BY <1>1, <2>1, SubSeqProperties DEF Front
  <2>3. ASSUME NEW i \in 1 .. n - 1
        PROVE  i \in 1 .. n - 1 - 1 + 1 /\ 1 + i - 1 = i
    BY <1>1
  <2> HIDE DEF f, n
  <2> QED BY <1>1, <2>2, <2>3
<1>3. DOMAIN f = 1 .. n - 1
  BY <1>2, LenProperties
<1>4. n \in 1 .. n /\ Last(s) = s[n]
  BY <1>1 DEF Last
<1>5. \A i, j \in 1 .. n : s[i] = s[j] => i = j
  BY <1>1 DEF IsInjective
<1> HIDE DEF f, n
<1>6. IsInjective(f)
  BY <1>1, <1>2, <1>3, <1>5 DEF IsInjective
<1>7. Range(f) = Range(s) \ {s[n]}
  BY <1>1, <1>2, <1>3, <1>4, <1>5 DEF Range
<1>8. Last(s) \in Range(s) /\ Last(s) \in S
  BY <1>1, <1>4 DEF Range
<1> QED BY <1>2, <1>4, <1>6, <1>7, <1>8 DEF f

\* Giving one back.
LEMMA Pushed ==
    ASSUME NEW S, NEW s \in Seq(S), IsInjective(s), NEW x \in S, x \notin Range(s)
    PROVE  /\ Append(s, x) \in Seq(S) /\ IsInjective(Append(s, x))
           /\ Range(Append(s, x)) = Range(s) \cup {x}
<1> DEFINE n == Len(s)
           t == Append(s, x)
<1>1. n \in Nat /\ DOMAIN s = 1 .. n
  BY LenProperties
<1>2. t \in Seq(S) /\ Len(t) = n + 1 /\ t[n + 1] = x /\ \A i \in 1 .. n : t[i] = s[i]
  BY AppendProperties
<1>3. DOMAIN t = 1 .. n + 1
  BY <1>2, LenProperties
<1>4. \A i \in 1 .. n : s[i] # x
  BY <1>1 DEF Range
<1> HIDE DEF n, t
<1>5. \A i \in 1 .. n + 1 : i \in 1 .. n \/ i = n + 1
  BY <1>1
<1>6. \A i, j \in 1 .. n + 1 : t[i] = t[j] => i = j
  <2>1. \A i, j \in 1 .. n : s[i] = s[j] => i = j
    BY <1>1 DEF IsInjective
  <2> QED BY <1>2, <1>4, <1>5, <2>1
<1>7. n + 1 \in 1 .. n + 1 /\ \A i \in 1 .. n : i \in 1 .. n + 1
  BY <1>1
<1>8. Range(t) = Range(s) \cup {x}
  BY <1>1, <1>2, <1>3, <1>5, <1>7 DEF Range
<1>9. IsInjective(t)
  BY <1>3, <1>6 DEF IsInjective
<1> QED BY <1>2, <1>8, <1>9 DEF t

-----------------------------------------------------------------------------
(* How the arrangement changes *)

\* The ids of other blocks do not matter.
LEMMA SameIds ==
    ASSUME NEW bid, NEW U, NEW ids, NEW base, NEW win, NEW count, NEW fall,
           Arranged(bid, U, ids, base, win, count, fall),
           NEW ids2, \A b \in U : ids2[b] = ids[b]
    PROVE  Arranged(bid, U, ids2, base, win, count, fall)
<1>1. \A i \in 1 .. Len(fall) : ids2[fall[i]] = ids[fall[i]]
  BY ElementOfSeq DEF Arranged
<1>2. \A o \in 0 .. WINDOW - 1 : win[o] # Null => ids2[win[o]] = ids[win[o]]
  BY DEF Arranged
<1> QED BY <1>1, <1>2 DEF Arranged

\* What recentre() makes of the blocks when the centre is the best of them.
LEMMA Recentred ==
    ASSUME NEW bid \in BOOLEAN, NEW U, IsFiniteSet(U), Null \notin U,
           NEW ids, \A b \in U : ids[b] \in Int, \A b, c \in U : ids[b] = ids[c] => b = c,
           NEW centre \in Int, \A b \in U : IF bid THEN ids[b] <= centre ELSE centre <= ids[b],
           NEW base, base = centre - WINDOW \div 2,
           NEW inside, inside = {b \in U : InWindow(ids[b], base)},
           NEW win, win = [o \in 0 .. WINDOW - 1 |->
                              IF \E b \in inside : ids[b] = base + o
                              THEN CHOOSE b \in inside : ids[b] = base + o ELSE Null]
    PROVE  Arranged(bid, U, ids, base, win, Cardinality(inside), Ascending(U \ inside, ids))
<1> DEFINE fall == Ascending(U \ inside, ids)
           W == {o \in 0 .. WINDOW - 1 : win[o] # Null}
<1>1. WINDOW \in Nat \ {0} /\ WINDOW \div 2 \in 0 .. WINDOW - 1 /\ base \in Int
  BY SizeAssumption
<1>2. ASSUME NEW o \in 0 .. WINDOW - 1
      PROVE  /\ win[o] # Null => win[o] \in inside /\ ids[win[o]] = base + o
             /\ \A b \in inside : ids[b] = base + o => win[o] = b
  <2>1. CASE \E b \in inside : ids[b] = base + o
    <3>1. win[o] = CHOOSE b \in inside : ids[b] = base + o
      BY <2>1
    <3>2. win[o] \in inside /\ ids[win[o]] = base + o
      BY <2>1, <3>1
    <3> QED BY <3>2
  <2>2. CASE ~\E b \in inside : ids[b] = base + o
    BY <2>2
  <2> QED BY <2>1, <2>2
<1>3. ASSUME NEW b \in inside
      PROVE  b \in U /\ ids[b] - base \in 0 .. WINDOW - 1 /\ win[ids[b] - base] = b /\ b # Null
  <2>1. b \in U /\ ids[b] - base \in 0 .. WINDOW - 1 /\ ids[b] \in Int
    BY DEF InWindow
  <2>2. base + (ids[b] - base) = ids[b]
    BY <1>1, <2>1
  <2> QED BY <1>2, <2>1, <2>2
<1>4. win \in [0 .. WINDOW - 1 -> U \cup {Null}]
  <2>1. \A o \in 0 .. WINDOW - 1 : win[o] \in U \cup {Null}
    BY <1>2
  <2> QED BY <2>1
<1>5. IsFiniteSet(inside) /\ IsFiniteSet(U \ inside)
  BY FS_Subset
<1> HIDE DEF W
<1>6. Cardinality(inside) = Cardinality(W)
  <2> DEFINE f == [o \in W |-> win[o]]
  <2>1. IsFiniteSet(W)
    <3>1. W \in SUBSET (0 .. WINDOW - 1)
      BY DEF W
    <3> QED BY <3>1, FewOffsets
  <2>2. \A o \in W : o \in Int /\ win[o] \in inside /\ ids[win[o]] = base + o
    BY <1>1, <1>2 DEF W
  <2>3. ASSUME NEW o \in W, NEW p \in W, win[o] = win[p]
        PROVE  o = p
    <3>1. base + o = base + p /\ o \in Int /\ p \in Int
      BY <2>2, <2>3
    <3> QED BY <1>1, <3>1
  <2>4. \A b \in inside : \E o \in W : win[o] = b
    BY <1>3 DEF W
  <2>5. f \in [W -> inside] /\ \A o \in W : f[o] = win[o]
    BY <2>2
  <2> HIDE DEF f
  <2>6. ASSUME NEW a \in W, NEW b \in W, f[a] = f[b]
        PROVE  a = b
    <3>1. win[a] = win[b]
      BY <2>5, <2>6
    <3> QED BY <2>3, <3>1
  <2>7. ASSUME NEW t \in inside
        PROVE  \E a \in W : f[a] = t
    <3>1. PICK a \in W : win[a] = t
      BY <2>4
    <3>2. f[a] = t
      BY <2>5, <3>1
    <3> QED BY <3>2
  <2> QED BY <2>1, <2>5, <2>6, <2>7, Matched, Zenon
<1>7. /\ fall \in Seq(U \ inside) /\ Range(fall) = U \ inside
      /\ \A i, j \in DOMAIN fall : i < j => ids[fall[i]] < ids[fall[j]]
  <2>1. \A b \in U \ inside : ids[b] \in Int
    OBVIOUS
  <2>2. \A b, c \in U \ inside : ids[b] = ids[c] => b = c
    OBVIOUS
  <2> HIDE DEF fall
  <2> QED BY <1>5, <2>1, <2>2, AscendingLists DEF fall
<1> HIDE DEF fall
<1>8. fall \in Seq(U) /\ DOMAIN fall = 1 .. Len(fall)
  BY <1>7, SeqMonotonic, LenProperties
<1>9. \A b \in U \ inside : \E i \in 1 .. Len(fall) : fall[i] = b
  BY <1>7, <1>8 DEF Range
<1>10. ASSUME NEW i \in 1 .. Len(fall)
       PROVE  Worse(bid, ids[fall[i]], base)
  <2>1. fall[i] \in U \ inside
    BY <1>7, ElementOfSeq
  <2>2. ids[fall[i]] \in Int /\ ~InWindow(ids[fall[i]], base)
    BY <2>1
  <2>3. IF bid THEN ids[fall[i]] <= centre ELSE centre <= ids[fall[i]]
    BY <2>1
  <2>4. ~(ids[fall[i]] - base \in 0 .. WINDOW - 1)
    BY <2>2 DEF InWindow
  <2>5. centre = base + WINDOW \div 2
    BY <1>1
  <2>6. CASE bid
    BY <1>1, <2>2, <2>3, <2>4, <2>5, <2>6 DEF Worse
  <2>7. CASE ~bid
    BY <1>1, <2>2, <2>3, <2>4, <2>5, <2>7 DEF Worse
  <2> QED BY <2>6, <2>7
<1>11. \A b \in U : (\E o \in 0 .. WINDOW - 1 : win[o] = b) \/ (\E i \in 1 .. Len(fall) : fall[i] = b)
  BY <1>3, <1>9
<1>12. \A o \in 0 .. WINDOW - 1 : win[o] # Null => ids[win[o]] = base + o
  BY <1>2
<1>13. \A i, j \in 1 .. Len(fall) : i < j => ids[fall[i]] < ids[fall[j]]
  BY <1>7, <1>8
<1>14. Arranged(bid, U, ids, base, win, Cardinality(inside), fall)
  BY <1>1, <1>4, <1>6, <1>8, <1>10, <1>11, <1>12, <1>13 DEF Arranged, W
<1> QED BY <1>14 DEF fall

\* place(), and putting a block where it was not found.
LEMMA PlacedWell ==
    ASSUME NEW bid, NEW U, NEW ids, NEW base, NEW win, NEW count, NEW fall,
           Arranged(bid, U, ids, base, win, count, fall), Null \notin U, \A b \in U : ids[b] \in Int,
           NEW level, level # Null, level \notin U, NEW id \in Int, \A b \in U : ids[b] # id,
           NEW ids2, ids2[level] = id, \A b \in U : ids2[b] = ids[b]
    PROVE  /\ InWindow(id, base) =>
                 Arranged(bid, U \cup {level}, ids2, base, [win EXCEPT ![id - base] = level], count + 1, fall)
           /\ Worse(bid, id, base) =>
                 Arranged(bid, U \cup {level}, ids2, base, win, count,
                          InsertAt(fall, Below(fall, ids, id) + 1, level))
<1>1. Arranged(bid, U, ids2, base, win, count, fall)
  BY SameIds
<1>2. /\ WINDOW \in Nat /\ base \in Int /\ fall \in Seq(U) /\ fall \in Seq(U \cup {level}) /\ Len(fall) \in Nat
      /\ \A i \in 1 .. Len(fall) : fall[i] \in U /\ ids2[fall[i]] \in Int
  BY SizeAssumption, LenProperties, ElementOfSeq, SeqMonotonic DEF Arranged
<1>3. ASSUME InWindow(id, base)
      PROVE  Arranged(bid, U \cup {level}, ids2, base, [win EXCEPT ![id - base] = level], count + 1, fall)
  <2> DEFINE p == id - base
             new == [win EXCEPT ![p] = level]
             W == {o \in 0 .. WINDOW - 1 : win[o] # Null}
  <2>1. p \in 0 .. WINDOW - 1 /\ base + p = id
    BY <1>2, <1>3 DEF InWindow
  <2>2. win \in [0 .. WINDOW - 1 -> U \cup {Null}]
    BY DEF Arranged
  <2> HIDE DEF p
  <2>3. new[p] = level /\ \A o \in 0 .. WINDOW - 1 : o # p => new[o] = win[o]
    BY <2>1, <2>2
  <2>4. new \in [0 .. WINDOW - 1 -> (U \cup {level}) \cup {Null}]
    BY <2>1, <2>2
  <2>5. win[p] = Null
    <3>1. ASSUME win[p] # Null
          PROVE  FALSE
      <4>1. win[p] \in U /\ ids[win[p]] = base + p
        BY <2>1, <2>2, <3>1 DEF Arranged
      <4> QED BY <2>1, <4>1
    <3> QED BY <3>1
  <2> HIDE DEF new
  <2>6. {o \in 0 .. WINDOW - 1 : new[o] # Null} = W \cup {p} /\ p \notin W
    BY <2>1, <2>3, <2>5
  <2>7. IsFiniteSet(W)
    <3>1. W \in SUBSET (0 .. WINDOW - 1)
      OBVIOUS
    <3> HIDE DEF W, new
    <3> QED BY <3>1, FewOffsets
  <2>8. count = Cardinality(W)
    BY DEF Arranged
  <2> HIDE DEF W
  <2>9. count + 1 = Cardinality({o \in 0 .. WINDOW - 1 : new[o] # Null})
    BY <2>6, <2>7, <2>8, FS_AddElement
  <2>10. \A o \in 0 .. WINDOW - 1 : new[o] # Null => ids2[new[o]] = base + o
    BY <1>1, <2>1, <2>3 DEF Arranged
  <2>11. \A b \in U \cup {level} : (\E o \in 0 .. WINDOW - 1 : new[o] = b) \/ (\E i \in 1 .. Len(fall) : fall[i] = b)
    <3>1. ASSUME NEW b \in U, NEW o \in 0 .. WINDOW - 1, win[o] = b
          PROVE  new[o] = b
      BY <2>3, <2>5, <3>1
    <3> QED BY <2>1, <2>3, <3>1 DEF Arranged
  <2>12. Arranged(bid, U \cup {level}, ids2, base, new, count + 1, fall)
    BY <1>1, <1>2, <2>4, <2>9, <2>10, <2>11 DEF Arranged
  <2> QED BY <2>12 DEF new, p
<1>4. ASSUME Worse(bid, id, base)
      PROVE  Arranged(bid, U \cup {level}, ids2, base, win, count,
                      InsertAt(fall, Below(fall, ids, id) + 1, level))
  <2> DEFINE k == Below(fall, ids, id)
  <2>1. Splits(k, fall, ids, id)
    <3>1. fall \in Seq(U) /\ \A i, j \in 1 .. Len(fall) : i < j => ids[fall[i]] < ids[fall[j]]
      BY DEF Arranged
    <3> QED BY <3>1, LowerBound
  <2> DEFINE new == InsertAt(fall, k + 1, level)
             n == Len(fall)
  <2> HIDE DEF k
  <2>2. /\ new \in Seq(U \cup {level}) /\ Len(new) = n + 1
        /\ \A i \in 1 .. k : new[i] = fall[i]
        /\ new[k + 1] = level
        /\ \A i \in k + 2 .. n + 1 : new[i] = fall[i - 1]
    <3>1. level \in U \cup {level} /\ fall \in Seq(U \cup {level}) /\ k \in 0 .. Len(fall)
      BY <1>2, <2>1 DEF Splits
    <3>2. new \in Seq(U \cup {level}) /\ IsInserted(new, fall, k, level)
      BY <3>1, Inserted
    <3> HIDE DEF new
    <3> QED BY <3>2 DEF IsInserted
  <2> HIDE DEF new, n
  <2>3. n \in Nat /\ k \in Nat /\ k <= n
    BY <1>2, <2>1 DEF n, Splits
  <2>4. /\ \A i \in 1 .. k : i \in 1 .. n /\ ids2[fall[i]] < id
        /\ \A i \in k + 1 .. n : i \in 1 .. n /\ id < ids2[fall[i]]
    <3>1. \A i \in 1 .. n : ids2[fall[i]] = ids[fall[i]] /\ ids[fall[i]] # id /\ ids[fall[i]] \in Int
      BY <1>2 DEF n
    <3> QED BY <2>1, <2>3, <3>1 DEF n, Splits
  <2>5. \A i \in 1 .. n + 1 : i \in 1 .. k \/ i = k + 1 \/ (i \in k + 2 .. n + 1 /\ i - 1 \in k + 1 .. n)
    BY <2>3
  <2>6. ASSUME NEW i \in 1 .. n + 1, NEW j \in 1 .. n + 1, i < j
        PROVE  ids2[new[i]] < ids2[new[j]]
    <3>1. \A a, b \in 1 .. n : a < b => ids2[fall[a]] < ids2[fall[b]]
      BY <1>1 DEF Arranged, n
    <3>2. CASE i \in 1 .. k /\ j \in 1 .. k
      BY <2>2, <2>4, <2>6, <3>1, <3>2
    <3>3. CASE i \in 1 .. k /\ j = k + 1
      BY <2>2, <2>4, <3>3
    <3>4. CASE i \in 1 .. k /\ j \in k + 2 .. n + 1 /\ j - 1 \in k + 1 .. n
      <4>1. i < j - 1
        BY <2>3, <3>4
      <4> QED BY <2>2, <2>4, <3>1, <3>4, <4>1
    <3>5. CASE i = k + 1 /\ j \in k + 2 .. n + 1 /\ j - 1 \in k + 1 .. n
      BY <2>2, <2>4, <3>5
    <3>6. CASE i \in k + 2 .. n + 1 /\ i - 1 \in k + 1 .. n /\ j \in k + 2 .. n + 1 /\ j - 1 \in k + 1 .. n
      <4>1. i - 1 < j - 1
        BY <2>3, <2>6
      <4> QED BY <2>2, <2>4, <3>1, <3>6, <4>1
    <3> QED BY <2>3, <2>5, <2>6, <3>2, <3>3, <3>4, <3>5, <3>6
  <2>7. ASSUME NEW i \in 1 .. n + 1
        PROVE  Worse(bid, ids2[new[i]], base)
    <3>1. \A a \in 1 .. n : Worse(bid, ids2[fall[a]], base)
      BY <1>1 DEF Arranged, n
    <3>2. CASE i \in 1 .. k
      BY <2>2, <2>4, <3>1, <3>2
    <3>3. CASE i = k + 1
      BY <1>4, <2>2, <3>3
    <3>4. CASE i \in k + 2 .. n + 1 /\ i - 1 \in k + 1 .. n
      BY <2>2, <2>4, <3>1, <3>4
    <3> QED BY <2>5, <3>2, <3>3, <3>4
  <2>8. \A b \in U \cup {level} : (\E o \in 0 .. WINDOW - 1 : win[o] = b) \/ (\E i \in 1 .. n + 1 : new[i] = b)
    <3>1. ASSUME NEW i \in 1 .. n
          PROVE  \E j \in 1 .. n + 1 : new[j] = fall[i]
      <4>1. CASE i <= k
        <5>1. i \in 1 .. k /\ i \in 1 .. n + 1
          BY <2>3, <4>1
        <5> QED BY <2>2, <5>1
      <4>2. CASE ~(i <= k)
        <5>1. i + 1 \in k + 2 .. n + 1 /\ i + 1 \in 1 .. n + 1 /\ (i + 1) - 1 = i
          BY <2>3, <4>2
        <5> QED BY <2>2, <5>1
      <4> QED BY <4>1, <4>2
    <3>2. k + 1 \in 1 .. n + 1
      BY <2>3
    <3>3. \A b \in U : (\E o \in 0 .. WINDOW - 1 : win[o] = b) \/ (\E i \in 1 .. n : fall[i] = b)
      BY DEF Arranged, n
    <3> QED BY <2>2, <3>1, <3>2, <3>3
  <2>9. Arranged(bid, U \cup {level}, ids2, base, win, count, new)
    <3>1. win \in [0 .. WINDOW - 1 -> (U \cup {level}) \cup {Null}]
      BY DEF Arranged
    <3> QED BY <1>1, <2>2, <2>6, <2>7, <2>8, <3>1 DEF Arranged
  <2> QED BY <2>9 DEF new, k
<1> QED BY <1>3, <1>4

\* Taking a block out of the window or the fallback.
LEMMA TakenOut ==
    ASSUME NEW bid, NEW U, NEW ids, NEW base, NEW win, NEW count, NEW fall,
           Arranged(bid, U, ids, base, win, count, fall), Null \notin U, \A b \in U : ids[b] \in Int,
           NEW level \in U
    PROVE  /\ InWindow(ids[level], base) =>
                 Arranged(bid, U \ {level}, ids, base, [win EXCEPT ![ids[level] - base] = Null], count - 1, fall)
           /\ ~InWindow(ids[level], base) =>
                 Arranged(bid, U \ {level}, ids, base, win, count, RemoveAt(fall, Below(fall, ids, ids[level]) + 1))
<1> DEFINE id == ids[level]
           n == Len(fall)
<1>1. /\ WINDOW \in Nat /\ base \in Int /\ id \in Int /\ fall \in Seq(U) /\ n \in Nat /\ fall \in [1 .. n -> U]
      /\ \A i \in 1 .. n : fall[i] \in U /\ ids[fall[i]] \in Int
  BY SizeAssumption, LenProperties, ElementOfSeq DEF Arranged
<1>2. /\ win \in [0 .. WINDOW - 1 -> U \cup {Null}]
      /\ \A o \in 0 .. WINDOW - 1 : win[o] # Null => ids[win[o]] = base + o
      /\ \A i, j \in 1 .. n : i < j => ids[fall[i]] < ids[fall[j]]
      /\ \A i \in 1 .. n : Worse(bid, ids[fall[i]], base)
      /\ \A b \in U : (\E o \in 0 .. WINDOW - 1 : win[o] = b) \/ (\E i \in 1 .. n : fall[i] = b)
  BY DEF Arranged
<1>3. /\ InWindow(id, base) => win[id - base] = level
      /\ ~InWindow(id, base) => \E i \in 1 .. n : fall[i] = level
  BY IdsDiffer
<1>4. \A i \in 1 .. n : ~InWindow(ids[fall[i]], base)
  BY <1>1, <1>2 DEF Worse, InWindow
<1>5. \A o \in 0 .. WINDOW - 1 : win[o] # Null => InWindow(ids[win[o]], base)
  <2>1. \A o \in 0 .. WINDOW - 1 : (base + o) - base = o
    BY <1>1
  <2> QED BY <1>2, <2>1 DEF InWindow
<1>6. level # Null
  OBVIOUS
<1> HIDE DEF id, n
<1>7. ASSUME InWindow(id, base)
      PROVE  Arranged(bid, U \ {level}, ids, base, [win EXCEPT ![id - base] = Null], count - 1, fall)
  <2> DEFINE p == id - base
             new == [win EXCEPT ![p] = Null]
             W == {o \in 0 .. WINDOW - 1 : win[o] # Null}
  <2>1. p \in 0 .. WINDOW - 1 /\ base + p = id /\ win[p] = level
    BY <1>1, <1>3, <1>7 DEF InWindow
  <2> HIDE DEF p
  <2>2. new[p] = Null /\ \A o \in 0 .. WINDOW - 1 : o # p => new[o] = win[o]
    BY <1>2, <2>1
  <2>3. ASSUME NEW o \in 0 .. WINDOW - 1, o # p
        PROVE  win[o] # level
    <3>1. win[o] = level => base + o = base + p
      BY <1>2, <1>6, <2>1 DEF id
    <3>2. o \in Int /\ p \in Int
      BY <1>1, <2>1
    <3> QED BY <1>1, <2>3, <3>1, <3>2
  <2>4. new \in [0 .. WINDOW - 1 -> (U \ {level}) \cup {Null}]
    <3>1. \A o \in 0 .. WINDOW - 1 : new[o] \in (U \ {level}) \cup {Null}
      BY <1>2, <2>2, <2>3
    <3>2. new \in [0 .. WINDOW - 1 -> U \cup {Null}]
      BY <1>2
    <3> HIDE DEF new
    <3> QED BY <3>1, <3>2
  <2>5. {o \in 0 .. WINDOW - 1 : new[o] # Null} = W \ {p} /\ p \in W
    <3> HIDE DEF new
    <3> QED BY <1>6, <2>1, <2>2
  <2>6. IsFiniteSet(W)
    <3>1. W \in SUBSET (0 .. WINDOW - 1)
      OBVIOUS
    <3> HIDE DEF W, new
    <3> QED BY <3>1, FewOffsets
  <2>7. count = Cardinality(W)
    BY DEF Arranged
  <2> HIDE DEF W, new
  <2>8. count - 1 = Cardinality({o \in 0 .. WINDOW - 1 : new[o] # Null})
    BY <2>5, <2>6, <2>7, FS_RemoveElement
  <2>9. \A o \in 0 .. WINDOW - 1 : new[o] # Null => ids[new[o]] = base + o
    BY <1>2, <2>2
  <2>10. fall \in Seq(U \ {level})
    <3>1. \A i \in 1 .. n : fall[i] \in U \ {level}
      BY <1>1, <1>4, <1>7 DEF id
    <3>2. fall \in [1 .. n -> U \ {level}]
      BY <1>1, <3>1
    <3> QED BY <1>1, <3>2
  <2>11. ASSUME NEW b \in U \ {level}
         PROVE  (\E o \in 0 .. WINDOW - 1 : new[o] = b) \/ (\E i \in 1 .. n : fall[i] = b)
    <3>1. ASSUME NEW o \in 0 .. WINDOW - 1, win[o] = b
          PROVE  new[o] = b
      BY <2>1, <2>2, <3>1
    <3> QED BY <1>2, <3>1
  <2>12. Arranged(bid, U \ {level}, ids, base, new, count - 1, fall)
    BY <1>1, <1>2, <2>4, <2>8, <2>9, <2>10, <2>11 DEF Arranged, n
  <2> QED BY <2>12 DEF new, p
<1>8. ASSUME ~InWindow(id, base)
      PROVE  Arranged(bid, U \ {level}, ids, base, win, count, RemoveAt(fall, Below(fall, ids, id) + 1))
  <2> DEFINE k == Below(fall, ids, id)
             new == RemoveAt(fall, k + 1)
  <2>1. Splits(k, fall, ids, id)
    BY <1>1, <1>2, LowerBound DEF n
  <2> HIDE DEF k
  <2>2. k \in Nat /\ \A i \in 1 .. n : ids[fall[i]] < id <=> i <= k
    BY <1>1, <2>1 DEF Splits, n
  <2>3. PICK m \in 1 .. n : fall[m] = level
    BY <1>3, <1>8
  <2>4. m = k + 1
    <3>1. ~(m <= k)
      BY <1>1, <2>2, <2>3 DEF id
    <3>2. k + 1 \in 1 .. n /\ (m = k + 1 \/ k + 1 < m)
      BY <1>1, <2>2, <2>3, <3>1
    <3>3. k + 1 < m => ids[fall[k + 1]] < id
      BY <1>2, <2>3, <3>2 DEF id
    <3>4. ~(k + 1 <= k)
      BY <2>2
    <3> QED BY <2>2, <3>2, <3>3, <3>4
  <2>5. new \in Seq(U) /\ IsRemoved(new, fall, k + 1)
    BY <1>1, <2>3, <2>4, Removed DEF n
  <2> HIDE DEF new
  <2>6. /\ Len(new) = n - 1
        /\ \A i \in 1 .. k : new[i] = fall[i]
        /\ \A i \in k + 1 .. n - 1 : new[i] = fall[i + 1]
    <3>1. (k + 1) - 1 = k
      BY <2>2
    <3> QED BY <2>5, <3>1 DEF IsRemoved, n
  <2>7. \A i \in 1 .. n - 1 : (i \in 1 .. k /\ i \in 1 .. n) \/ (i \in k + 1 .. n - 1 /\ i + 1 \in 1 .. n)
    BY <1>1, <2>2
  <2>8. ASSUME NEW i \in 1 .. n, i # k + 1
        PROVE  fall[i] # level
    <3>1. k + 1 \in 1 .. n /\ (i < k + 1 \/ k + 1 < i)
      BY <1>1, <2>2, <2>3, <2>4, <2>8
    <3>2. ids[fall[i]] < id \/ id < ids[fall[i]]
      BY <1>2, <2>3, <2>4, <3>1 DEF id
    <3> QED BY <1>1, <3>2 DEF id
  <2>9. ASSUME NEW i \in 1 .. n - 1
        PROVE  new[i] \in U \ {level} /\ Worse(bid, ids[new[i]], base)
    <3>1. CASE i \in 1 .. k /\ i \in 1 .. n
      <4>1. i # k + 1
        BY <2>2, <3>1
      <4> QED BY <1>1, <1>2, <2>6, <2>8, <3>1, <4>1
    <3>2. CASE i \in k + 1 .. n - 1 /\ i + 1 \in 1 .. n
      <4>1. i + 1 # k + 1
        BY <1>1, <2>2, <3>2
      <4> QED BY <1>1, <1>2, <2>6, <2>8, <3>2, <4>1
    <3> QED BY <2>7, <3>1, <3>2
  <2>10. ASSUME NEW i \in 1 .. n - 1, NEW j \in 1 .. n - 1, i < j
         PROVE  ids[new[i]] < ids[new[j]]
    <3>1. CASE i \in 1 .. k /\ i \in 1 .. n /\ j \in 1 .. k /\ j \in 1 .. n
      BY <1>2, <2>6, <2>10, <3>1
    <3>2. CASE i \in 1 .. k /\ i \in 1 .. n /\ j \in k + 1 .. n - 1 /\ j + 1 \in 1 .. n
      <4>1. i < j + 1
        BY <1>1, <2>10
      <4> QED BY <1>2, <2>6, <3>2, <4>1
    <3>3. CASE i \in k + 1 .. n - 1 /\ i + 1 \in 1 .. n /\ j \in k + 1 .. n - 1 /\ j + 1 \in 1 .. n
      <4>1. i + 1 < j + 1
        BY <1>1, <2>10
      <4> QED BY <1>2, <2>6, <3>3, <4>1
    <3> QED BY <1>1, <2>2, <2>7, <2>10, <3>1, <3>2, <3>3
  <2>11. new \in Seq(U \ {level})
    <3>1. n - 1 \in Nat /\ new \in [1 .. n - 1 -> U]
      BY <1>1, <2>3, <2>5, <2>6, LenProperties
    <3>2. new \in [1 .. n - 1 -> U \ {level}]
      BY <2>9, <3>1
    <3> QED BY <3>1, <3>2
  <2>12. ASSUME NEW b \in U \ {level}
         PROVE  (\E o \in 0 .. WINDOW - 1 : win[o] = b) \/ (\E i \in 1 .. n - 1 : new[i] = b)
    <3>1. ASSUME NEW i \in 1 .. n, fall[i] = b
          PROVE  \E j \in 1 .. n - 1 : new[j] = b
      <4>1. i # k + 1
        BY <2>3, <2>4, <3>1
      <4>2. CASE i < k + 1
        <5>1. i \in 1 .. k /\ i \in 1 .. n - 1
          BY <1>1, <2>2, <2>3, <2>4, <4>2
        <5> QED BY <2>6, <3>1, <5>1
      <4>3. CASE k + 1 < i
        <5>1. i - 1 \in k + 1 .. n - 1 /\ i - 1 \in 1 .. n - 1 /\ (i - 1) + 1 = i
          BY <1>1, <2>2, <4>3
        <5> QED BY <2>6, <3>1, <5>1
      <4> QED BY <1>1, <2>2, <4>1, <4>2, <4>3
    <3> QED BY <1>2, <3>1
  <2>13. win \in [0 .. WINDOW - 1 -> (U \ {level}) \cup {Null}]
    <3>1. \A o \in 0 .. WINDOW - 1 : win[o] \in (U \ {level}) \cup {Null}
      BY <1>2, <1>5, <1>8 DEF id
    <3> QED BY <1>2, <3>1
  <2>14. Arranged(bid, U \ {level}, ids, base, win, count, new)
    <3>1. count = Cardinality({o \in 0 .. WINDOW - 1 : win[o] # Null})
      BY DEF Arranged
    <3> QED BY <1>1, <1>2, <2>6, <2>9, <2>10, <2>11, <2>12, <2>13, <3>1 DEF Arranged
  <2> QED BY <2>14 DEF new, k
<1> QED BY <1>7, <1>8 DEF id

-----------------------------------------------------------------------------
(* Blocks are acquired and released *)

\* What the invariant says of the blocks in use.
LEMMA UsedFacts ==
    ASSUME BlocksInv
    PROVE  /\ Used \subseteq Blocks /\ IsFiniteSet(Used) /\ Null \notin Used /\ Null \notin Blocks
           /\ \A b \in Used : blockId[b] \in Int
           /\ Placed = Used
<1>1. Used \subseteq Blocks /\ Null \notin Blocks
  BY SizeAssumption DEF Used, Blocks, Null
<1>2. MAX_BLOCKS - 1 \in Int
  BY SizeAssumption
<1>3. IsFiniteSet(Blocks)
  BY <1>2, FS_Interval DEF Blocks
<1>4. IsFiniteSet(Used)
  BY <1>1, <1>3, FS_Subset
<1>5. \A b \in Used : blockId[b] \in Int
  BY DEF BlocksInv
<1>6. /\ window \in [0 .. WINDOW - 1 -> Used \cup {Null}] /\ fallback \in Seq(Used)
      /\ \A b \in Used : (\E o \in 0 .. WINDOW - 1 : window[o] = b) \/ (\E i \in 1 .. Len(fallback) : fallback[i] = b)
  BY DEF BlocksInv, Arranged
<1>7. DOMAIN fallback = 1 .. Len(fallback) /\ \A i \in 1 .. Len(fallback) : fallback[i] \in Used
  BY <1>6, LenProperties, ElementOfSeq
<1>8. Placed = Used
  BY <1>1, <1>6, <1>7, Zenon DEF Placed, Range
<1> QED BY <1>1, <1>4, <1>5, <1>8

\* recentre() arranges the blocks it is given when the centre is the best of them.
LEMMA RecentreArranges ==
    ASSUME isBid \in BOOLEAN, NEW U, IsFiniteSet(U), Null \notin U,
           NEW ids, \A b \in U : ids[b] \in Int, \A b, c \in U : ids[b] = ids[c] => b = c,
           NEW centre \in Int, \A b \in U : IF isBid THEN ids[b] <= centre ELSE centre <= ids[b],
           recentre(U, ids, centre)
    PROVE  centred' = TRUE /\ Arranged(isBid, U, ids, windowBase', window', windowBlocks', fallback')
<1> DEFINE base == centre - WINDOW \div 2
           inside == {b \in U : InWindow(ids[b], base)}
           win == [o \in 0 .. WINDOW - 1 |->
                      IF \E b \in inside : ids[b] = base + o
                      THEN CHOOSE b \in inside : ids[b] = base + o ELSE Null]
<1>1. /\ centred' = TRUE /\ windowBase' = base /\ window' = win
      /\ windowBlocks' = Cardinality(inside) /\ fallback' = Ascending(U \ inside, ids)
  BY Zenon DEF recentre
<1>2. base = centre - WINDOW \div 2 /\ inside = {b \in U : InWindow(ids[b], base)}
  OBVIOUS
<1>3. win = [o \in 0 .. WINDOW - 1 |->
                IF \E b \in inside : ids[b] = base + o
                THEN CHOOSE b \in inside : ids[b] = base + o ELSE Null]
  OBVIOUS
<1> HIDE DEF win, inside, base
<1>4. Arranged(isBid, U, ids, base, win, Cardinality(inside), Ascending(U \ inside, ids))
  BY <1>2, <1>3, Recentred, Zenon
<1> QED BY <1>1, <1>4, Zenon

\* A block for an id that has none.
LEMMA AcquireKeeps ==
    ASSUME BlocksInv, NEW level, level = Last(freeBlocks), freeBlocks # <<>>,
           NEW id \in Int, \A b \in Used : blockId[b] # id,
           acquireBlock(level, id), UNCHANGED isBid
    PROVE  /\ BlocksInv'
           /\ level \in Blocks \ Used /\ Used' = Used \cup {level} /\ blockId' = With(blockId, level, id)
<1>1. /\ freeBlocks' = Front(freeBlocks) /\ blockId' = With(blockId, level, id)
      /\ \/ (~centred \/ beyondBestEdge(id)) /\ recentre(Placed \cup {level}, blockId', id)
         \/ centred /\ ~beyondBestEdge(id) /\ place(level, id)
  BY DEF acquireBlock
<1>2. /\ isBid \in BOOLEAN /\ centred \in BOOLEAN /\ freeBlocks \in Seq(Blocks) /\ IsInjective(freeBlocks)
      /\ blockId \in [Used -> Int] /\ (~centred => Used = {})
      /\ Arranged(isBid, Used, blockId, windowBase, window, windowBlocks, fallback)
  BY DEF BlocksInv
<1>3. /\ Used \subseteq Blocks /\ IsFiniteSet(Used) /\ Null \notin Used /\ Null \notin Blocks /\ Placed = Used
      /\ \A b \in Used : blockId[b] \in Int
  BY UsedFacts
<1>4. /\ level \in Blocks /\ level \in Range(freeBlocks) /\ Front(freeBlocks) \in Seq(Blocks)
      /\ IsInjective(Front(freeBlocks)) /\ Range(Front(freeBlocks)) = Range(freeBlocks) \ {level}
  BY <1>2, Popped
<1>5. level \in Blocks \ Used /\ level # Null
  BY <1>3, <1>4 DEF Used
<1>6. Used' = Used \cup {level}
  BY <1>1, <1>4 DEF Used, Blocks
<1>7. /\ blockId' \in [Used \cup {level} -> Int] /\ blockId'[level] = id
      /\ \A b \in Used : blockId'[b] = blockId[b]
  BY <1>1, <1>2, <1>5 DEF With
<1>8. /\ \A b, c \in Used : blockId[b] = blockId[c] => b = c
      /\ \A b \in Used : ~InWindow(blockId[b], windowBase) => Worse(isBid, blockId[b], windowBase)
  BY <1>2, <1>3, IdsDiffer
<1>9. WINDOW \in Nat /\ windowBase \in Int
  BY <1>2, SizeAssumption DEF Arranged
<1>10. centred' \in BOOLEAN /\ (~centred' => Used' = {})
       /\ Arranged(isBid, Used \cup {level}, blockId', windowBase', window', windowBlocks', fallback')
  <2>1. CASE (~centred \/ beyondBestEdge(id)) /\ recentre(Placed \cup {level}, blockId', id)
    <3> DEFINE U == Used \cup {level}
               ids == blockId'
    <3>1. IsFiniteSet(U) /\ Null \notin U
      BY <1>3, <1>5, FS_AddElement
    <3>2. (\A b \in U : ids[b] \in Int) /\ \A b, c \in U : ids[b] = ids[c] => b = c
      BY <1>7, <1>8
    <3>3. ASSUME NEW b \in U
          PROVE  IF isBid THEN ids[b] <= id ELSE id <= ids[b]
      <4>1. CASE b = level
        BY <1>7, <4>1
      <4>2. CASE b \in Used
        <5>1. ids[b] = blockId[b] /\ blockId[b] \in Int /\ beyondBestEdge(id)
          BY <1>2, <1>3, <1>7, <2>1, <4>2
        <5>2. InWindow(blockId[b], windowBase) \/ Worse(isBid, blockId[b], windowBase)
          BY <1>8, <4>2
        <5> HIDE DEF ids
        <5>3. CASE isBid
          BY <1>9, <5>1, <5>2, <5>3 DEF beyondBestEdge, InWindow, Worse
        <5>4. CASE ~isBid
          BY <1>9, <5>1, <5>2, <5>4 DEF beyondBestEdge, InWindow, Worse
        <5> QED BY <5>3, <5>4
      <4> QED BY <4>1, <4>2
    <3>4. recentre(U, ids, id)
      BY <1>3, <2>1, Zenon
    <3> HIDE DEF U, ids
    <3>5. centred' = TRUE /\ Arranged(isBid, U, ids, windowBase', window', windowBlocks', fallback')
      BY <1>2, <3>1, <3>2, <3>3, <3>4, RecentreArranges, Zenon
    <3> QED BY <3>5 DEF U, ids
  <2>2. CASE centred /\ ~beyondBestEdge(id) /\ place(level, id)
    <3>1. windowBase' = windowBase /\ centred' = TRUE
      BY <2>2 DEF place
    <3>2. CASE InWindow(id, windowBase)
      <4>1. /\ window' = [window EXCEPT ![id - windowBase] = level] /\ windowBlocks' = windowBlocks + 1
            /\ fallback' = fallback
        BY <2>2, <3>2 DEF place
      <4>2. Arranged(isBid, Used \cup {level}, blockId', windowBase,
                     [window EXCEPT ![id - windowBase] = level], windowBlocks + 1, fallback)
        BY <1>2, <1>3, <1>5, <1>7, <3>2, PlacedWell
      <4> QED BY <3>1, <4>1, <4>2
    <3>3. CASE ~InWindow(id, windowBase)
      <4>1. /\ window' = window /\ windowBlocks' = windowBlocks
            /\ fallback' = InsertAt(fallback, fallbackFind(id) + 1, level)
        BY <2>2, <3>3 DEF place
      <4>2. fallbackFind(id) = Below(fallback, blockId, id)
        BY Zenon DEF fallbackFind, Below
      <4>3. Worse(isBid, id, windowBase)
        BY <1>9, <2>2, <3>3 DEF beyondBestEdge, InWindow, Worse
      <4>4. Arranged(isBid, Used \cup {level}, blockId', windowBase, window, windowBlocks,
                     InsertAt(fallback, Below(fallback, blockId, id) + 1, level))
        BY <1>2, <1>3, <1>5, <1>7, <4>3, PlacedWell
      <4> QED BY <3>1, <4>1, <4>2, <4>4
    <3> QED BY <3>2, <3>3
  <2> QED BY <1>1, <2>1, <2>2
<1>11. BlocksInv'
  BY <1>1, <1>2, <1>4, <1>6, <1>7, <1>10 DEF BlocksInv
<1> QED BY <1>1, <1>5, <1>6, <1>11

\* A block that became empty.
LEMMA ReleaseKeeps ==
    ASSUME BlocksInv, NEW level \in Used, releaseBlock(level), UNCHANGED isBid
    PROVE  BlocksInv' /\ Used' = Used \ {level} /\ blockId' = Without(blockId, level)
<1> DEFINE id == blockId[level]
           in == InWindow(id, windowBase)
           rest == IF in THEN fallback ELSE RemoveAt(fallback, fallbackFind(id) + 1)
           count == IF in THEN windowBlocks - 1 ELSE windowBlocks
           win == IF in THEN [window EXCEPT ![id - windowBase] = Null] ELSE window
           U == Used \ {level}
           centre == blockId[IF isBid THEN Last(rest) ELSE Head(rest)]
<1>1. /\ freeBlocks' = Append(freeBlocks, level) /\ blockId' = Without(blockId, level)
      /\ \/ count = 0 /\ rest # <<>> /\ recentre(Range(rest), blockId, centre)
         \/ /\ window' = win /\ windowBlocks' = count /\ fallback' = rest
            /\ UNCHANGED <<windowBase, centred>>
  BY Zenon DEF releaseBlock
<1>2. /\ isBid \in BOOLEAN /\ centred \in BOOLEAN /\ freeBlocks \in Seq(Blocks) /\ IsInjective(freeBlocks)
      /\ blockId \in [Used -> Int] /\ (~centred => Used = {})
      /\ Arranged(isBid, Used, blockId, windowBase, window, windowBlocks, fallback)
  BY DEF BlocksInv
<1>3. /\ Used \subseteq Blocks /\ IsFiniteSet(Used) /\ Null \notin Used
      /\ \A b \in Used : blockId[b] \in Int
  BY UsedFacts
<1>4. level \in Blocks /\ level \notin Range(freeBlocks)
  BY DEF Used
<1>5. /\ Append(freeBlocks, level) \in Seq(Blocks) /\ IsInjective(Append(freeBlocks, level))
      /\ Range(Append(freeBlocks, level)) = Range(freeBlocks) \cup {level}
  BY <1>2, <1>4, Pushed
<1>6. Used' = U
  BY <1>1, <1>5 DEF Used, Blocks
<1>7. blockId' \in [U -> Int] /\ \A b \in U : blockId'[b] = blockId[b]
  BY <1>1, <1>2 DEF Without, Restrict
<1>8. \A b, c \in Used : blockId[b] = blockId[c] => b = c
  BY <1>2, <1>3, IdsDiffer
<1>9. Arranged(isBid, U, blockId, windowBase, win, count, rest)
  <2>1. fallbackFind(id) = Below(fallback, blockId, id)
    BY Zenon DEF fallbackFind, Below
  <2>2. /\ in => Arranged(isBid, U, blockId, windowBase, [window EXCEPT ![id - windowBase] = Null],
                          windowBlocks - 1, fallback)
        /\ ~in => Arranged(isBid, U, blockId, windowBase, window, windowBlocks,
                           RemoveAt(fallback, Below(fallback, blockId, id) + 1))
    BY <1>2, <1>3, TakenOut
  <2> QED BY <2>1, <2>2, Zenon
<1> HIDE DEF id, in, rest, count, win, centre
<1>10. centred' \in BOOLEAN /\ (~centred' => U = {})
       /\ Arranged(isBid, U, blockId, windowBase', window', windowBlocks', fallback')
  <2>1. CASE count = 0 /\ rest # <<>> /\ recentre(Range(rest), blockId, centre)
    <3> DEFINE n == Len(rest)
    <3>1. /\ rest \in Seq(U) /\ n \in Nat \ {0} /\ DOMAIN rest = 1 .. n /\ \A i \in 1 .. n : rest[i] \in U
          /\ \A i, j \in 1 .. n : i < j => blockId[rest[i]] < blockId[rest[j]]
      BY <1>9, <2>1, LenProperties, EmptySeq, ElementOfSeq DEF Arranged
    <3>2. \A b \in U : \E i \in 1 .. n : rest[i] = b
      <4> DEFINE W == {o \in 0 .. WINDOW - 1 : win[o] # Null}
      <4>1. W \in SUBSET (0 .. WINDOW - 1)
        OBVIOUS
      <4>2. Cardinality(W) = 0
        BY <1>9, <2>1 DEF Arranged
      <4>3. W = {}
        <5> HIDE DEF W
        <5>1. IsFiniteSet(W)
          BY <4>1, FewOffsets
        <5> QED BY <4>2, <5>1, FS_EmptySet
      <4>4. \A o \in 0 .. WINDOW - 1 : win[o] = Null
        BY <4>3
      <4> QED BY <1>3, <1>9, <4>4 DEF Arranged
    <3>3. Range(rest) = U
      BY <3>1, <3>2 DEF Range
    <3>4. Head(rest) = rest[1] /\ Last(rest) = rest[n] /\ 1 \in 1 .. n /\ n \in 1 .. n
      BY <3>1 DEF Last
    <3> HIDE DEF n
    <3>5. IsFiniteSet(U) /\ Null \notin U
      BY <1>3, FS_RemoveElement
    <3>6. (\A b \in U : blockId[b] \in Int) /\ \A b, c \in U : blockId[b] = blockId[c] => b = c
      BY <1>3, <1>8
    <3> HIDE DEF U
    <3>7. centre \in Int
      BY <3>1, <3>4, <3>6 DEF centre
    <3>8. ASSUME NEW b \in U
          PROVE  IF isBid THEN blockId[b] <= centre ELSE centre <= blockId[b]
      <4>1. PICK i \in 1 .. n : rest[i] = b
        BY <3>2
      <4>2. (i = 1 \/ 1 < i) /\ (i = n \/ i < n)
        BY <3>1
      <4>3. blockId[rest[1]] \in Int /\ blockId[rest[n]] \in Int /\ blockId[b] \in Int
        BY <3>1, <3>4, <3>6
      <4>4. blockId[b] <= blockId[rest[n]] /\ blockId[rest[1]] <= blockId[b]
        BY <3>1, <3>4, <4>1, <4>2, <4>3
      <4> QED BY <3>4, <4>4 DEF centre
    <3>9. centred' = TRUE /\ Arranged(isBid, U, blockId, windowBase', window', windowBlocks', fallback')
      BY <1>2, <2>1, <3>3, <3>5, <3>6, <3>7, <3>8, RecentreArranges, Zenon
    <3> QED BY <3>9
  <2>2. CASE window' = win /\ windowBlocks' = count /\ fallback' = rest /\ UNCHANGED <<windowBase, centred>>
    BY <1>2, <1>9, <2>2
  <2> QED BY <1>1, <2>1, <2>2
<1> HIDE DEF U
<1>11. Arranged(isBid, U, blockId', windowBase', window', windowBlocks', fallback')
  BY <1>7, <1>10, SameIds
<1>12. BlocksInv'
  BY <1>1, <1>2, <1>5, <1>6, <1>7, <1>10, <1>11 DEF BlocksInv
<1> QED BY <1>1, <1>6, <1>12 DEF U

-----------------------------------------------------------------------------
(* Slots are taken and given back *)

\* The slots of a block: a partial function on its offsets.
Partial == UNION {[D -> Slots] : D \in SUBSET (0 .. TICKS - 1)}

LEMMA PartialIs ==
    ASSUME NEW f
    PROVE  f \in Partial <=> DOMAIN f \subseteq 0 .. TICKS - 1 /\ f \in [DOMAIN f -> Slots]
  BY DEF Partial

\* What the invariant says of the slots.
LEMMA SlotsFacts ==
    ASSUME SlotsInv
    PROVE  /\ slots \in [Blocks -> Partial]
           /\ \A b \in Blocks : DOMAIN slots[b] \subseteq 0 .. TICKS - 1 /\ slots[b] \in [DOMAIN slots[b] -> Slots]
           /\ \A b \in Blocks : \A o \in DOMAIN slots[b] :
                 /\ slots[b][o] \in Slots /\ slots[b][o] \notin Range(freeSlots)
                 /\ slots[b][o] \in DOMAIN entries
<1>1. slots \in [Blocks -> Partial]
  BY DEF SlotsInv, Partial
<1>2. ASSUME NEW b \in Blocks
      PROVE  DOMAIN slots[b] \subseteq 0 .. TICKS - 1 /\ slots[b] \in [DOMAIN slots[b] -> Slots]
  <2>1. slots[b] \in Partial
    BY <1>1
  <2> QED BY <2>1, PartialIs
<1>3. ASSUME NEW b \in Blocks, NEW o \in DOMAIN slots[b]
      PROVE  /\ slots[b][o] \in Slots /\ slots[b][o] \notin Range(freeSlots)
             /\ slots[b][o] \in DOMAIN entries
  <2>1. slots[b][o] \in Slots
    BY <1>2
  <2>2. slots[b][o] \notin Range(freeSlots)
    BY <2>1 DEF SlotsInv
  <2> QED BY <2>1, <2>2 DEF SlotsInv
<1> QED BY <1>1, <1>2, <1>3

\* A tick of a block.
LEMMA Numbers ==
    ASSUME NEW price \in Prices
    PROVE  Id(price) \in Nat /\ Offset(price) \in 0 .. TICKS - 1 /\ toTick(price) \in Nat
<1>1. price \in Nat /\ tickSize \in Nat \ {0} /\ TICKS \in Nat \ {0}
  BY SizeAssumption
<1>2. toTick(price) \in Nat
  <2>1. tickSize \div 2 \in Nat
    BY <1>1
  <2>2. price + tickSize \div 2 \in Nat
    BY <1>1, <2>1
  <2> QED BY <1>1, <2>2 DEF toTick
<1>3. Id(price) \in Nat
  BY <1>1, <1>2 DEF Id
<1>4. Offset(price) \in 0 .. TICKS - 1
  BY <1>1, <1>2 DEF Offset
<1> QED BY <1>2, <1>3, <1>4

\* A number has one quotient and one remainder.
LEMMA Division ==
    ASSUME NEW T \in Nat \ {0}, NEW a \in Int, NEW b \in Int, NEW o \in 0 .. T - 1, NEW p \in 0 .. T - 1,
           a * T + o = b * T + p
    PROVE  a = b /\ o = p
<1>1. ASSUME NEW x \in Int, NEW y \in Int, x < y, NEW q \in 0 .. T - 1, NEW r \in 0 .. T - 1
      PROVE  x * T + q < y * T + r
  <2>1. PICK d \in Nat : y = x + 1 + d
    <3>1. y - x - 1 \in Nat /\ y = x + 1 + (y - x - 1)
      BY <1>1
    <3> QED BY <3>1
  <2>2. y * T = x * T + T + d * T
    BY <2>1
  <2>3. d * T \in Nat /\ x * T \in Int /\ y * T \in Int
    BY <2>1
  <2> QED BY <2>2, <2>3
<1>2. ~(a < b) /\ ~(b < a)
  <2>1. a * T + o \in Int
    OBVIOUS
  <2> QED BY <1>1, <2>1
<1>3. a = b
  BY <1>2
<1>4. a * T \in Int /\ a * T + o = a * T + p
  BY <1>3
<1> QED BY <1>3, <1>4

LEMMA Quotient ==
    ASSUME NEW T \in Nat \ {0}, NEW t \in Int
    PROVE  t \div T \in Int /\ t % T \in 0 .. T - 1 /\ t = (t \div T) * T + (t % T)
<1>1. t \div T \in Int
  OBVIOUS
<1>2. t % T \in 0 .. T - 1
  OBVIOUS
<1>3. t = (t \div T) * T + (t % T)
  OBVIOUS
<1> QED BY <1>1, <1>2, <1>3

LEMMA QuotientOf ==
    ASSUME NEW T \in Nat \ {0}, NEW a \in Int, NEW o \in 0 .. T - 1
    PROVE  (a * T + o) \div T = a
<1> DEFINE t == a * T + o
<1>1. t \in Int
  OBVIOUS
<1>2. t = a * T + o
  OBVIOUS
<1> HIDE DEF t
<1>3. t \div T \in Int /\ t % T \in 0 .. T - 1 /\ t = (t \div T) * T + (t % T)
  BY <1>1, Quotient
<1>4. t \div T = a
  <2> DEFINE q == t \div T
             r == t % T
  <2>1. q \in Int /\ r \in 0 .. T - 1 /\ q * T + r = a * T + o
    BY <1>2, <1>3
  <2> HIDE DEF q, r
  <2>2. q = a
    BY <2>1, Division
  <2> QED BY <2>2 DEF q
<1> QED BY <1>4 DEF t

LEMMA TickOfPrice ==
    ASSUME NEW price \in Prices
    PROVE  toTick(price) = Id(price) * TICKS + Offset(price)
<1>1. TICKS \in Nat \ {0} /\ toTick(price) \in Int
  BY SizeAssumption, Numbers
<1> QED BY <1>1, Quotient DEF Id, Offset

\* A level is put into a slot that was free.
AddsSlot(level, price, volume) ==
    /\ DOMAIN slots'[level] = DOMAIN slots[level] \cup {Offset(price)}
    /\ entries'[slots'[level][Offset(price)]] = Entry(price, volume)
    /\ \A b \in Blocks : b # level => slots'[b] = slots[b]
    /\ \A o \in DOMAIN slots[level] : slots'[level][o] = slots[level][o]
    /\ \A s \in DOMAIN entries : entries'[s] = entries[s]

LEMMA AddKeeps ==
    ASSUME SlotsInv, NEW level \in Blocks, NEW price \in Prices, NEW volume \in Volumes \ {0},
           Offset(price) \notin DOMAIN slots[level], freeSlots # <<>>, AddTo(level, price, volume)
    PROVE  SlotsInv' /\ AddsSlot(level, price, volume)
<1> DEFINE off == Offset(price)
           slot == Last(freeSlots)
           entry == Entry(price, volume)
<1>1. /\ freeSlots' = Front(freeSlots)
      /\ slots' = [slots EXCEPT ![level] = With(slots[level], off, slot)]
      /\ entries' = With(entries, slot, entry)
  BY DEF AddTo
<1>2. /\ slots \in [Blocks -> Partial]
      /\ \A b \in Blocks : DOMAIN slots[b] \subseteq 0 .. TICKS - 1 /\ slots[b] \in [DOMAIN slots[b] -> Slots]
      /\ \A b \in Blocks : \A o \in DOMAIN slots[b] : slots[b][o] \in Slots /\ slots[b][o] \notin Range(freeSlots)
  BY SlotsFacts
<1>3. /\ slot \in Slots /\ slot \in Range(freeSlots) /\ freeSlots' \in Seq(Slots) /\ IsInjective(freeSlots')
      /\ Range(freeSlots') = Range(freeSlots) \ {slot}
  BY <1>1, Popped DEF SlotsInv
<1>4. off \in 0 .. TICKS - 1 /\ off \notin DOMAIN slots[level]
  BY Numbers
<1>5. entry \in [price : Prices, volume : Volumes \ {0}]
  BY DEF Entry
<1> HIDE DEF off, slot, entry
<1>6. /\ slots'[level] = With(slots[level], off, slot) /\ DOMAIN slots' = Blocks
      /\ \A b \in Blocks : b # level => slots'[b] = slots[b]
  BY <1>1, <1>2
<1>7. /\ DOMAIN slots'[level] = DOMAIN slots[level] \cup {off} /\ slots'[level][off] = slot
      /\ \A o \in DOMAIN slots[level] : slots'[level][o] = slots[level][o]
      /\ slots'[level] \in [DOMAIN slots[level] \cup {off} -> Slots]
  BY <1>2, <1>3, <1>4, <1>6 DEF With
<1>8. slots' \in [Blocks -> Partial]
  <2>1. slots'[level] \in Partial
    BY <1>2, <1>4, <1>7, PartialIs
  <2>2. \A b \in Blocks : slots'[b] \in Partial
    BY <1>2, <1>6, <2>1
  <2>3. slots' = [b \in Blocks |-> slots'[b]]
    BY <1>1, <1>2
  <2> QED BY <2>2, <2>3
<1>9. ASSUME NEW b \in Blocks, NEW o \in DOMAIN slots'[b]
      PROVE  \/ o \in DOMAIN slots[b] /\ slots'[b][o] = slots[b][o] /\ slots[b][o] # slot
             \/ b = level /\ o = off /\ slots'[b][o] = slot
  BY <1>2, <1>3, <1>6, <1>7
<1>10. ASSUME NEW b \in Blocks, NEW c \in Blocks, NEW o \in DOMAIN slots'[b], NEW p \in DOMAIN slots'[c],
              slots'[b][o] = slots'[c][p]
       PROVE  b = c /\ o = p
  <2>1. \A x, y \in Blocks : \A q \in DOMAIN slots[x], r \in DOMAIN slots[y] :
            slots[x][q] = slots[y][r] => x = y /\ q = r
    BY DEF SlotsInv
  <2> QED BY <1>9, <1>10, <2>1
<1>11. ASSUME NEW s \in Slots
       PROVE  s \in Range(freeSlots') <=> \A b \in Blocks : \A o \in DOMAIN slots'[b] : slots'[b][o] # s
  <2>1. s \in Range(freeSlots) <=> \A b \in Blocks : \A o \in DOMAIN slots[b] : slots[b][o] # s
    BY DEF SlotsInv
  <2>2. CASE s = slot
    <3>1. off \in DOMAIN slots'[level] /\ slots'[level][off] = s
      BY <1>7, <2>2
    <3> QED BY <1>3, <2>2, <3>1
  <2>3. CASE s # slot
    <3>1. s \in Range(freeSlots') <=> s \in Range(freeSlots)
      BY <1>3, <2>3
    <3>2. ASSUME \A b \in Blocks : \A o \in DOMAIN slots[b] : slots[b][o] # s, NEW b \in Blocks, NEW o \in DOMAIN slots'[b]
          PROVE  slots'[b][o] # s
      BY <1>9, <2>3, <3>2
    <3>3. ASSUME \A b \in Blocks : \A o \in DOMAIN slots'[b] : slots'[b][o] # s, NEW b \in Blocks, NEW o \in DOMAIN slots[b]
          PROVE  slots[b][o] # s
      <4>1. o \in DOMAIN slots'[b] /\ slots'[b][o] = slots[b][o]
        BY <1>6, <1>7
      <4> QED BY <3>3, <4>1
    <3> QED BY <2>1, <3>1, <3>2, <3>3
  <2> QED BY <2>2, <2>3
<1>12. /\ entries' \in [Slots \ Range(freeSlots') -> [price : Prices, volume : Volumes \ {0}]]
       /\ entries'[slot] = entry /\ slot \notin DOMAIN entries
       /\ \A s \in DOMAIN entries : entries'[s] = entries[s]
  <2>1. entries \in [Slots \ Range(freeSlots) -> [price : Prices, volume : Volumes \ {0}]]
    BY DEF SlotsInv
  <2>2. DOMAIN entries \cup {slot} = Slots \ Range(freeSlots') /\ slot \notin DOMAIN entries
    BY <1>3, <2>1
  <2> QED BY <1>1, <1>5, <2>1, <2>2 DEF With
<1>13. SlotsInv'
  <2>1. slots' \in [Blocks -> UNION {[D -> Slots] : D \in SUBSET (0 .. TICKS - 1)}]
    BY <1>8 DEF Partial
  <2> QED BY <1>3, <1>10, <1>11, <1>12, <2>1 DEF SlotsInv, Blocks, Slots
<1> QED BY <1>6, <1>7, <1>12, <1>13 DEF off, entry, AddsSlot

\* A level is removed from its block.
DropsSlot(level, off) ==
    /\ slots' = [slots EXCEPT ![level] = Without(@, off)]
    /\ freeSlots' = Append(freeSlots, slots[level][off])
    /\ entries' = Without(entries, slots[level][off])

LEMMA DropKeeps ==
    ASSUME SlotsInv, NEW level \in Blocks, NEW off \in DOMAIN slots[level], DropsSlot(level, off)
    PROVE  /\ SlotsInv'
           /\ slots'[level] = Without(slots[level], off)
           /\ DOMAIN slots'[level] = DOMAIN slots[level] \ {off}
           /\ \A b \in Blocks : b # level => slots'[b] = slots[b]
           /\ \A o \in DOMAIN slots'[level] : slots'[level][o] = slots[level][o]
           /\ \A s \in DOMAIN entries : s # slots[level][off] => entries'[s] = entries[s]
<1> DEFINE slot == slots[level][off]
<1>1. /\ freeSlots' = Append(freeSlots, slot)
      /\ slots' = [slots EXCEPT ![level] = Without(slots[level], off)]
      /\ entries' = Without(entries, slot)
  BY DEF DropsSlot
<1>2. /\ slots \in [Blocks -> Partial]
      /\ \A b \in Blocks : DOMAIN slots[b] \subseteq 0 .. TICKS - 1 /\ slots[b] \in [DOMAIN slots[b] -> Slots]
      /\ \A b \in Blocks : \A o \in DOMAIN slots[b] : slots[b][o] \in Slots /\ slots[b][o] \notin Range(freeSlots)
  BY SlotsFacts
<1>3. slot \in Slots /\ slot \notin Range(freeSlots)
  BY <1>2
<1>4. \A b, c \in Blocks : \A o \in DOMAIN slots[b], p \in DOMAIN slots[c] :
          slots[b][o] = slots[c][p] => b = c /\ o = p
  BY DEF SlotsInv
<1>5. \A b \in Blocks : \A o \in DOMAIN slots[b] : slots[b][o] = slot => b = level /\ o = off
  BY <1>4
<1> HIDE DEF slot
<1>6. /\ freeSlots' \in Seq(Slots) /\ IsInjective(freeSlots')
      /\ Range(freeSlots') = Range(freeSlots) \cup {slot}
  BY <1>1, <1>3, Pushed DEF SlotsInv
<1>7. /\ slots'[level] = Without(slots[level], off) /\ DOMAIN slots' = Blocks
      /\ \A b \in Blocks : b # level => slots'[b] = slots[b]
  BY <1>1, <1>2
<1>8. /\ DOMAIN slots'[level] = DOMAIN slots[level] \ {off}
      /\ \A o \in DOMAIN slots'[level] : slots'[level][o] = slots[level][o]
      /\ slots'[level] \in [DOMAIN slots[level] \ {off} -> Slots]
  BY <1>2, <1>7 DEF Without, Restrict
<1>9. slots' \in [Blocks -> Partial]
  <2>1. slots'[level] \in Partial
    BY <1>2, <1>8, PartialIs
  <2>2. \A b \in Blocks : slots'[b] \in Partial
    BY <1>2, <1>7, <2>1
  <2>3. slots' = [b \in Blocks |-> slots'[b]]
    BY <1>1, <1>2
  <2> QED BY <2>2, <2>3
<1>10. ASSUME NEW b \in Blocks
       PROVE  /\ \A o \in DOMAIN slots'[b] : o \in DOMAIN slots[b] /\ slots'[b][o] = slots[b][o] /\ slots[b][o] # slot
              /\ \A o \in DOMAIN slots[b] : slots[b][o] # slot => o \in DOMAIN slots'[b] /\ slots'[b][o] = slots[b][o]
  <2>1. CASE b = level
    BY <1>5, <1>8, <2>1 DEF slot
  <2>2. CASE b # level
    BY <1>5, <1>7, <2>2
  <2> QED BY <2>1, <2>2
<1>11. ASSUME NEW b \in Blocks, NEW c \in Blocks, NEW o \in DOMAIN slots'[b], NEW p \in DOMAIN slots'[c],
              slots'[b][o] = slots'[c][p]
       PROVE  b = c /\ o = p
  BY <1>4, <1>10, <1>11
<1>12. ASSUME NEW s \in Slots
       PROVE  s \in Range(freeSlots') <=> \A b \in Blocks : \A o \in DOMAIN slots'[b] : slots'[b][o] # s
  <2>1. s \in Range(freeSlots) <=> \A b \in Blocks : \A o \in DOMAIN slots[b] : slots[b][o] # s
    BY DEF SlotsInv
  <2>2. CASE s = slot
    BY <1>6, <1>10, <2>2
  <2>3. CASE s # slot
    BY <1>6, <1>10, <2>1, <2>3
  <2> QED BY <2>2, <2>3
<1>13. /\ entries' \in [Slots \ Range(freeSlots') -> [price : Prices, volume : Volumes \ {0}]]
       /\ \A s \in DOMAIN entries : s # slot => entries'[s] = entries[s]
  <2>1. entries \in [Slots \ Range(freeSlots) -> [price : Prices, volume : Volumes \ {0}]]
    BY DEF SlotsInv
  <2>2. DOMAIN entries \ {slot} = Slots \ Range(freeSlots')
    BY <1>6, <2>1
  <2> QED BY <1>1, <2>1, <2>2 DEF Without, Restrict
<1>14. SlotsInv'
  <2>1. slots' \in [Blocks -> UNION {[D -> Slots] : D \in SUBSET (0 .. TICKS - 1)}]
    BY <1>9 DEF Partial
  <2> QED BY <1>6, <1>11, <1>12, <1>13, <2>1 DEF SlotsInv, Blocks, Slots
<1> QED BY <1>7, <1>8, <1>13, <1>14 DEF slot

-----------------------------------------------------------------------------
(* The invariant is inductive *)

\* A stack of all the numbers below n.
LEMMA FullStack ==
    ASSUME NEW n \in Nat, NEW s, s = [i \in 1 .. n |-> n - i]
    PROVE  s \in Seq(0 .. n - 1) /\ IsInjective(s) /\ Range(s) = 0 .. n - 1
<1>1. \A i \in 1 .. n : n - i \in 0 .. n - 1
  OBVIOUS
<1>2. s \in [1 .. n -> 0 .. n - 1] /\ DOMAIN s = 1 .. n /\ \A i \in 1 .. n : s[i] = n - i
  BY <1>1
<1>3. s \in Seq(0 .. n - 1)
  BY <1>2
<1>4. \A i, j \in 1 .. n : n - i = n - j => i = j
  OBVIOUS
<1>5. IsInjective(s)
  BY <1>2, <1>4 DEF IsInjective
<1>6. ASSUME NEW b \in 0 .. n - 1
      PROVE  \E i \in 1 .. n : s[i] = b
  <2>1. n - b \in 1 .. n /\ n - (n - b) = b
    OBVIOUS
  <2>2. s[n - b] = b
    BY <1>2, <2>1
  <2> QED BY <2>1, <2>2
<1>7. Range(s) = 0 .. n - 1
  BY <1>2, <1>6 DEF Range
<1> QED BY <1>3, <1>5, <1>7

\* An empty side: everything is free.
Emptied(bid, base, win, count, fall, cent, ids, sl, fb, ent, fs) ==
    /\ cent = FALSE /\ ids \in [{} -> Int]
    /\ fb \in Seq(Blocks) /\ IsInjective(fb) /\ Range(fb) = Blocks
    /\ Arranged(bid, {}, ids, base, win, count, fall)
    /\ sl \in [Blocks -> Partial] /\ \A b \in Blocks : DOMAIN sl[b] = {}
    /\ fs \in Seq(Slots) /\ IsInjective(fs) /\ Range(fs) = Slots
    /\ ent \in [{} -> [price : Prices, volume : Volumes \ {0}]]

LEMMA ClearedIs ==
    ASSUME NEW win, NEW count, NEW fall, NEW cent, NEW ids, NEW sl, NEW fb, NEW ent, NEW fs,
           Cleared(win, count, fall, cent, ids, sl, fb, ent, fs), NEW bid, NEW base \in Int
    PROVE  Emptied(bid, base, win, count, fall, cent, ids, sl, fb, ent, fs)
<1>1. MAX_BLOCKS \in Nat /\ MAX_LEVELS \in Nat /\ WINDOW \in Nat
  BY SizeAssumption
<1>2. /\ fb = [i \in 1 .. MAX_BLOCKS |-> MAX_BLOCKS - i] /\ fs = [i \in 1 .. MAX_LEVELS |-> MAX_LEVELS - i]
      /\ cent = FALSE /\ ids = <<>> /\ ent = <<>> /\ fall = <<>> /\ count = 0
      /\ win = [o \in 0 .. WINDOW - 1 |-> Null] /\ sl = [b \in Blocks |-> <<>>]
  BY DEF Cleared
<1>3. fb \in Seq(Blocks) /\ IsInjective(fb) /\ Range(fb) = Blocks
  BY <1>1, <1>2, FullStack DEF Blocks
<1>4. fs \in Seq(Slots) /\ IsInjective(fs) /\ Range(fs) = Slots
  BY <1>1, <1>2, FullStack DEF Slots
<1>5. DOMAIN <<>> = {} /\ \A T : <<>> \in [{} -> T]
  OBVIOUS
<1>6. <<>> \in Partial
  BY <1>5 DEF Partial
<1>7. sl \in [Blocks -> Partial] /\ \A b \in Blocks : DOMAIN sl[b] = {}
  BY <1>2, <1>5, <1>6
<1>8. Arranged(bid, {}, ids, base, win, count, fall)
  <2>1. {o \in 0 .. WINDOW - 1 : win[o] # Null} = {}
    BY <1>2
  <2>2. count = Cardinality({o \in 0 .. WINDOW - 1 : win[o] # Null})
    BY <1>2, <2>1, FS_EmptySet
  <2>3. fall \in Seq({}) /\ Len(fall) = 0
    BY <1>2
  <2>4. win \in [0 .. WINDOW - 1 -> {} \cup {Null}] /\ \A o \in 0 .. WINDOW - 1 : win[o] = Null
    BY <1>2
  <2> QED BY <2>2, <2>3, <2>4 DEF Arranged
<1> QED BY <1>2, <1>3, <1>4, <1>5, <1>7, <1>8 DEF Emptied

LEMMA InitLayout == Init => LayoutInv
<1> SUFFICES ASSUME Init
             PROVE  LayoutInv
  OBVIOUS
<1>1. /\ Cleared(window, windowBlocks, fallback, centred, blockId, slots, freeBlocks, entries, freeSlots)
      /\ isBid \in BOOLEAN /\ windowBase \in Int /\ accepted \in BOOLEAN
  BY DEF Init
<1>2. /\ centred = FALSE /\ blockId \in [{} -> Int]
      /\ freeBlocks \in Seq(Blocks) /\ IsInjective(freeBlocks) /\ Range(freeBlocks) = Blocks
      /\ Arranged(isBid, {}, blockId, windowBase, window, windowBlocks, fallback)
      /\ slots \in [Blocks -> Partial] /\ \A b \in Blocks : DOMAIN slots[b] = {}
      /\ freeSlots \in Seq(Slots) /\ IsInjective(freeSlots) /\ Range(freeSlots) = Slots
      /\ entries \in [{} -> [price : Prices, volume : Volumes \ {0}]]
  <2>1. Emptied(isBid, windowBase, window, windowBlocks, fallback, centred,
                blockId, slots, freeBlocks, entries, freeSlots)
    BY <1>1, ClearedIs
  <2> QED BY <2>1 DEF Emptied
<1>3. Used = {}
  BY <1>2 DEF Used
<1>4. BlocksInv
  BY <1>1, <1>2, <1>3 DEF BlocksInv
<1>5. Slots \ Range(freeSlots) = {}
  BY <1>2
<1>6. SlotsInv
  BY <1>2, <1>5 DEF SlotsInv, Partial
<1> QED BY <1>1, <1>2, <1>3, <1>4, <1>6 DEF LayoutInv

LEMMA ClearKeeps == LayoutInv /\ clear => LayoutInv'
<1> SUFFICES ASSUME LayoutInv, clear
             PROVE  LayoutInv'
  OBVIOUS
<1>1. /\ Cleared(window', windowBlocks', fallback', centred', blockId', slots', freeBlocks', entries', freeSlots')
      /\ isBid' \in BOOLEAN /\ windowBase' \in Int /\ accepted' \in BOOLEAN
  BY DEF clear, LayoutInv, BlocksInv, Arranged
<1>2. /\ centred' = FALSE /\ blockId' \in [{} -> Int]
      /\ freeBlocks' \in Seq(Blocks) /\ IsInjective(freeBlocks') /\ Range(freeBlocks') = Blocks
      /\ Arranged(isBid', {}, blockId', windowBase', window', windowBlocks', fallback')
      /\ slots' \in [Blocks -> Partial] /\ \A b \in Blocks : DOMAIN slots'[b] = {}
      /\ freeSlots' \in Seq(Slots) /\ IsInjective(freeSlots') /\ Range(freeSlots') = Slots
      /\ entries' \in [{} -> [price : Prices, volume : Volumes \ {0}]]
  <2>1. Emptied(isBid', windowBase', window', windowBlocks', fallback', centred',
                blockId', slots', freeBlocks', entries', freeSlots')
    BY <1>1, ClearedIs
  <2> QED BY <2>1 DEF Emptied
<1>3. Used' = {}
  BY <1>2 DEF Used, Blocks
<1>4. BlocksInv'
  BY <1>1, <1>2, <1>3 DEF BlocksInv, Blocks
<1>5. Slots \ Range(freeSlots') = {}
  BY <1>2
<1>6. SlotsInv'
  BY <1>2, <1>5 DEF SlotsInv, Partial, Slots, Blocks
<1> QED BY <1>1, <1>2, <1>3, <1>4, <1>6 DEF LayoutInv, Blocks

\* A block is empty exactly when it has no offsets.
LEMMA EmptyIs ==
    ASSUME NEW f \in Partial
    PROVE  f = <<>> <=> DOMAIN f = {}
<1>1. f \in [DOMAIN f -> Slots]
  BY PartialIs
<1>2. DOMAIN <<>> = {}
  OBVIOUS
<1>3. ASSUME DOMAIN f = {}
      PROVE  f = <<>>
  <2>1. f \in [{} -> Slots]
    BY <1>1, <1>3
  <2>2. <<>> \in [{} -> Slots]
    OBVIOUS
  <2> QED BY <2>1, <2>2
<1> QED BY <1>2, <1>3

\* There is a level at an offset of a block.
Has(b, o) == b \in Used /\ o \in DOMAIN slots[b]

\* The tick of an offset of a block.
TickAt(b, o) == blockId[b] * TICKS + o

\* What the steps do to the levels: all others stay as they are.
Stays(b, o) == blockId'[b] = blockId[b] /\ entries'[slots'[b][o]] = entries[slots[b][o]]

Removes(level, off) ==
    /\ \A b, o : Has(b, o)' <=> Has(b, o) /\ ~(b = level /\ o = off)
    /\ \A b, o : Has(b, o)' => Stays(b, o)
Sets(level, off, entry) ==
    /\ blockId' = blockId /\ \A b, o : Has(b, o)' <=> Has(b, o)
    /\ \A b, o : Has(b, o) /\ ~(b = level /\ o = off) => Stays(b, o)
    /\ entries'[slots'[level][off]] = entry
Adds(level, off, tick, entry) ==
    /\ \A b, o : Has(b, o)' <=> Has(b, o) \/ (b = level /\ o = off)
    /\ \A b, o : Has(b, o) => Stays(b, o)
    /\ blockId'[level] * TICKS + off = tick /\ entries'[slots'[level][off]] = entry

LEMMA UsedInBlocks == Used \subseteq Blocks
  BY DEF Used

\* What update() knows of its level.
LEMMA LevelFacts ==
    ASSUME LayoutInv, NEW price \in Prices
    PROVE  /\ findBlock(Id(price)) \in Used \cup {Null} /\ Null \notin Used /\ Used \subseteq Blocks
           /\ findBlock(Id(price)) # Null => blockId[findBlock(Id(price))] = Id(price)
           /\ findBlock(Id(price)) = Null => \A b \in Used : blockId[b] # Id(price)
           /\ Exists(price) => findBlock(Id(price)) \in Used /\ Offset(price) \in DOMAIN slots[findBlock(Id(price))]
           /\ ~Exists(price) /\ findBlock(Id(price)) # Null => Offset(price) \notin DOMAIN slots[findBlock(Id(price))]
<1>1. BlocksInv
  BY DEF LayoutInv
<1>2. Id(price) \in Int
  BY Numbers
<1>3. Null \notin Used /\ Used \subseteq Blocks
  BY <1>1, UsedFacts
<1>4. /\ findBlock(Id(price)) \in Used \cup {Null}
      /\ findBlock(Id(price)) # Null => blockId[findBlock(Id(price))] = Id(price)
      /\ findBlock(Id(price)) = Null => \A b \in Used : blockId[b] # Id(price)
  BY <1>1, <1>2, FindBlock
<1> QED BY <1>3, <1>4 DEF Exists

LEMMA RemoveKeeps ==
    ASSUME LayoutInv, NEW price \in Prices, RemoveLevel(price)
    PROVE  LayoutInv' /\ Removes(findBlock(Id(price)), Offset(price))
<1> DEFINE level == findBlock(Id(price))
           off == Offset(price)
<1>1. /\ Exists(price) /\ DropsSlot(level, off) /\ accepted' = TRUE /\ UNCHANGED isBid
      /\ \/ slots'[level] = <<>> /\ releaseBlock(level)
         \/ slots'[level] # <<>> /\ UNCHANGED <<place_, blockId, freeBlocks>>
  BY Zenon DEF RemoveLevel, DropsSlot
<1>2. level \in Used /\ level \in Blocks /\ off \in DOMAIN slots[level] /\ Used \subseteq Blocks
  BY <1>1, LevelFacts
<1>3. BlocksInv /\ SlotsInv /\ \A b \in Blocks : b \in Used <=> DOMAIN slots[b] # {}
  BY DEF LayoutInv
<1> HIDE DEF level, off
<1>4. /\ SlotsInv' /\ DOMAIN slots'[level] = DOMAIN slots[level] \ {off}
      /\ \A b \in Blocks : b # level => slots'[b] = slots[b]
      /\ \A o \in DOMAIN slots'[level] : slots'[level][o] = slots[level][o]
      /\ \A s \in DOMAIN entries : s # slots[level][off] => entries'[s] = entries[s]
  BY <1>1, <1>2, <1>3, DropKeeps
<1>5. slots'[level] = <<>> <=> DOMAIN slots'[level] = {}
  <2>1. slots' \in [Blocks -> Partial]
    BY <1>4 DEF SlotsInv, Partial, Blocks, Slots
  <2> QED BY <1>2, <2>1, EmptyIs
<1>6. ASSUME NEW b \in Blocks, NEW o \in DOMAIN slots'[b]
      PROVE  o \in DOMAIN slots[b] /\ entries'[slots'[b][o]] = entries[slots[b][o]]
  <2>1. o \in DOMAIN slots[b] /\ slots'[b][o] = slots[b][o] /\ ~(b = level /\ o = off)
    BY <1>2, <1>4
  <2>2. slots[b][o] # slots[level][off]
    BY <1>2, <1>3, <2>1 DEF SlotsInv
  <2>3. slots[b][o] \in DOMAIN entries
    BY <1>3, <2>1, SlotsFacts
  <2> QED BY <1>4, <2>1, <2>2, <2>3
<1>7. CASE slots'[level] = <<>> /\ releaseBlock(level)
  <2>1. BlocksInv' /\ Used' = Used \ {level} /\ blockId' = Without(blockId, level)
    BY <1>1, <1>2, <1>3, <1>7, ReleaseKeeps
  <2>2. \A b \in Blocks : b \in Used' <=> DOMAIN slots'[b] # {}
    BY <1>2, <1>3, <1>4, <1>5, <1>7, <2>1
  <2>3. \A b \in Used' : blockId'[b] = blockId[b]
    <3>1. blockId \in [Used -> Int]
      BY <1>3 DEF BlocksInv
    <3> QED BY <2>1, <3>1 DEF Without, Restrict
  <2>4. DOMAIN slots[level] = {off}
    BY <1>2, <1>4, <1>5, <1>7
  <2>5. ASSUME NEW b, NEW o
        PROVE  Has(b, o)' <=> Has(b, o) /\ ~(b = level /\ o = off)
    BY <1>2, <1>4, <2>1, <2>4 DEF Has
  <2>6. ASSUME NEW b, NEW o, Has(b, o)'
        PROVE  Stays(b, o)
    BY <1>2, <1>6, <2>1, <2>3, <2>6 DEF Has, Stays
  <2> QED BY <1>1, <1>4, <2>1, <2>2, <2>5, <2>6 DEF LayoutInv, Blocks, Removes, level, off
<1>8. CASE slots'[level] # <<>> /\ UNCHANGED <<place_, blockId, freeBlocks>>
  <2>1. Used' = Used
    BY <1>8 DEF Used, Blocks
  <2>2. BlocksInv'
    BY <1>1, <1>3, <1>8, <2>1 DEF BlocksInv, place_, Blocks
  <2>3. \A b \in Blocks : b \in Used' <=> DOMAIN slots'[b] # {}
    BY <1>2, <1>3, <1>4, <1>5, <1>8, <2>1
  <2>4. ASSUME NEW b, NEW o
        PROVE  Has(b, o)' <=> Has(b, o) /\ ~(b = level /\ o = off)
    BY <1>2, <1>4, <2>1 DEF Has
  <2>5. ASSUME NEW b, NEW o, Has(b, o)'
        PROVE  Stays(b, o)
    BY <1>2, <1>6, <1>8, <2>1, <2>5 DEF Has, Stays
  <2> QED BY <1>1, <1>4, <2>2, <2>3, <2>4, <2>5 DEF LayoutInv, Blocks, Removes, level, off
<1> QED BY <1>1, <1>7, <1>8

LEMMA SetKeeps ==
    ASSUME LayoutInv, NEW price \in Prices, NEW volume \in Volumes \ {0}, SetLevel(price, volume)
    PROVE  LayoutInv' /\ Sets(findBlock(Id(price)), Offset(price), Entry(price, volume))
<1> DEFINE level == findBlock(Id(price))
           off == Offset(price)
           slot == slots[level][off]
<1>1. /\ Exists(price) /\ entries' = [entries EXCEPT ![slot] = Entry(price, volume)] /\ accepted' = TRUE
      /\ UNCHANGED <<isBid, place_, blockId, freeBlocks, slots, freeSlots>>
  BY DEF SetLevel
<1>2. BlocksInv /\ SlotsInv /\ \A b \in Blocks : b \in Used <=> DOMAIN slots[b] # {}
  BY DEF LayoutInv
<1>3. Entry(price, volume) \in [price : Prices, volume : Volumes \ {0}]
  BY DEF Entry
<1>8. level \in Used /\ off \in DOMAIN slots[level] /\ Used \subseteq Blocks
  BY <1>1, LevelFacts
<1>9. slot \in DOMAIN entries
  BY <1>2, <1>8, SlotsFacts
<1> HIDE DEF slot, level, off
<1>4. entries' \in [Slots \ Range(freeSlots) -> [price : Prices, volume : Volumes \ {0}]]
  BY <1>1, <1>2, <1>3 DEF SlotsInv
<1>5. SlotsInv'
  BY <1>1, <1>2, <1>4 DEF SlotsInv, Slots, Blocks
<1>6. Used' = Used
  BY <1>1 DEF Used, Blocks
<1>7. BlocksInv'
  BY <1>1, <1>2, <1>6 DEF BlocksInv, place_, Blocks
<1>10. ASSUME NEW b, NEW o
       PROVE  Has(b, o)' <=> Has(b, o)
  BY <1>1, <1>6 DEF Has
<1>11. ASSUME NEW b, NEW o, Has(b, o), ~(b = level /\ o = off)
       PROVE  Stays(b, o)
  <2>1. b \in Blocks /\ level \in Blocks /\ o \in DOMAIN slots[b]
    BY <1>8, <1>11 DEF Has
  <2>2. slots[b][o] # slot
    BY <1>2, <1>8, <1>11, <2>1 DEF SlotsInv, slot
  <2>3. slots[b][o] \in DOMAIN entries
    BY <1>2, <2>1, SlotsFacts
  <2>4. entries'[slots[b][o]] = entries[slots[b][o]]
    BY <1>1, <2>2, <2>3
  <2> QED BY <1>1, <2>4 DEF Stays
<1>12. entries'[slots'[level][off]] = Entry(price, volume)
  BY <1>1, <1>9 DEF slot
<1> QED BY <1>1, <1>2, <1>5, <1>6, <1>7, <1>10, <1>11, <1>12 DEF LayoutInv, Blocks, Sets, level, off

LEMMA AddLevelKeeps ==
    ASSUME LayoutInv, NEW price \in Prices, NEW volume \in Volumes \ {0}, AddLevel(price, volume)
    PROVE  LayoutInv' /\ Adds(findBlock(Id(price)), Offset(price), toTick(price), Entry(price, volume))
<1> DEFINE level == findBlock(Id(price))
<1>1. /\ ~Exists(price) /\ freeSlots # <<>> /\ level # Null /\ AddTo(level, price, volume)
      /\ UNCHANGED <<isBid, place_, blockId, freeBlocks>> /\ accepted' = TRUE
  BY DEF AddLevel, AddTo
<1>2. level \in Used /\ level \in Blocks /\ Offset(price) \notin DOMAIN slots[level]
  BY <1>1, LevelFacts
<1>3. BlocksInv /\ SlotsInv /\ \A b \in Blocks : b \in Used <=> DOMAIN slots[b] # {}
  BY DEF LayoutInv
<1>9. blockId[level] = Id(price)
  BY <1>1, LevelFacts
<1> HIDE DEF level
<1>4. AddsSlot(level, price, volume) /\ SlotsInv'
  BY <1>1, <1>2, <1>3, AddKeeps
<1>5. Used' = Used
  BY <1>1 DEF Used, Blocks
<1>6. BlocksInv'
  BY <1>1, <1>3, <1>5 DEF BlocksInv, place_, Blocks
<1>7. \A b \in Blocks : b \in Used' <=> DOMAIN slots'[b] # {}
  BY <1>2, <1>3, <1>4, <1>5 DEF AddsSlot
<1>8. Adds(level, Offset(price), toTick(price), Entry(price, volume))
  <2>1. ASSUME NEW b, NEW o
        PROVE  Has(b, o)' <=> Has(b, o) \/ (b = level /\ o = Offset(price))
    BY <1>2, <1>4, <1>5, UsedInBlocks DEF Has, AddsSlot
  <2>2. ASSUME NEW b, NEW o, Has(b, o)
        PROVE  Stays(b, o)
    <3>1. b \in Blocks /\ o \in DOMAIN slots[b]
      BY <2>2, UsedInBlocks DEF Has
    <3>2. slots[b][o] \in DOMAIN entries
      BY <1>3, <3>1, SlotsFacts
    <3>3. slots'[b][o] = slots[b][o]
      BY <1>4, <3>1 DEF AddsSlot
    <3> QED BY <1>1, <1>4, <3>2, <3>3 DEF Stays, AddsSlot
  <2>3. blockId'[level] * TICKS + Offset(price) = toTick(price)
    BY <1>1, <1>9, TickOfPrice
  <2> QED BY <1>4, <2>1, <2>2, <2>3 DEF Adds, AddsSlot
<1> QED BY <1>1, <1>4, <1>6, <1>7, <1>8 DEF LayoutInv, Blocks, level

LEMMA AddBlockKeeps ==
    ASSUME LayoutInv, NEW price \in Prices, NEW volume \in Volumes \ {0}, AddBlock(price, volume)
    PROVE  LayoutInv' /\ Adds(Last(freeBlocks), Offset(price), toTick(price), Entry(price, volume))
<1> DEFINE level == Last(freeBlocks)
<1>1. /\ findBlock(Id(price)) = Null /\ freeSlots # <<>> /\ freeBlocks # <<>> /\ AddTo(level, price, volume)
      /\ acquireBlock(level, Id(price)) /\ UNCHANGED isBid /\ accepted' = TRUE
  BY DEF AddBlock, AddTo
<1>2. Id(price) \in Int /\ \A b \in Used : blockId[b] # Id(price)
  BY <1>1, LevelFacts, Numbers
<1>3. BlocksInv /\ SlotsInv /\ \A b \in Blocks : b \in Used <=> DOMAIN slots[b] # {}
  BY DEF LayoutInv
<1>4. level = Last(freeBlocks)
  OBVIOUS
<1> HIDE DEF level
<1>5. BlocksInv' /\ level \in Blocks \ Used /\ Used' = Used \cup {level} /\ blockId' = With(blockId, level, Id(price))
  BY <1>1, <1>2, <1>3, <1>4, AcquireKeeps
<1>6. AddsSlot(level, price, volume) /\ SlotsInv'
  <2>1. Offset(price) \notin DOMAIN slots[level]
    BY <1>3, <1>5
  <2> QED BY <1>1, <1>3, <1>5, <2>1, AddKeeps
<1>7. \A b \in Blocks : b \in Used' <=> DOMAIN slots'[b] # {}
  BY <1>3, <1>5, <1>6 DEF AddsSlot
<1>8. Adds(level, Offset(price), toTick(price), Entry(price, volume))
  <2>1. ASSUME NEW b, NEW o
        PROVE  Has(b, o)' <=> Has(b, o) \/ (b = level /\ o = Offset(price))
    BY <1>3, <1>5, <1>6, UsedInBlocks DEF Has, AddsSlot
  <2>2. blockId'[level] = Id(price) /\ \A b \in Used : blockId'[b] = blockId[b]
    <3>1. blockId \in [Used -> Int]
      BY <1>3 DEF BlocksInv
    <3> QED BY <1>5, <3>1 DEF With
  <2>3. ASSUME NEW b, NEW o, Has(b, o)
        PROVE  Stays(b, o)
    <3>1. b \in Used /\ b \in Blocks /\ o \in DOMAIN slots[b]
      BY <2>3, UsedInBlocks DEF Has
    <3>2. slots[b][o] \in DOMAIN entries
      BY <1>3, <3>1, SlotsFacts
    <3>3. slots'[b][o] = slots[b][o]
      BY <1>6, <3>1 DEF AddsSlot
    <3> QED BY <1>6, <2>2, <3>1, <3>2, <3>3 DEF Stays, AddsSlot
  <2>4. blockId'[level] * TICKS + Offset(price) = toTick(price)
    BY <2>2, TickOfPrice
  <2> QED BY <1>6, <2>1, <2>3, <2>4 DEF Adds, AddsSlot
<1> QED BY <1>1, <1>5, <1>6, <1>7, <1>8 DEF LayoutInv, Blocks, level

LEMMA NextLayout == LayoutInv /\ [Next]_vars => LayoutInv'
<1> SUFFICES ASSUME LayoutInv, [Next]_vars
             PROVE  LayoutInv'
  OBVIOUS
<1>1. ASSUME UNCHANGED <<isBid, place_, blockId, freeBlocks, levels>>, accepted' \in BOOLEAN
      PROVE  LayoutInv'
  BY <1>1 DEF LayoutInv, BlocksInv, SlotsInv, Used, Blocks, Slots, place_, levels
<1>2. ASSUME NEW price \in Prices, RemoveAbsent(price)
      PROVE  LayoutInv'
  BY <1>1, <1>2 DEF RemoveAbsent
<1>3. ASSUME NEW price \in Prices, NoRoom(price)
      PROVE  LayoutInv'
  BY <1>1, <1>3 DEF NoRoom
<1>4. CASE UNCHANGED vars
  BY <1>1, <1>4 DEF vars, LayoutInv
<1> QED BY <1>2, <1>3, <1>4, RemoveKeeps, SetKeeps, AddLevelKeeps, AddBlockKeeps, ClearKeeps DEF Next

-----------------------------------------------------------------------------
(* What the invariant says *)

\* The blocks in use are counted by the window and the fallback.
LEMMA UsedCount ==
    ASSUME BlocksInv
    PROVE  Cardinality(Used) = windowBlocks + Len(fallback) /\ windowBlocks \in 0 .. WINDOW
<1> DEFINE W == {o \in 0 .. WINDOW - 1 : window[o] # Null}
           n == Len(fallback)
           I == {b \in Used : InWindow(blockId[b], windowBase)}
           F == Used \ I
           f == [o \in W |-> window[o]]
<1>1. /\ Used \subseteq Blocks /\ IsFiniteSet(Used) /\ Null \notin Used
      /\ \A b \in Used : blockId[b] \in Int
  BY UsedFacts
<1>2. /\ windowBase \in Int /\ window \in [0 .. WINDOW - 1 -> Used \cup {Null}] /\ fallback \in Seq(Used)
      /\ Arranged(isBid, Used, blockId, windowBase, window, windowBlocks, fallback)
      /\ \A o \in 0 .. WINDOW - 1 : window[o] # Null => blockId[window[o]] = windowBase + o
      /\ \A i \in 1 .. n : Worse(isBid, blockId[fallback[i]], windowBase)
      /\ \A i, j \in 1 .. n : i < j => blockId[fallback[i]] < blockId[fallback[j]]
  BY DEF BlocksInv, Arranged
<1>3. /\ \A b \in Used : InWindow(blockId[b], windowBase) => window[blockId[b] - windowBase] = b
      /\ \A b \in Used : ~InWindow(blockId[b], windowBase) => \E i \in 1 .. n : fallback[i] = b
  <2>1. Arranged(isBid, Used, blockId, windowBase, window, windowBlocks, fallback)
    BY <1>2
  <2> QED BY <1>1, <2>1, IdsDiffer
<1>4. WINDOW \in Nat
  BY SizeAssumption
<1>5. W \in SUBSET (0 .. WINDOW - 1) /\ windowBlocks = Cardinality(W)
  BY DEF BlocksInv, Arranged
<1>6. IsFiniteSet(W) /\ windowBlocks \in 0 .. WINDOW
  <2> HIDE DEF W
  <2> QED BY <1>5, FewOffsets
<1>7. Cardinality(I) = windowBlocks
  <2>1. ASSUME NEW o \in W
        PROVE  window[o] \in I /\ blockId[window[o]] = windowBase + o /\ o \in Int
    <3>1. o \in 0 .. WINDOW - 1 /\ o \in Int /\ window[o] \in Used /\ blockId[window[o]] = windowBase + o
      BY <1>2, <1>4
    <3>2. (windowBase + o) - windowBase = o
      BY <1>2, <3>1
    <3> QED BY <3>1, <3>2 DEF InWindow
  <2>2. ASSUME NEW b \in I
        PROVE  \E o \in W : window[o] = b
    <3>1. blockId[b] - windowBase \in 0 .. WINDOW - 1 /\ window[blockId[b] - windowBase] = b /\ b # Null
      BY <1>1, <1>3 DEF InWindow
    <3> QED BY <3>1
  <2> HIDE DEF I, W
  <2>3. f \in [W -> I] /\ \A o \in W : f[o] = window[o]
    BY <2>1
  <2> HIDE DEF f
  <2>4. ASSUME NEW o \in W, NEW p \in W, f[o] = f[p]
        PROVE  o = p
    <3>1. windowBase + o = windowBase + p /\ o \in Int /\ p \in Int
      BY <2>1, <2>3, <2>4
    <3> QED BY <1>2, <3>1
  <2>5. \A b \in I : \E o \in W : f[o] = b
    BY <2>2, <2>3
  <2>6. Cardinality(I) = Cardinality(W)
    BY <1>6, <2>3, <2>4, <2>5, Matched, Zenon
  <2> QED BY <1>5, <2>6
<1>8. Cardinality(F) = n
  <2>1. n \in Nat /\ fallback \in [1 .. n -> Used] /\ \A i \in 1 .. n : fallback[i] \in Used
    BY <1>2, LenProperties, ElementOfSeq
  <2>2. \A i \in 1 .. n : fallback[i] \in F
    BY <1>1, <1>2, <1>4, <2>1 DEF Worse, InWindow
  <2>3. \A b \in F : \E i \in 1 .. n : fallback[i] = b
    BY <1>3
  <2> HIDE DEF F, n
  <2>4. fallback \in [1 .. n -> F]
    BY <2>1, <2>2
  <2>5. ASSUME NEW i \in 1 .. n, NEW j \in 1 .. n, fallback[i] = fallback[j]
        PROVE  i = j
    <3>1. blockId[fallback[i]] \in Int
      BY <1>1, <2>1
    <3>2. ~(i < j) /\ ~(j < i)
      BY <1>2, <2>5, <3>1
    <3> QED BY <2>1, <3>2
  <2>6. IsFiniteSet(1 .. n) /\ Cardinality(1 .. n) = n
    BY <2>1, CountTo
  <2>7. Cardinality(F) = Cardinality(1 .. n)
    BY <2>3, <2>4, <2>5, <2>6, Matched, Zenon
  <2> QED BY <2>6, <2>7
<1>9. /\ I \in SUBSET Used /\ F \in SUBSET Used /\ I \cup F = Used /\ I \cap F = {}
  OBVIOUS
<1> HIDE DEF I, F, n, W
<1>10. IsFiniteSet(I) /\ IsFiniteSet(F)
  BY <1>1, <1>9, FS_Subset
<1>11. Cardinality(I \cup F) = Cardinality(I) + Cardinality(F) - Cardinality(I \cap F)
  BY <1>10, FS_Union
<1>12. n \in Nat
  BY <1>2, LenProperties DEF n
<1>13. Cardinality(Used) = windowBlocks + n - 0
  BY <1>7, <1>8, <1>9, <1>11, FS_EmptySet
<1> QED BY <1>4, <1>6, <1>12, <1>13 DEF n

LEMMA LayoutSound == LayoutInv => LayoutIsSound
<1> SUFFICES ASSUME LayoutInv
             PROVE  LayoutIsSound
  OBVIOUS
<1>1. BlocksInv /\ SlotsInv /\ accepted \in BOOLEAN /\ \A b \in Blocks : b \in Used <=> DOMAIN slots[b] # {}
  BY DEF LayoutInv
<1>2. /\ isBid \in BOOLEAN /\ centred \in BOOLEAN /\ freeBlocks \in Seq(Blocks) /\ IsInjective(freeBlocks)
      /\ blockId \in [Used -> Int] /\ windowBase \in Int
      /\ window \in [0 .. WINDOW - 1 -> Used \cup {Null}] /\ fallback \in Seq(Used)
      /\ windowBlocks = Cardinality({o \in 0 .. WINDOW - 1 : window[o] # Null})
      /\ \A o \in 0 .. WINDOW - 1 : window[o] # Null => blockId[window[o]] = windowBase + o
      /\ \A i \in 1 .. Len(fallback) : Worse(isBid, blockId[fallback[i]], windowBase)
      /\ \A i, j \in 1 .. Len(fallback) : i < j => blockId[fallback[i]] < blockId[fallback[j]]
  BY <1>1 DEF BlocksInv, Arranged
<1>3. Used \subseteq Blocks /\ Placed = Used /\ \A b \in Used : blockId[b] \in Int
  BY <1>1, UsedFacts
<1>4. /\ slots \in [Blocks -> Partial]
      /\ \A b \in Blocks : slots[b] \in [DOMAIN slots[b] -> Slots]
      /\ \A b \in Blocks : \A o \in DOMAIN slots[b] : slots[b][o] \in Slots
  BY <1>1, SlotsFacts
<1>5. Cardinality(Used) = windowBlocks + Len(fallback) /\ windowBlocks \in 0 .. WINDOW
  BY <1>1, UsedCount
<1>6. /\ freeSlots \in Seq(Slots) /\ IsInjective(freeSlots)
      /\ \A b, c \in Blocks : \A o \in DOMAIN slots[b], p \in DOMAIN slots[c] :
            slots[b][o] = slots[c][p] => b = c /\ o = p
      /\ \A s \in Slots : s \in Range(freeSlots) <=> \A b \in Blocks : \A o \in DOMAIN slots[b] : slots[b][o] # s
      /\ entries \in [Slots \ Range(freeSlots) -> [price : Prices, volume : Volumes \ {0}]]
  BY <1>1 DEF SlotsInv
<1>7. DOMAIN fallback = 1 .. Len(fallback) /\ Len(fallback) \in Nat /\ \A i \in 1 .. Len(fallback) : fallback[i] \in Used
  BY <1>2, LenProperties, ElementOfSeq
<1>8. TypeOK
  <2>1. \A b \in Blocks : IsInjective(slots[b]) /\ Range(slots[b]) \subseteq Slots
    BY <1>4, <1>6 DEF IsInjective, Range
  <2>2. DOMAIN blockId \subseteq Blocks /\ Range(blockId) \subseteq Int
    BY <1>2, <1>3 DEF Range
  <2>3. DOMAIN entries \subseteq Slots /\ Range(entries) \subseteq [price : Prices, volume : Volumes \ {0}]
    BY <1>6 DEF Range
  <2>4. fallback \in Seq(Blocks)
    BY <1>2, <1>3, SeqMonotonic
  <2>5. window \in [0 .. WINDOW - 1 -> Blocks \cup {Null}]
    BY <1>2, <1>3
  <2> QED BY <1>1, <1>2, <1>5, <1>6, <2>1, <2>2, <2>3, <2>4, <2>5 DEF TypeOK
<1>9. Conserved
  <2>1. DOMAIN blockId = Used /\ DOMAIN window = 0 .. WINDOW - 1
    BY <1>2
  <2>2. IsInjective(fallback)
    <3>1. ASSUME NEW i \in 1 .. Len(fallback), NEW j \in 1 .. Len(fallback), fallback[i] = fallback[j]
          PROVE  i = j
      <4>1. blockId[fallback[i]] \in Int
        BY <1>3, <1>7
      <4>2. ~(i < j) /\ ~(j < i)
        BY <1>2, <3>1, <4>1
      <4> QED BY <1>7, <4>2
    <3> QED BY <1>7, <3>1 DEF IsInjective
  <2>3. \A b \in Used : slots[b] # <<>>
    BY <1>1, <1>3, <1>4, EmptyIs
  <2>4. Range(freeSlots) = Slots \ UNION {Range(slots[b]) : b \in Used}
    <3>1. Range(freeSlots) \subseteq Slots
      BY <1>6, RangeOfSeq
    <3>2. ASSUME NEW s \in Slots
          PROVE  s \in UNION {Range(slots[b]) : b \in Used} <=> \E b \in Blocks : \E o \in DOMAIN slots[b] : slots[b][o] = s
      BY <1>1, <1>3 DEF Range
    <3> QED BY <1>6, <3>1, <3>2
  <2>5. \A b, c \in Used : b # c => Range(slots[b]) \cap Range(slots[c]) = {}
    BY <1>3, <1>6 DEF Range
  <2>6. \A o \in DOMAIN window : window[o] # Null => blockId[window[o]] = windowBase + o
    BY <1>2, <2>1
  <2>7. windowBlocks = Cardinality({o \in DOMAIN window : window[o] # Null})
    BY <1>2, <2>1
  <2> QED BY <1>2, <1>3, <1>5, <1>6, <2>1, <2>2, <2>3, <2>4, <2>5, <2>6, <2>7 DEF Conserved
<1>10. FallbackIsWorse
  BY <1>2, <1>7 DEF FallbackIsWorse, Worse
<1> QED BY <1>8, <1>9, <1>10 DEF LayoutIsSound

(***************************************************************************)
(* Whatever is updated, refused, recentred and cleared, for any sizes of   *)
(* blocks, window and pools: no block and no slot leaks or is shared,      *)
(* windowBlocks counts the window, and all that is outside the window is   *)
(* beyond its worst edge.                                                  *)
(***************************************************************************)
THEOREM BookLayoutIsSound == Spec => []LayoutIsSound
<1>1. Spec => []LayoutInv
  BY InitLayout, NextLayout, PTL DEF Spec
<1> QED BY <1>1, LayoutSound, PTL

-----------------------------------------------------------------------------
(* The side is a map *)

\* What the map of the invariant is.
IsBook(f) ==
    /\ f = [t \in DOMAIN f |-> f[t]]
    /\ \A t : t \in DOMAIN f <=> \E b, o : Has(b, o) /\ t = TickAt(b, o)
    /\ \A b, o : Has(b, o) => f[TickAt(b, o)] = entries[slots[b][o]]

\* Offsets of blocks in use are where their ticks say.
LEMMA TicksDiffer ==
    ASSUME LayoutInv, NEW b \in Used, NEW c \in Used, NEW o \in 0 .. TICKS - 1, NEW p \in 0 .. TICKS - 1,
           TickAt(b, o) = TickAt(c, p)
    PROVE  b = c /\ o = p
<1>1. BlocksInv
  BY DEF LayoutInv
<1>2. Null \notin Used /\ (\A x \in Used : blockId[x] \in Int)
  BY <1>1, UsedFacts
<1>3. \A x, y \in Used : blockId[x] = blockId[y] => x = y
  BY <1>1, <1>2, IdsDiffer DEF BlocksInv
<1>4. TICKS \in Nat \ {0}
  BY SizeAssumption
<1>5. blockId[b] = blockId[c] /\ o = p
  <2> DEFINE x == blockId[b]
             y == blockId[c]
  <2>1. x \in Int /\ y \in Int /\ x * TICKS + o = y * TICKS + p
    BY <1>2 DEF TickAt
  <2> HIDE DEF x, y
  <2>2. x = y /\ o = p
    BY <1>4, <2>1, Division
  <2> QED BY <2>2 DEF x, y
<1> QED BY <1>3, <1>5

LEMMA BookIs == LayoutInv => IsBook(Book)
<1> SUFFICES ASSUME LayoutInv
             PROVE  IsBook(Book)
  OBVIOUS
<1> DEFINE where == {w \in Used \X (0 .. TICKS - 1) : w[2] \in DOMAIN slots[w[1]]}
           TickOf(w) == blockId[w[1]] * TICKS + w[2]
<1>1. Book = [t \in {TickOf(w) : w \in where} |->
                 LET w == CHOOSE x \in where : TickOf(x) = t IN entries[slots[w[1]][w[2]]]]
  BY Zenon DEF Book
<1>2. SlotsInv /\ BlocksInv
  BY DEF LayoutInv
<1>3. \A b \in Used : b \in Blocks /\ DOMAIN slots[b] \subseteq 0 .. TICKS - 1
  BY <1>2, SlotsFacts DEF Used
<1>4. ASSUME NEW b \in Used, NEW o \in DOMAIN slots[b]
      PROVE  <<b, o>> \in where /\ TickOf(<<b, o>>) = TickAt(b, o)
  BY <1>3 DEF TickAt
<1>5. ASSUME NEW w \in where
      PROVE  w[1] \in Used /\ w[2] \in DOMAIN slots[w[1]] /\ w[2] \in 0 .. TICKS - 1 /\ TickOf(w) = TickAt(w[1], w[2])
  BY DEF TickAt
<1>6. DOMAIN Book = {TickOf(w) : w \in where} /\ Book = [t \in DOMAIN Book |-> Book[t]]
  <2> DEFINE S == {TickOf(w) : w \in where}
             F(t) == LET w == CHOOSE x \in where : TickOf(x) = t IN entries[slots[w[1]][w[2]]]
  <2>1. Book = [t \in S |-> F(t)]
    BY <1>1, Zenon
  <2> HIDE DEF F, S
  <2>2. DOMAIN Book = S
    BY <2>1
  <2>3. Book = [t \in DOMAIN Book |-> Book[t]]
    BY <2>1, <2>2
  <2> QED BY <2>2, <2>3 DEF S
<1>7. ASSUME NEW t
      PROVE  t \in DOMAIN Book <=> \E b \in Used : \E o \in DOMAIN slots[b] : t = TickAt(b, o)
  <2>1. ASSUME t \in DOMAIN Book
        PROVE  \E b \in Used : \E o \in DOMAIN slots[b] : t = TickAt(b, o)
    <3>1. PICK w \in where : t = TickOf(w)
      BY <1>6, <2>1
    <3>2. w[1] \in Used /\ w[2] \in DOMAIN slots[w[1]] /\ t = TickAt(w[1], w[2])
      BY <1>5, <3>1
    <3> QED BY <3>2
  <2>2. ASSUME NEW b \in Used, NEW o \in DOMAIN slots[b], t = TickAt(b, o)
        PROVE  t \in DOMAIN Book
    <3>1. <<b, o>> \in where /\ TickOf(<<b, o>>) = t
      BY <1>4, <2>2
    <3> QED BY <1>6, <3>1
  <2> QED BY <2>1, <2>2
<1>8. ASSUME NEW b \in Used, NEW o \in DOMAIN slots[b]
      PROVE  Book[TickAt(b, o)] = entries[slots[b][o]]
  <2> DEFINE t == TickAt(b, o)
             w == CHOOSE x \in where : TickOf(x) = t
  <2>1. <<b, o>> \in where /\ TickOf(<<b, o>>) = t
    BY <1>4
  <2>2. w \in where /\ TickOf(w) = t
    <3> HIDE DEF t, where, TickOf
    <3> QED BY <2>1
  <2>3. t \in {TickOf(x) : x \in where}
    BY <2>2
  <2>4. Book[t] = entries[slots[w[1]][w[2]]]
    <3> HIDE DEF where, TickOf, t
    <3> QED BY <1>1, <2>3 DEF w
  <2> HIDE DEF w
  <2>5. w[1] \in Used /\ w[2] \in 0 .. TICKS - 1 /\ TickAt(w[1], w[2]) = TickAt(b, o)
    BY <1>5, <2>2
  <2>6. o \in 0 .. TICKS - 1
    BY <1>3
  <2>7. w[1] = b /\ w[2] = o
    BY <2>5, <2>6, TicksDiffer
  <2> QED BY <2>4, <2>7
<1> QED BY <1>6, <1>7, <1>8, Zenon DEF IsBook, Has

LEMMA BookIsNext == LayoutInv' => IsBook(Book)'
  BY BookIs, PTL

\* A level exists exactly when the map has its tick.
LEMMA ExistsIs ==
    ASSUME LayoutInv, NEW price \in Prices
    PROVE  /\ Exists(price) <=> toTick(price) \in DOMAIN Book
           /\ findBlock(Id(price)) # Null => TickAt(findBlock(Id(price)), Offset(price)) = toTick(price)
           /\ Exists(price) => Book[toTick(price)] = entries[slots[findBlock(Id(price))][Offset(price)]]
<1> DEFINE level == findBlock(Id(price))
           off == Offset(price)
<1>1. IsBook(Book)
  BY BookIs
<1>2. /\ level \in Used \cup {Null} /\ Null \notin Used /\ Used \subseteq Blocks
      /\ level # Null => blockId[level] = Id(price)
      /\ level = Null => \A b \in Used : blockId[b] # Id(price)
      /\ Exists(price) => level \in Used /\ off \in DOMAIN slots[level]
      /\ ~Exists(price) /\ level # Null => off \notin DOMAIN slots[level]
  BY LevelFacts
<1>3. toTick(price) = Id(price) * TICKS + off /\ Id(price) \in Int /\ off \in 0 .. TICKS - 1
  BY TickOfPrice, Numbers
<1>4. SlotsInv /\ BlocksInv
  BY DEF LayoutInv
<1>5. (\A b \in Used : blockId[b] \in Int) /\ \A b \in Used : DOMAIN slots[b] \subseteq 0 .. TICKS - 1
  BY <1>2, <1>4, UsedFacts, SlotsFacts
<1> HIDE DEF level, off
<1>6. level # Null => TickAt(level, off) = toTick(price)
  BY <1>2, <1>3 DEF TickAt
<1>7. Exists(price) => toTick(price) \in DOMAIN Book /\ Book[toTick(price)] = entries[slots[level][off]]
  BY <1>1, <1>2, <1>6 DEF IsBook, Has
<1>8. ASSUME toTick(price) \in DOMAIN Book, ~Exists(price)
      PROVE  FALSE
  <2>1. PICK b \in Used : \E o \in DOMAIN slots[b] : toTick(price) = TickAt(b, o)
    BY <1>1, <1>8, Zenon DEF IsBook, Has
  <2>2. PICK o \in DOMAIN slots[b] : toTick(price) = TickAt(b, o)
    BY <2>1
  <2>3. o \in 0 .. TICKS - 1 /\ blockId[b] \in Int /\ TICKS \in Nat \ {0}
    BY <1>5, SizeAssumption
  <2>4. blockId[b] = Id(price) /\ o = off
    <3> DEFINE x == blockId[b]
               y == Id(price)
    <3>1. x \in Int /\ y \in Int /\ x * TICKS + o = y * TICKS + off
      BY <1>3, <2>2, <2>3 DEF TickAt
    <3> HIDE DEF x, y
    <3>2. x = y /\ o = off
      BY <1>3, <2>3, <3>1, Division
    <3> QED BY <3>2 DEF x, y
  <2>5. level # Null /\ level \in Used /\ blockId[level] = blockId[b]
    BY <1>2, <2>4
  <2>6. TickAt(level, off) = TickAt(b, o)
    BY <2>4, <2>5 DEF TickAt
  <2>7. level = b
    BY <1>3, <2>3, <2>5, <2>6, TicksDiffer
  <2> QED BY <1>2, <1>8, <2>4, <2>5, <2>7
<1> QED BY <1>6, <1>7, <1>8 DEF level, off

-----------------------------------------------------------------------------
(* The walk *)

\* A list has every element, once.
LEMMA ListCovers ==
    ASSUME NEW S, IsFiniteSet(S), NEW ids, \A b \in S : ids[b] \in Int, NEW s, Lists(s, S, ids)
    PROVE  /\ Cardinality(S) \in Nat /\ s \in Seq(S) /\ Len(s) = Cardinality(S)
           /\ \A i \in 1 .. Cardinality(S) : s[i] \in S
           /\ \A i, j \in 1 .. Cardinality(S) : i < j <=> ids[s[i]] < ids[s[j]]
           /\ \A b \in S : \E i \in 1 .. Cardinality(S) : s[i] = b
<1> DEFINE n == Cardinality(S)
<1>1. n \in Nat
  BY FS_CardinalityType
<1>2. s \in [1 .. n -> S] /\ \A i, j \in 1 .. n : i < j => ids[s[i]] < ids[s[j]]
  BY DEF Lists
<1>3. IsFiniteSet(1 .. n) /\ Cardinality(1 .. n) = n
  BY <1>1, CountTo
<1>4. n = Cardinality(S)
  OBVIOUS
<1> HIDE DEF n
<1>5. s \in Seq(S) /\ Len(s) = n
  BY <1>1, <1>2
<1>6. ASSUME NEW i \in 1 .. n, NEW j \in 1 .. n
      PROVE  i < j <=> ids[s[i]] < ids[s[j]]
  <2>1. ids[s[i]] \in Int /\ ids[s[j]] \in Int
    BY <1>2
  <2>2. i < j \/ j < i \/ i = j
    BY <1>1
  <2> QED BY <1>2, <2>1, <2>2
<1>7. s \in Injection(1 .. n, S)
  <2>1. ASSUME NEW i \in 1 .. n, NEW j \in 1 .. n, s[i] = s[j]
        PROVE  i = j
    <3>1. ids[s[i]] \in Int
      BY <1>2
    <3>2. ~(i < j) /\ ~(j < i)
      BY <1>2, <2>1, <3>1
    <3> QED BY <3>2
  <2> QED BY <1>2, <2>1 DEF Injection, IsInjective
<1>8. s \in Surjection(1 .. n, S)
  BY <1>3, <1>4, <1>7, FS_Injection
<1>9. \A b \in S : \E i \in 1 .. n : s[i] = b
  BY <1>8 DEF Surjection
<1> QED BY <1>1, <1>2, <1>4, <1>5, <1>6, <1>9

\* The place of an element is the number of elements up to it.
LEMMA ListPlace ==
    ASSUME NEW S, IsFiniteSet(S), NEW ids, \A b \in S : ids[b] \in Int, NEW s, Lists(s, S, ids),
           NEW i \in 1 .. Cardinality(S)
    PROVE  i = Cardinality({b \in S : ids[b] <= ids[s[i]]})
<1> DEFINE n == Cardinality(S)
           T == {b \in S : ids[b] <= ids[s[i]]}
           h == [j \in 1 .. i |-> s[j]]
<1>1. /\ n \in Nat /\ \A j \in 1 .. n : s[j] \in S
      /\ \A j, k \in 1 .. n : j < k <=> ids[s[j]] < ids[s[k]]
      /\ \A b \in S : \E j \in 1 .. n : s[j] = b
  BY ListCovers
<1>2. i \in 1 .. n
  OBVIOUS
<1> HIDE DEF n
<1>3. i \in Nat /\ \A j \in 1 .. i : j \in 1 .. n
  BY <1>1, <1>2
<1>4. ASSUME NEW j \in 1 .. n
      PROVE  ids[s[j]] \in Int /\ (s[j] \in T <=> j \in 1 .. i)
  <2>1. ids[s[j]] \in Int /\ ids[s[i]] \in Int /\ s[j] \in S
    BY <1>1, <1>2
  <2>2. i < j <=> ids[s[i]] < ids[s[j]]
    BY <1>1, <1>2
  <2> QED BY <1>1, <1>2, <2>1, <2>2
<1>5. h \in [1 .. i -> T]
  BY <1>3, <1>4
<1>6. ASSUME NEW a \in 1 .. i, NEW b \in 1 .. i, h[a] = h[b]
      PROVE  a = b
  <2>1. s[a] = s[b] /\ a \in 1 .. n /\ b \in 1 .. n
    BY <1>3, <1>6
  <2>2. ids[s[a]] \in Int /\ (a < b <=> ids[s[a]] < ids[s[b]]) /\ (b < a <=> ids[s[b]] < ids[s[a]])
    BY <1>1, <1>4, <2>1
  <2> QED BY <2>1, <2>2
<1>7. ASSUME NEW t \in T
      PROVE  \E a \in 1 .. i : h[a] = t
  <2>1. PICK j \in 1 .. n : s[j] = t
    BY <1>1
  <2>2. j \in 1 .. i
    BY <1>4, <2>1
  <2> QED BY <2>1, <2>2
<1>8. IsFiniteSet(1 .. i) /\ Cardinality(1 .. i) = i
  BY <1>3, CountTo
<1> HIDE DEF h, T
<1>9. Cardinality(T) = Cardinality(1 .. i)
  BY <1>5, <1>6, <1>7, <1>8, Matched
<1> QED BY <1>8, <1>9 DEF T

\* A set has one list.
LEMMA ListIsUnique ==
    ASSUME NEW S, IsFiniteSet(S), NEW ids, \A b \in S : ids[b] \in Int,
           NEW s, Lists(s, S, ids), NEW t, Lists(t, S, ids)
    PROVE  s = t
<1> DEFINE n == Cardinality(S)
<1>1. \A i \in 1 .. n : i = Cardinality({b \in S : ids[b] <= ids[s[i]]})
  BY ListPlace
<1>2. \A i \in 1 .. n : i = Cardinality({b \in S : ids[b] <= ids[t[i]]})
  BY ListPlace
<1>3. s \in [1 .. n -> S] /\ t \in [1 .. n -> S]
  BY DEF Lists
<1>4. \A b \in S : \E j \in 1 .. n : t[j] = b
  BY ListCovers
<1> HIDE DEF n
<1>5. ASSUME NEW i \in 1 .. n
      PROVE  s[i] = t[i]
  <2>1. PICK j \in 1 .. n : t[j] = s[i]
    BY <1>3, <1>4
  <2>2. i = Cardinality({b \in S : ids[b] <= ids[s[i]]}) /\ j = Cardinality({b \in S : ids[b] <= ids[t[j]]})
    BY <1>1, <1>2
  <2>3. i = j
    BY <2>1, <2>2
  <2> QED BY <2>1, <2>3
<1>6. s = [i \in 1 .. n |-> s[i]] /\ t = [i \in 1 .. n |-> t[i]]
  BY <1>3
<1> QED BY <1>5, <1>6, Zenon

\* Lists of two sets, one after the other, if the first comes before the second.
LEMMA ListsJoin ==
    ASSUME NEW A, NEW B, IsFiniteSet(A), IsFiniteSet(B), NEW ids, \A x \in A \cup B : ids[x] \in Int,
           \A x \in A, y \in B : ids[x] < ids[y],
           NEW s, Lists(s, A, ids), NEW t, Lists(t, B, ids)
    PROVE  /\ Lists(s \o t, A \cup B, ids)
           /\ IsFiniteSet(A \cup B) /\ Cardinality(A \cup B) = Cardinality(A) + Cardinality(B)
<1> DEFINE m == Cardinality(A)
           n == Cardinality(B)
           u == s \o t
<1>1. m \in Nat /\ s \in Seq(A) /\ Len(s) = m /\ (\A i \in 1 .. m : s[i] \in A)
  BY ListCovers
<1>2. n \in Nat /\ t \in Seq(B) /\ Len(t) = n /\ (\A i \in 1 .. n : t[i] \in B)
  BY ListCovers
<1>3. \A i, j \in 1 .. m : i < j => ids[s[i]] < ids[s[j]]
  BY DEF Lists
<1>4. \A i, j \in 1 .. n : i < j => ids[t[i]] < ids[t[j]]
  BY DEF Lists
<1>5. IsFiniteSet(A \cup B) /\ Cardinality(A \cup B) = m + n
  <2>1. A \cap B = {}
    <3>1. ASSUME NEW x \in A, x \in B
          PROVE  FALSE
      <4>1. ids[x] < ids[x] /\ ids[x] \in Int
        BY <3>1
      <4> QED BY <4>1
    <3> QED BY <3>1
  <2>2. Cardinality(A \cap B) = 0
    BY <2>1, FS_EmptySet
  <2>3. IsFiniteSet(A \cup B) /\ Cardinality(A \cup B) = m + n - Cardinality(A \cap B)
    BY FS_Union
  <2> HIDE DEF m, n
  <2> QED BY <1>1, <1>2, <2>2, <2>3
<1> HIDE DEF m, n
<1>6. s \in Seq(A \cup B) /\ t \in Seq(A \cup B)
  BY <1>1, <1>2, SeqMonotonic
<1>7. u \in Seq(A \cup B) /\ Len(u) = m + n
      /\ \A i \in 1 .. m + n : u[i] = IF i <= m THEN s[i] ELSE t[i - m]
  BY <1>1, <1>2, <1>6, ConcatProperties
<1> HIDE DEF u
<1>8. u \in [1 .. m + n -> A \cup B]
  BY <1>7, LenProperties
<1>9. ASSUME NEW i \in 1 .. m + n, NEW j \in 1 .. m + n, i < j
      PROVE  ids[u[i]] < ids[u[j]]
  <2>1. CASE j <= m
    BY <1>1, <1>2, <1>3, <1>7, <1>9, <2>1
  <2>2. CASE i > m
    <3>1. i - m \in 1 .. n /\ j - m \in 1 .. n /\ i - m < j - m /\ ~(i <= m) /\ ~(j <= m)
      BY <1>1, <1>2, <1>9, <2>2
    <3>2. u[i] = t[i - m] /\ u[j] = t[j - m]
      BY <1>7, <3>1
    <3> QED BY <1>4, <3>1, <3>2
  <2>3. CASE i <= m /\ ~(j <= m)
    <3>1. i \in 1 .. m /\ j - m \in 1 .. n
      BY <1>1, <1>2, <2>3
    <3>2. u[i] = s[i] /\ u[j] = t[j - m]
      BY <1>7, <2>3
    <3> QED BY <1>1, <1>2, <3>1, <3>2
  <2> QED BY <1>1, <1>2, <2>1, <2>2, <2>3
<1>10. Lists(u, A \cup B, ids)
  BY <1>5, <1>8, <1>9 DEF Lists
<1> QED BY <1>5, <1>10 DEF u, m, n

\* FlattenSeq appends one sequence after the other.
LEMMA FlattenSteps ==
    ASSUME NEW V, NEW seqs \in Seq(Seq(V))
    PROVE  \E f : /\ f[0] = <<>>
                  /\ \A i \in 1 .. Len(seqs) : f[i] = f[i - 1] \o seqs[i]
                  /\ FlattenSeq(seqs) = f[Len(seqs)]
<1> DEFINE n == Len(seqs)
           Step(g, m) == g = [i \in 1 .. m |-> IF i = 1 THEN seqs[i] ELSE g[i - 1] \o seqs[i]]
           Bad == {m \in Nat : m <= n /\ ~\E g : Step(g, m)}
<1>1. n \in Nat /\ \A i \in 1 .. n : seqs[i] \in Seq(V)
  BY LenProperties, ElementOfSeq
<1>2. Bad = {}
  <2>1. SUFFICES ASSUME Bad # {}
                 PROVE  FALSE
    BY <2>1
  <2>2. Bad \in SUBSET Nat
    OBVIOUS
  <2> HIDE DEF Step
  <2>3. PICK m \in Bad : \A k \in Bad : m <= k
    <3> HIDE DEF Bad
    <3> QED BY <2>1, <2>2, Least
  <2>4. m \in Nat /\ m <= n /\ ~\E g : Step(g, m)
    OBVIOUS
  <2>5. m # 0
    <3>1. Step(<<>>, 0)
      BY DEF Step
    <3> QED BY <2>4, <3>1
  <2>6. m - 1 \in Nat /\ m - 1 <= n /\ ~(m <= m - 1)
    BY <1>1, <2>4, <2>5
  <2>7. PICK g : Step(g, m - 1)
    BY <2>3, <2>6
  <2> DEFINE h == [i \in 1 .. m |-> IF i = m THEN (IF i = 1 THEN seqs[i] ELSE g[i - 1] \o seqs[i]) ELSE g[i]]
  <2>8. g = [i \in 1 .. m - 1 |-> IF i = 1 THEN seqs[i] ELSE g[i - 1] \o seqs[i]]
    BY <2>7 DEF Step
  <2>9. ASSUME NEW i \in 1 .. m
        PROVE  h[i] = IF i = 1 THEN seqs[i] ELSE h[i - 1] \o seqs[i]
    <3>1. i # 1 => i - 1 \in 1 .. m /\ i - 1 # m /\ h[i - 1] = g[i - 1]
      BY <2>4
    <3>2. i # m => i \in 1 .. m - 1
      BY <2>4
    <3>3. i # m => g[i] = IF i = 1 THEN seqs[i] ELSE g[i - 1] \o seqs[i]
      BY <2>8, <3>2
    <3> QED BY <3>1, <3>3
  <2>10. Step(h, m)
    <3>1. h = [i \in 1 .. m |-> h[i]]
      OBVIOUS
    <3> HIDE DEF h
    <3> QED BY <2>9, <3>1 DEF Step
  <2> QED BY <2>4, <2>10
<1> DEFINE flat == CHOOSE g : Step(g, n)
<1>3. Step(flat, n)
  <2> HIDE DEF Step, n
  <2>1. \E g : Step(g, n)
    <3>1. n <= n /\ n \notin Bad
      <4> HIDE DEF Bad
      <4> QED BY <1>1, <1>2
    <3> QED BY <1>1, <3>1, Zenon
  <2> QED BY <2>1
<1>4. flat = [i \in 1 .. n |-> IF i = 1 THEN seqs[i] ELSE flat[i - 1] \o seqs[i]]
  BY <1>3
<1>5. FlattenSeq(seqs) = IF n = 0 THEN seqs ELSE flat[n]
  BY Zenon DEF FlattenSeq
<1> HIDE DEF flat
<1> DEFINE f == [i \in 0 .. n |-> IF i = 0 THEN <<>> ELSE flat[i]]
<1>6. f[0] = <<>>
  BY <1>1
<1>7. ASSUME NEW i \in 1 .. n
      PROVE  f[i] = f[i - 1] \o seqs[i]
  <2>1. flat[i] = IF i = 1 THEN seqs[i] ELSE flat[i - 1] \o seqs[i]
    BY <1>4
  <2>2. f[i] = flat[i] /\ f[i - 1] = IF i = 1 THEN <<>> ELSE flat[i - 1]
    BY <1>1
  <2>3. <<>> \o seqs[i] = seqs[i]
    BY <1>1, ConcatEmptySeq
  <2> HIDE DEF f
  <2> QED BY <2>1, <2>2, <2>3
<1>8. FlattenSeq(seqs) = f[n]
  <2>1. n = 0 => seqs = <<>>
    BY <1>1, EmptySeq
  <2> QED BY <1>1, <1>5, <2>1
<1> HIDE DEF f
<1> QED BY <1>6, <1>7, <1>8

-----------------------------------------------------------------------------
(* The walk from the best level *)

\* The order of a walk, as numbers that rise.
Key == [x \in Int |-> IF isBid THEN -x ELSE x]

\* w visits the levels at the ticks T, best first.
Walks(w, T) ==
    /\ IsFiniteSet(T) /\ T \subseteq DOMAIN Book
    /\ \E s : Lists(s, T, Key) /\ w = [i \in 1 .. Cardinality(T) |-> Book[s[i]]]

LEMMA BestFirstLists ==
    ASSUME isBid \in BOOLEAN, NEW S \in SUBSET Int, IsFiniteSet(S)
    PROVE  Lists(BestFirst(S), S, Key) /\ DOMAIN BestFirst(S) = 1 .. Cardinality(S)
<1> DEFINE ids == [x \in S |-> IF isBid THEN -x ELSE x]
           s == Ascending(S, ids)
<1>1. \A b \in S : ids[b] \in Int /\ ids[b] = Key[b]
  BY DEF Key
<1>2. \A b, c \in S : ids[b] = ids[c] => b = c
  OBVIOUS
<1>3. BestFirst(S) = s
  BY DEF BestFirst
<1> HIDE DEF ids
<1>4. /\ s \in Seq(S) /\ Len(s) = Cardinality(S)
      /\ \A i, j \in DOMAIN s : i < j => ids[s[i]] < ids[s[j]]
  BY <1>1, <1>2, AscendingLists
<1> HIDE DEF s
<1>5. s \in [1 .. Cardinality(S) -> S] /\ DOMAIN s = 1 .. Cardinality(S)
  BY <1>4, LenProperties
<1>6. \A i, j \in 1 .. Cardinality(S) : i < j => Key[s[i]] < Key[s[j]]
  BY <1>1, <1>4, <1>5
<1> QED BY <1>3, <1>5, <1>6 DEF Lists

\* Of two blocks, all ticks of the one with the smaller id come first.
LEMMA BlocksApart ==
    ASSUME NEW T \in Nat \ {0}, NEW x \in Int, NEW y \in Int, x < y, NEW q \in 0 .. T - 1, NEW r \in 0 .. T - 1
    PROVE  x * T + q < y * T + r
<1>1. PICK d \in Nat : y = x + 1 + d
  <2>1. y - x - 1 \in Nat /\ y = x + 1 + (y - x - 1)
    OBVIOUS
  <2> QED BY <2>1
<1>2. y * T = x * T + T + d * T
  BY <1>1
<1>3. d * T \in Nat /\ x * T \in Int /\ y * T \in Int
  BY <1>1
<1> QED BY <1>2, <1>3

\* The ticks of a block.
TicksOf(b) == {TickAt(b, o) : o \in DOMAIN slots[b]}

\* PriceLevel::forEach visits the levels of its block.
LEMMA BlockWalks ==
    ASSUME LayoutInv, NEW b \in Used
    PROVE  Walks(forEach(b), TicksOf(b))
<1> DEFINE D == DOMAIN slots[b]
           T == TicksOf(b)
           n == Cardinality(D)
           order == BestFirst(D)
           s == [i \in 1 .. n |-> TickAt(b, order[i])]
           h == [o \in D |-> TickAt(b, o)]
<1>1. SlotsInv /\ BlocksInv /\ isBid \in BOOLEAN
  BY DEF LayoutInv, BlocksInv
<1>2. b \in Blocks /\ blockId[b] \in Int /\ TICKS \in Nat \ {0}
  BY <1>1, UsedFacts, SizeAssumption
<1>3. D \subseteq 0 .. TICKS - 1
  BY <1>1, <1>2, SlotsFacts
<1>4. IsFiniteSet(D) /\ D \in SUBSET Int
  <2>1. TICKS - 1 \in Int
    BY <1>2
  <2>2. IsFiniteSet(0 .. TICKS - 1)
    BY <2>1, FS_Interval
  <2>3. \A o \in D : o \in Int
    BY <1>3, <2>1
  <2>4. IsFiniteSet(D)
    <3> HIDE DEF D
    <3> QED BY <1>3, <2>2, FS_Subset
  <2> QED BY <2>3, <2>4
<1>5. Lists(order, D, Key) /\ DOMAIN order = 1 .. n
  BY <1>1, <1>4, BestFirstLists
<1>6. \A o \in D : Key[o] \in Int /\ TickAt(b, o) \in Int /\ o \in Int
  BY <1>1, <1>2, <1>3 DEF Key, TickAt
<1>7. /\ n \in Nat
      /\ \A i \in 1 .. n : order[i] \in D
      /\ \A i, j \in 1 .. n : i < j <=> Key[order[i]] < Key[order[j]]
  BY <1>4, <1>5, <1>6, ListCovers
<1>8. \A o, p \in D : TickAt(b, o) = TickAt(b, p) => o = p
  BY <1>3, TicksDiffer
<1>9. forEach(b) = [i \in 1 .. n |-> entries[slots[b][order[i]]]]
  BY <1>5, Zenon DEF forEach
<1>10. IsFiniteSet(T) /\ Cardinality(T) = n
  <2>1. h \in [D -> T] /\ \A t \in T : \E o \in D : h[o] = t
    BY DEF TicksOf
  <2>2. \A o, p \in D : h[o] = h[p] => o = p
    BY <1>8
  <2> HIDE DEF h, D, T
  <2> QED BY <1>4, <2>1, <2>2, Matched DEF n
<1>11. \A o \in D : TickAt(b, o) \in DOMAIN Book /\ Book[TickAt(b, o)] = entries[slots[b][o]]
  <2>1. IsBook(Book)
    BY BookIs
  <2>2. \A o \in D : Has(b, o)
    BY DEF Has
  <2> QED BY <2>1, <2>2, Zenon DEF IsBook
<1>12. T \subseteq DOMAIN Book
  BY <1>11 DEF TicksOf
<1> HIDE DEF D, n, order
<1>13. s \in [1 .. n -> T]
  BY <1>7 DEF D, TicksOf
<1>14. ASSUME NEW i \in 1 .. n, NEW j \in 1 .. n, i < j
       PROVE  Key[s[i]] < Key[s[j]]
  <2>1. Key[order[i]] < Key[order[j]] /\ order[i] \in Int /\ order[j] \in Int
    BY <1>6, <1>7, <1>14
  <2>2. /\ s[i] = blockId[b] * TICKS + order[i] /\ s[j] = blockId[b] * TICKS + order[j]
        /\ blockId[b] * TICKS \in Int
    BY <1>2 DEF TickAt
  <2> HIDE DEF s
  <2> QED BY <1>1, <2>1, <2>2 DEF Key
<1>15. Lists(s, T, Key)
  BY <1>10, <1>13, <1>14 DEF Lists
<1>16. forEach(b) = [i \in 1 .. n |-> Book[s[i]]]
  <2>1. \A i \in 1 .. n : Book[s[i]] = entries[slots[b][order[i]]]
    BY <1>7, <1>11
  <2> HIDE DEF s
  <2> QED BY <1>9, <2>1
<1> HIDE DEF s, T
<1>17. Walks(forEach(b), T)
  BY <1>10, <1>12, <1>15, <1>16 DEF Walks
<1> QED BY <1>17 DEF T

\* A walk is a sequence of entries of the book.
LEMMA WalkIsSeq ==
    ASSUME NEW w, NEW T, Walks(w, T), \A x \in T : Key[x] \in Int
    PROVE  w \in Seq({Book[t] : t \in DOMAIN Book}) /\ Len(w) = Cardinality(T)
<1>1. IsFiniteSet(T) /\ T \subseteq DOMAIN Book
  BY DEF Walks
<1>2. PICK s : Lists(s, T, Key) /\ w = [i \in 1 .. Cardinality(T) |-> Book[s[i]]]
  BY DEF Walks
<1>3. Cardinality(T) \in Nat /\ \A i \in 1 .. Cardinality(T) : s[i] \in T
  BY <1>1, <1>2, ListCovers
<1>4. \A i \in 1 .. Cardinality(T) : Book[s[i]] \in {Book[t] : t \in DOMAIN Book}
  BY <1>1, <1>3
<1> QED BY <1>2, <1>3, <1>4

\* One walk after the other.
LEMMA WalksJoin ==
    ASSUME NEW v, NEW A, Walks(v, A), NEW w, NEW B, Walks(w, B), \A x \in A \cup B : Key[x] \in Int,
           \A x \in A, y \in B : Key[x] < Key[y]
    PROVE  Walks(v \o w, A \cup B)
<1> DEFINE V == {Book[t] : t \in DOMAIN Book}
           m == Cardinality(A)
           n == Cardinality(B)
<1>1. v \in Seq(V) /\ Len(v) = m /\ w \in Seq(V) /\ Len(w) = n
  BY WalkIsSeq
<1>2. IsFiniteSet(A) /\ A \subseteq DOMAIN Book /\ IsFiniteSet(B) /\ B \subseteq DOMAIN Book
  BY DEF Walks
<1>3. PICK s : Lists(s, A, Key) /\ v = [i \in 1 .. m |-> Book[s[i]]]
  BY DEF Walks
<1>4. PICK t : Lists(t, B, Key) /\ w = [i \in 1 .. n |-> Book[t[i]]]
  BY DEF Walks
<1>5. Lists(s \o t, A \cup B, Key) /\ IsFiniteSet(A \cup B) /\ Cardinality(A \cup B) = m + n
  BY <1>2, <1>3, <1>4, ListsJoin
<1>6. m \in Nat /\ n \in Nat /\ s \in Seq(A) /\ Len(s) = m /\ t \in Seq(B) /\ Len(t) = n
  BY <1>2, <1>3, <1>4, ListCovers
<1>7. /\ v \o w \in Seq(V) /\ Len(v \o w) = m + n
      /\ \A i \in 1 .. m + n : (v \o w)[i] = IF i <= m THEN v[i] ELSE w[i - m]
  <2> HIDE DEF V, m, n
  <2> QED BY <1>1, ConcatProperties
<1>8. \A i \in 1 .. m + n : (s \o t)[i] = IF i <= m THEN s[i] ELSE t[i - m]
  <2>1. s \in Seq(A \cup B) /\ t \in Seq(A \cup B)
    BY <1>6, SeqMonotonic
  <2> HIDE DEF m, n
  <2> QED BY <1>6, <2>1, ConcatProperties
<1> HIDE DEF V, m, n
<1>9. ASSUME NEW i \in 1 .. m + n
      PROVE  (v \o w)[i] = Book[(s \o t)[i]]
  <2>1. CASE i <= m
    <3>1. i \in 1 .. m
      BY <1>6, <2>1
    <3> QED BY <1>3, <1>7, <1>8, <2>1, <3>1
  <2>2. CASE ~(i <= m)
    <3>1. i - m \in 1 .. n
      BY <1>6, <2>2
    <3> QED BY <1>4, <1>7, <1>8, <2>2, <3>1
  <2> QED BY <2>1, <2>2
<1>10. v \o w = [i \in 1 .. m + n |-> Book[(s \o t)[i]]]
  <2> DEFINE u == v \o w
  <2>1. u = [i \in 1 .. m + n |-> u[i]]
    BY <1>6, <1>7, LenProperties
  <2>2. \A i \in 1 .. m + n : u[i] = Book[(s \o t)[i]]
    BY <1>9
  <2> HIDE DEF u
  <2>3. u = [i \in 1 .. m + n |-> Book[(s \o t)[i]]]
    BY <2>1, <2>2
  <2> QED BY <2>3 DEF u
<1> QED BY <1>2, <1>5, <1>10 DEF Walks

\* A walk over blocks in the order of their ids, with empty places among them.
LEMMA WalkBlocks ==
    ASSUME LayoutInv, NEW blocks \in Seq(Used \cup {Null}),
           \A b \in Used : \E i \in 1 .. Len(blocks) : blocks[i] = b,
           \A i, j \in 1 .. Len(blocks) :
               i < j /\ blocks[i] # Null /\ blocks[j] # Null => Key[blockId[blocks[i]]] < Key[blockId[blocks[j]]]
    PROVE  Walks(forEachIn(blocks), DOMAIN Book)
<1> DEFINE n == Len(blocks)
           V == {Book[t] : t \in DOMAIN Book}
           Of(i) == IF blocks[i] = Null THEN {} ELSE TicksOf(blocks[i])
           seqs == [i \in 1 .. n |-> IF blocks[i] = Null THEN <<>> ELSE forEach(blocks[i])]
           Until(m) == {t \in DOMAIN Book : \E i \in 1 .. m : t \in Of(i)}
<1>1. n \in Nat /\ DOMAIN blocks = 1 .. n /\ \A i \in 1 .. n : blocks[i] \in Used \cup {Null}
  BY LenProperties, ElementOfSeq
<1>2. SlotsInv /\ BlocksInv /\ isBid \in BOOLEAN /\ TICKS \in Nat \ {0}
  BY SizeAssumption DEF LayoutInv, BlocksInv
<1>3. \A b \in Used : b \in Blocks /\ blockId[b] \in Int /\ DOMAIN slots[b] \subseteq 0 .. TICKS - 1 /\ b # Null
  BY <1>2, UsedFacts, SlotsFacts
<1>4. IsBook(Book)
  BY BookIs
<1>5. \A t \in DOMAIN Book : Key[t] \in Int /\ \E b \in Used : t \in TicksOf(b)
  <2>1. ASSUME NEW t \in DOMAIN Book
        PROVE  Key[t] \in Int /\ \E b \in Used : t \in TicksOf(b)
    <3>1. PICK b, o : Has(b, o) /\ t = TickAt(b, o)
      BY <1>4 DEF IsBook
    <3>2. b \in Used /\ t \in TicksOf(b) /\ o \in 0 .. TICKS - 1
      BY <1>3, <3>1 DEF Has, TicksOf
    <3>3. t \in Int
      BY <1>2, <1>3, <3>1, <3>2 DEF TickAt
    <3> QED BY <1>2, <3>2, <3>3 DEF Key
  <2> QED BY <2>1
<1>6. Walks(<<>>, {})
  <2>1. IsFiniteSet({}) /\ Cardinality({}) = 0
    BY FS_EmptySet
  <2>2. Lists(<<>>, {}, Key)
    BY <2>1 DEF Lists
  <2>3. <<>> = [i \in 1 .. Cardinality({}) |-> Book[<<>>[i]]]
    BY <2>1
  <2> QED BY <2>1, <2>2, <2>3 DEF Walks
<1>7. ASSUME NEW i \in 1 .. n
      PROVE  Walks(seqs[i], Of(i)) /\ Of(i) \subseteq DOMAIN Book
  <2>1. CASE blocks[i] = Null
    BY <1>6, <2>1
  <2>2. CASE blocks[i] # Null
    <3>1. blocks[i] \in Used
      BY <1>1, <2>2
    <3>2. Walks(forEach(blocks[i]), TicksOf(blocks[i]))
      BY <3>1, BlockWalks
    <3> QED BY <2>2, <3>2 DEF Walks
  <2> QED BY <2>1, <2>2
<1>8. ASSUME NEW i \in 1 .. n, NEW j \in 1 .. n, i < j, NEW x \in Of(i), NEW y \in Of(j)
      PROVE  Key[x] < Key[y]
  <2>1. blocks[i] # Null /\ blocks[j] # Null /\ blocks[i] \in Used /\ blocks[j] \in Used
    BY <1>1
  <2>2. PICK o \in DOMAIN slots[blocks[i]] : x = TickAt(blocks[i], o)
    BY <2>1 DEF TicksOf
  <2>3. PICK p \in DOMAIN slots[blocks[j]] : y = TickAt(blocks[j], p)
    BY <2>1 DEF TicksOf
  <2> DEFINE a == blockId[blocks[i]]
             b == blockId[blocks[j]]
  <2>4. a \in Int /\ b \in Int /\ Key[a] < Key[b] /\ x = a * TICKS + o /\ y = b * TICKS + p
        /\ o \in 0 .. TICKS - 1 /\ p \in 0 .. TICKS - 1
    BY <1>3, <1>8, <2>1, <2>2, <2>3 DEF TickAt
  <2> HIDE DEF a, b
  <2>5. x \in Int /\ y \in Int
    BY <1>2, <2>4
  <2>6. CASE isBid
    <3>1. b < a
      BY <2>4, <2>6 DEF Key
    <3>2. y < x
      BY <1>2, <2>4, <3>1, BlocksApart
    <3> QED BY <2>5, <2>6, <3>2 DEF Key
  <2>7. CASE ~isBid
    <3>1. a < b
      BY <2>4, <2>7 DEF Key
    <3>2. x < y
      BY <1>2, <2>4, <3>1, BlocksApart
    <3> QED BY <2>5, <2>7, <3>2 DEF Key
  <2> QED BY <2>6, <2>7
<1>9. seqs \in Seq(Seq(V)) /\ Len(seqs) = n
  <2>1. ASSUME NEW i \in 1 .. n
        PROVE  seqs[i] \in Seq(V)
    <3> HIDE DEF seqs, V, Of
    <3>1. \A x \in Of(i) : Key[x] \in Int
      BY <1>5, <1>7
    <3> QED BY <1>7, <3>1, WalkIsSeq DEF V
  <2> HIDE DEF V
  <2> QED BY <1>1, <2>1
<1>10. forEachIn(blocks) = FlattenSeq(seqs)
  BY <1>1, Zenon DEF forEachIn
<1> HIDE DEF seqs, Of, V, n
<1>11. PICK f : f[0] = <<>> /\ (\A i \in 1 .. n : f[i] = f[i - 1] \o seqs[i]) /\ FlattenSeq(seqs) = f[n]
  BY <1>9, FlattenSteps
<1> DEFINE Bad == {m \in Nat : m <= n /\ ~Walks(f[m], Until(m))}
<1>12. Bad = {}
  <2>1. SUFFICES ASSUME Bad # {}
                 PROVE  FALSE
    BY <2>1
  <2>2. PICK m \in Bad : \A k \in Bad : m <= k
    <3>1. Bad \in SUBSET Nat
      OBVIOUS
    <3> HIDE DEF Bad
    <3> QED BY <2>1, <3>1, Least
  <2>3. m \in Nat /\ m <= n /\ ~Walks(f[m], Until(m))
    OBVIOUS
  <2>4. m # 0
    <3>1. Until(0) = {}
      OBVIOUS
    <3> HIDE DEF Until
    <3> QED BY <1>6, <1>11, <2>3, <3>1
  <2>5. m \in 1 .. n /\ m - 1 \in Nat /\ m - 1 <= n /\ ~(m <= m - 1)
    BY <1>1, <2>3, <2>4
  <2>6. Walks(f[m - 1], Until(m - 1))
    <3> HIDE DEF Until
    <3> QED BY <2>2, <2>5
  <2>7. Until(m) = Until(m - 1) \cup Of(m)
    <3>1. \A i : i \in 1 .. m <=> i \in 1 .. m - 1 \/ i = m
      BY <2>3, <2>5
    <3>2. Of(m) \subseteq DOMAIN Book
      BY <1>7, <2>5
    <3> QED BY <3>1, <3>2, Zenon
  <2>8. \A x \in Until(m - 1), y \in Of(m) : Key[x] < Key[y]
    <3>1. ASSUME NEW x \in Until(m - 1), NEW y \in Of(m)
          PROVE  Key[x] < Key[y]
      <4>1. PICK i \in 1 .. m - 1 : x \in Of(i)
        OBVIOUS
      <4>2. i \in 1 .. n /\ i < m
        BY <1>1, <2>5
      <4> QED BY <1>8, <2>5, <4>1, <4>2
    <3> QED BY <3>1
  <2>9. \A x \in Until(m - 1) \cup Of(m) : Key[x] \in Int
    BY <1>5, <1>7, <2>5
  <2>10. Walks(seqs[m], Of(m)) /\ f[m] = f[m - 1] \o seqs[m]
    BY <1>7, <1>11, <2>5
  <2> HIDE DEF Until
  <2>11. Walks(f[m], Until(m))
    BY <2>6, <2>7, <2>8, <2>9, <2>10, WalksJoin
  <2> QED BY <2>3, <2>11
<1>13. Walks(f[n], Until(n))
  <2> HIDE DEF Until
  <2>1. n <= n
    BY <1>1
  <2> QED BY <1>1, <1>12, <2>1
<1>14. Until(n) = DOMAIN Book
  <2>1. ASSUME NEW t \in DOMAIN Book
        PROVE  \E i \in 1 .. n : t \in Of(i)
    <3>1. PICK b \in Used : t \in TicksOf(b)
      BY <1>5
    <3>2. PICK i \in 1 .. n : blocks[i] = b
      BY DEF n
    <3> QED BY <1>3, <3>1, <3>2 DEF Of
  <2> QED BY <2>1
<1> QED BY <1>10, <1>11, <1>13, <1>14

\* What a reader walks over: the whole side, in the order of the ids.
LEMMA WindowThenFallback ==
    ASSUME LayoutInv
    PROVE  forEachBest =
              forEachIn(IF isBid THEN Reverse(fallback \o [i \in 1 .. WINDOW |-> window[i - 1]])
                        ELSE [i \in 1 .. WINDOW |-> window[i - 1]] \o fallback)
<1> DEFINE low == fallbackFind(windowBase)
           high == fallbackFind(windowBase + WINDOW)
           n == Len(fallback)
           inWindow == [i \in 1 .. WINDOW |-> window[i - 1]]
           ascending == SubSeq(fallback, 1, low) \o inWindow \o SubSeq(fallback, high + 1, n)
<1>1. BlocksInv /\ isBid \in BOOLEAN
  BY DEF LayoutInv, BlocksInv
<1>2. /\ windowBase \in Int /\ window \in [0 .. WINDOW - 1 -> Used \cup {Null}] /\ fallback \in Seq(Used)
      /\ \A i, j \in 1 .. n : i < j => blockId[fallback[i]] < blockId[fallback[j]]
      /\ \A i \in 1 .. n : Worse(isBid, blockId[fallback[i]], windowBase)
  BY <1>1 DEF BlocksInv, Arranged
<1>3. WINDOW \in Nat \ {0} /\ windowBase + WINDOW \in Int /\ n \in Nat
  BY <1>2, SizeAssumption, LenProperties
<1>4. \A b \in Used : blockId[b] \in Int
  BY <1>1, UsedFacts
<1>5. \A i \in 1 .. n : blockId[fallback[i]] \in Int
  BY <1>2, <1>4, ElementOfSeq
<1>6. Splits(low, fallback, blockId, windowBase) /\ Splits(high, fallback, blockId, windowBase + WINDOW)
  BY <1>2, <1>3, <1>4, LowerBound DEF fallbackFind, Below
<1>7. inWindow \in Seq(Used \cup {Null}) /\ fallback \in Seq(Used \cup {Null})
  <2>1. \A i \in 1 .. WINDOW : inWindow[i] \in Used \cup {Null}
    BY <1>2, <1>3
  <2>2. inWindow \in Seq(Used \cup {Null})
    <3> HIDE DEF Used
    <3> QED BY <1>3, <2>1
  <2>3. fallback \in Seq(Used \cup {Null})
    BY <1>2, SeqMonotonic
  <2> QED BY <2>2, <2>3
<1>8. forEachBest = forEachIn(IF isBid THEN Reverse(ascending) ELSE ascending)
  BY Zenon DEF forEachBest
<1>9. low \in 0 .. n /\ high \in 0 .. n
  BY <1>6 DEF Splits
<1> HIDE DEF low, high, n, inWindow
<1>10. CASE isBid
  <2>1. low = n /\ high = n
    <3>1. \A i \in 1 .. n : blockId[fallback[i]] < windowBase /\ blockId[fallback[i]] < windowBase + WINDOW
      BY <1>2, <1>3, <1>5, <1>10 DEF Worse
    <3>2. \A i \in 1 .. n : i <= low /\ i <= high
      BY <1>6, <3>1 DEF Splits, n
    <3> QED BY <1>3, <1>9, <3>2
  <2>2. SubSeq(fallback, 1, low) = fallback /\ SubSeq(fallback, high + 1, n) = <<>>
    BY <1>2, <1>3, <2>1, SubSeqFull, SubSeqEmpty DEF n
  <2>3. ascending = fallback \o inWindow
    <3>1. ascending = (fallback \o inWindow) \o <<>>
      BY <2>2
    <3>2. fallback \o inWindow \in Seq(Used \cup {Null})
      BY <1>7, ConcatProperties
    <3> HIDE DEF ascending
    <3> QED BY <3>1, <3>2, ConcatEmptySeq
  <2> HIDE DEF ascending
  <2> QED BY <1>8, <1>10, <2>3 DEF inWindow
<1>11. CASE ~isBid
  <2>1. low = 0 /\ high = 0
    <3>1. \A i \in 1 .. n : ~(blockId[fallback[i]] < windowBase) /\ ~(blockId[fallback[i]] < windowBase + WINDOW)
      BY <1>2, <1>3, <1>5, <1>11 DEF Worse
    <3>2. \A i \in 1 .. n : ~(i <= low) /\ ~(i <= high)
      BY <1>6, <3>1 DEF Splits, n
    <3>3. low # 0 => low \in 1 .. n
      BY <1>3, <1>9
    <3>4. high # 0 => high \in 1 .. n
      BY <1>3, <1>9
    <3> QED BY <1>9, <3>2, <3>3, <3>4
  <2>2. SubSeq(fallback, 1, low) = <<>> /\ SubSeq(fallback, high + 1, n) = fallback
    BY <1>2, <1>3, <2>1, SubSeqFull, SubSeqEmpty DEF n
  <2>3. ascending = inWindow \o fallback
    <3>1. ascending = (<<>> \o inWindow) \o fallback
      BY <2>2
    <3>2. <<>> \o inWindow = inWindow
      BY <1>7, ConcatEmptySeq
    <3> HIDE DEF ascending
    <3> QED BY <3>1, <3>2
  <2> HIDE DEF ascending
  <2> QED BY <1>8, <1>11, <2>3 DEF inWindow
<1> QED BY <1>1, <1>10, <1>11

\* forEachBest is the walk over the whole map.
LEMMA BestIsWalk == LayoutInv => Walks(forEachBest, DOMAIN Book)
<1> SUFFICES ASSUME LayoutInv
             PROVE  Walks(forEachBest, DOMAIN Book)
  OBVIOUS
<1> DEFINE n == Len(fallback)
           inWindow == [i \in 1 .. WINDOW |-> window[i - 1]]
           B == Used \cup {Null}
<1>1. BlocksInv /\ isBid \in BOOLEAN
  BY DEF LayoutInv, BlocksInv
<1>2. /\ windowBase \in Int /\ window \in [0 .. WINDOW - 1 -> B] /\ fallback \in Seq(Used)
      /\ \A b \in Used : (\E o \in 0 .. WINDOW - 1 : window[o] = b) \/ (\E i \in 1 .. n : fallback[i] = b)
      /\ \A o \in 0 .. WINDOW - 1 : window[o] # Null => blockId[window[o]] = windowBase + o
      /\ \A i, j \in 1 .. n : i < j => blockId[fallback[i]] < blockId[fallback[j]]
      /\ \A i \in 1 .. n : Worse(isBid, blockId[fallback[i]], windowBase)
  BY <1>1 DEF BlocksInv, Arranged
<1>3. WINDOW \in Nat \ {0} /\ n \in Nat
  BY <1>2, SizeAssumption, LenProperties
<1>4. \A b \in Used : blockId[b] \in Int
  BY <1>1, UsedFacts
<1>5. \A i \in 1 .. n : fallback[i] \in Used /\ blockId[fallback[i]] \in Int
  BY <1>2, <1>4, ElementOfSeq
<1>6. fallback \in Seq(B)
  BY <1>2, SeqMonotonic
<1> HIDE DEF B
<1>7. /\ inWindow \in Seq(B) /\ Len(inWindow) = WINDOW
      /\ \A i \in 1 .. WINDOW : inWindow[i] # Null => blockId[inWindow[i]] = windowBase + (i - 1)
  <2>1. \A i \in 1 .. WINDOW : i - 1 \in 0 .. WINDOW - 1
    BY <1>3
  <2>2. \A i \in 1 .. WINDOW : inWindow[i] \in B
    BY <1>2, <2>1
  <2>3. inWindow \in Seq(B) /\ Len(inWindow) = WINDOW
    BY <1>3, <2>2
  <2>4. \A i \in 1 .. WINDOW : inWindow[i] # Null => blockId[inWindow[i]] = windowBase + (i - 1)
    BY <1>2, <2>1
  <2> QED BY <2>3, <2>4
<1>8. ASSUME NEW b \in Used
      PROVE  (\E i \in 1 .. WINDOW : inWindow[i] = b) \/ (\E i \in 1 .. n : fallback[i] = b)
  <2>1. CASE \E i \in 1 .. n : fallback[i] = b
    BY <2>1
  <2>2. CASE \E o \in 0 .. WINDOW - 1 : window[o] = b
    <3>1. PICK o \in 0 .. WINDOW - 1 : window[o] = b
      BY <2>2
    <3>2. o + 1 \in 1 .. WINDOW /\ (o + 1) - 1 = o
      BY <1>3
    <3>3. inWindow[o + 1] = b
      BY <3>1, <3>2
    <3> HIDE DEF inWindow
    <3> QED BY <3>2, <3>3
  <2> QED BY <1>2, <2>1, <2>2
<1> HIDE DEF inWindow, n
<1>9. ASSUME NEW i \in 1 .. n, NEW j \in 1 .. WINDOW, inWindow[j] # Null
      PROVE  /\ blockId[inWindow[j]] \in Int
             /\ isBid => blockId[fallback[i]] < blockId[inWindow[j]]
             /\ ~isBid => blockId[inWindow[j]] < blockId[fallback[i]]
  <2>1. blockId[inWindow[j]] = windowBase + (j - 1) /\ Worse(isBid, blockId[fallback[i]], windowBase)
    BY <1>2, <1>7, <1>9
  <2> QED BY <1>2, <1>3, <1>5, <2>1 DEF Worse
<1>10. ASSUME NEW i \in 1 .. WINDOW, NEW j \in 1 .. WINDOW, i < j, inWindow[i] # Null, inWindow[j] # Null
       PROVE  blockId[inWindow[i]] < blockId[inWindow[j]]
  BY <1>2, <1>3, <1>7, <1>10
<1>11. CASE ~isBid
  <2> DEFINE s == inWindow \o fallback
  <2>1. s \in Seq(B) /\ Len(s) = WINDOW + n
        /\ \A i \in 1 .. WINDOW + n : s[i] = IF i <= WINDOW THEN inWindow[i] ELSE fallback[i - WINDOW]
    BY <1>6, <1>7, ConcatProperties DEF n
  <2> HIDE DEF s
  <2>2. ASSUME NEW b \in Used
        PROVE  \E i \in 1 .. WINDOW + n : s[i] = b
    <3>1. CASE \E i \in 1 .. WINDOW : inWindow[i] = b
      <4>1. PICK i \in 1 .. WINDOW : inWindow[i] = b
        BY <3>1
      <4>2. i \in 1 .. WINDOW + n /\ i <= WINDOW
        BY <1>3
      <4> QED BY <2>1, <4>1, <4>2
    <3>2. CASE \E i \in 1 .. n : fallback[i] = b
      <4>1. PICK i \in 1 .. n : fallback[i] = b
        BY <3>2
      <4>2. i + WINDOW \in 1 .. WINDOW + n /\ ~(i + WINDOW <= WINDOW) /\ (i + WINDOW) - WINDOW = i
        BY <1>3
      <4>3. s[i + WINDOW] = b
        BY <2>1, <4>1, <4>2
      <4> QED BY <4>2, <4>3
    <3> QED BY <1>8, <3>1, <3>2
  <2>3. ASSUME NEW i \in 1 .. WINDOW + n, NEW j \in 1 .. WINDOW + n, i < j, s[i] # Null, s[j] # Null
        PROVE  blockId[s[i]] \in Int /\ blockId[s[j]] \in Int /\ blockId[s[i]] < blockId[s[j]]
    <3>1. s[i] \in Used /\ s[j] \in Used
      <4>1. s[i] \in B /\ s[j] \in B
        BY <2>1, ElementOfSeq
      <4> QED BY <2>3, <4>1 DEF B
    <3>2. CASE j <= WINDOW
      <4>1. i \in 1 .. WINDOW /\ j \in 1 .. WINDOW /\ i <= WINDOW
        BY <1>3, <2>3, <3>2
      <4>2. s[i] = inWindow[i] /\ s[j] = inWindow[j]
        BY <2>1, <3>2, <4>1
      <4> QED BY <1>4, <1>10, <2>3, <3>1, <4>1, <4>2
    <3>3. CASE i <= WINDOW /\ ~(j <= WINDOW)
      <4>1. i \in 1 .. WINDOW /\ j - WINDOW \in 1 .. n
        BY <1>3, <3>3
      <4>2. s[i] = inWindow[i] /\ s[j] = fallback[j - WINDOW]
        BY <2>1, <3>3
      <4> QED BY <1>4, <1>9, <1>11, <2>3, <3>1, <4>1, <4>2
    <3>4. CASE ~(i <= WINDOW)
      <4>1. i - WINDOW \in 1 .. n /\ j - WINDOW \in 1 .. n /\ i - WINDOW < j - WINDOW /\ ~(j <= WINDOW)
        BY <1>3, <2>3, <3>4
      <4>2. s[i] = fallback[i - WINDOW] /\ s[j] = fallback[j - WINDOW]
        BY <2>1, <3>4, <4>1
      <4> QED BY <1>2, <1>4, <3>1, <4>1, <4>2
    <3> QED BY <1>3, <3>2, <3>3, <3>4
  <2>4. ASSUME NEW i \in 1 .. WINDOW + n, NEW j \in 1 .. WINDOW + n, i < j, s[i] # Null, s[j] # Null
        PROVE  Key[blockId[s[i]]] < Key[blockId[s[j]]]
    BY <1>11, <2>3, <2>4 DEF Key
  <2>5. Walks(forEachIn(s), DOMAIN Book)
    BY <2>1, <2>2, <2>4, WalkBlocks DEF B
  <2>6. forEachBest = forEachIn(s)
    BY <1>11, WindowThenFallback DEF s, inWindow
  <2> QED BY <2>5, <2>6
<1>12. CASE isBid
  <2> DEFINE s == fallback \o inWindow
             N == n + WINDOW
             r == Reverse(s)
  <2>1. s \in Seq(B) /\ Len(s) = N
        /\ \A i \in 1 .. N : s[i] = IF i <= n THEN fallback[i] ELSE inWindow[i - n]
    BY <1>6, <1>7, ConcatProperties DEF n
  <2>2. N \in Nat /\ N = n + WINDOW
    BY <1>3
  <2> HIDE DEF s, N
  <2>3. ASSUME NEW b \in Used
        PROVE  \E i \in 1 .. N : s[i] = b
    <3>1. CASE \E i \in 1 .. n : fallback[i] = b
      <4>1. PICK i \in 1 .. n : fallback[i] = b
        BY <3>1
      <4>2. i \in 1 .. N /\ i <= n
        BY <1>3, <2>2
      <4> QED BY <2>1, <4>1, <4>2
    <3>2. CASE \E i \in 1 .. WINDOW : inWindow[i] = b
      <4>1. PICK i \in 1 .. WINDOW : inWindow[i] = b
        BY <3>2
      <4>2. i + n \in 1 .. N /\ ~(i + n <= n) /\ (i + n) - n = i
        BY <1>3, <2>2
      <4>3. s[i + n] = b
        BY <2>1, <4>1, <4>2
      <4> QED BY <4>2, <4>3
    <3> QED BY <1>8, <3>1, <3>2
  <2>4. ASSUME NEW i \in 1 .. N, NEW j \in 1 .. N, i < j, s[i] # Null, s[j] # Null
        PROVE  blockId[s[i]] \in Int /\ blockId[s[j]] \in Int /\ blockId[s[i]] < blockId[s[j]]
    <3>1. s[i] \in Used /\ s[j] \in Used
      <4>1. s[i] \in B /\ s[j] \in B
        BY <2>1, ElementOfSeq
      <4> QED BY <2>4, <4>1 DEF B
    <3>2. CASE j <= n
      <4>1. i \in 1 .. n /\ j \in 1 .. n /\ i <= n
        BY <1>3, <2>4, <3>2
      <4>2. s[i] = fallback[i] /\ s[j] = fallback[j]
        BY <2>1, <3>2, <4>1
      <4> QED BY <1>2, <1>4, <2>4, <3>1, <4>1, <4>2
    <3>3. CASE i <= n /\ ~(j <= n)
      <4>1. i \in 1 .. n /\ j - n \in 1 .. WINDOW
        BY <1>3, <2>2, <3>3
      <4>2. s[i] = fallback[i] /\ s[j] = inWindow[j - n]
        BY <2>1, <3>3
      <4> QED BY <1>4, <1>9, <1>12, <2>4, <3>1, <4>1, <4>2
    <3>4. CASE ~(i <= n)
      <4>1. i - n \in 1 .. WINDOW /\ j - n \in 1 .. WINDOW /\ i - n < j - n /\ ~(j <= n)
        BY <1>3, <2>2, <2>4, <3>4
      <4>2. s[i] = inWindow[i - n] /\ s[j] = inWindow[j - n]
        BY <2>1, <3>4, <4>1
      <4> QED BY <1>4, <1>10, <2>4, <3>1, <4>1, <4>2
    <3> QED BY <1>3, <2>2, <3>2, <3>3, <3>4
  <2>5. r = [i \in 1 .. N |-> s[(N - i) + 1]]
    BY <2>1 DEF Reverse
  <2> HIDE DEF r
  <2>6. \A i \in 1 .. N : (N - i) + 1 \in 1 .. N /\ r[i] = s[(N - i) + 1]
    BY <2>2, <2>5
  <2>7. r \in Seq(B) /\ Len(r) = N
    <3>1. \A i \in 1 .. N : s[i] \in B
      BY <2>1, ElementOfSeq
    <3>2. \A i \in 1 .. N : r[i] \in B
      BY <2>6, <3>1
    <3>3. r \in [1 .. N -> B]
      BY <2>5, <3>2
    <3> QED BY <2>2, <3>3
  <2>8. ASSUME NEW b \in Used
        PROVE  \E i \in 1 .. N : r[i] = b
    <3>1. PICK i \in 1 .. N : s[i] = b
      BY <2>3
    <3>2. (N - i) + 1 \in 1 .. N /\ (N - ((N - i) + 1)) + 1 = i
      BY <2>2
    <3>3. r[(N - i) + 1] = b
      BY <2>6, <3>1, <3>2
    <3> QED BY <3>2, <3>3
  <2>9. ASSUME NEW i \in 1 .. N, NEW j \in 1 .. N, i < j, r[i] # Null, r[j] # Null
        PROVE  Key[blockId[r[i]]] < Key[blockId[r[j]]]
    <3> DEFINE a == (N - i) + 1
               b == (N - j) + 1
    <3>1. a \in 1 .. N /\ b \in 1 .. N /\ b < a /\ r[i] = s[a] /\ r[j] = s[b]
      BY <2>2, <2>6, <2>9
    <3> HIDE DEF a, b
    <3>2. blockId[s[a]] \in Int /\ blockId[s[b]] \in Int /\ blockId[s[b]] < blockId[s[a]]
      BY <2>4, <2>9, <3>1
    <3>3. Key[blockId[s[a]]] < Key[blockId[s[b]]]
      BY <1>12, <3>2 DEF Key
    <3> QED BY <3>1, <3>3
  <2>10. Walks(forEachIn(r), DOMAIN Book)
    BY <2>7, <2>8, <2>9, WalkBlocks DEF B
  <2>11. forEachBest = forEachIn(r)
    BY <1>12, WindowThenFallback DEF r, s, inWindow
  <2> QED BY <2>10, <2>11
<1> QED BY <1>1, <1>11, <1>12

\* Such a walk is the one VisitsBestFirst names, as there is only one.
LEMMA WalkIsExact == LayoutInv => VisitsBestFirst
<1> SUFFICES ASSUME LayoutInv
             PROVE  VisitsBestFirst
  OBVIOUS
<1> DEFINE T == DOMAIN Book
           order == BestFirst(T)
<1>1. isBid \in BOOLEAN /\ BlocksInv /\ SlotsInv /\ TICKS \in Nat \ {0}
  BY SizeAssumption DEF LayoutInv, BlocksInv
<1>2. T \in SUBSET Int
  <2>1. ASSUME NEW t \in T
        PROVE  t \in Int
    <3>1. PICK b, o : Has(b, o) /\ t = TickAt(b, o)
      BY BookIs DEF IsBook
    <3>2. b \in Blocks /\ blockId[b] \in Int /\ o \in 0 .. TICKS - 1
      BY <1>1, <3>1, UsedFacts, SlotsFacts DEF Has
    <3> QED BY <1>1, <3>1, <3>2 DEF TickAt
  <2> QED BY <2>1
<1>3. Walks(forEachBest, T)
  BY BestIsWalk
<1> HIDE DEF T
<1>4. IsFiniteSet(T)
  BY <1>3 DEF Walks
<1>5. PICK s : Lists(s, T, Key) /\ forEachBest = [i \in 1 .. Cardinality(T) |-> Book[s[i]]]
  BY <1>3 DEF Walks
<1>6. Lists(order, T, Key) /\ DOMAIN order = 1 .. Cardinality(T)
  BY <1>1, <1>2, <1>4, BestFirstLists
<1>7. \A t \in T : Key[t] \in Int
  BY <1>1, <1>2 DEF Key
<1>8. s = order
  BY <1>4, <1>5, <1>6, <1>7, ListIsUnique
<1>9. forEachBest = [i \in DOMAIN order |-> Book[order[i]]]
  BY <1>5, <1>6, <1>8
<1> QED BY <1>9, Zenon DEF VisitsBestFirst, T

(***************************************************************************)
(* For any sizes and after any history, forEachBest visits every level     *)
(* once and best first, and find() reaches each level and nothing else.    *)
(***************************************************************************)
THEOREM BookReadsAreExact == Spec => []ReadsAreExact
<1>1. Spec => []LayoutInv
  BY InitLayout, NextLayout, PTL DEF Spec
<1>2. LayoutInv => FindsItsLevel
  BY ExistsIs, Zenon DEF FindsItsLevel, find
<1>3. LayoutInv => ReadsAreExact
  BY <1>2, WalkIsExact DEF ReadsAreExact
<1> QED BY <1>1, <1>3, PTL

-----------------------------------------------------------------------------
(* The side implements the map *)

LEMMA NoFunction ==
    ASSUME NEW f, f = [t \in DOMAIN f |-> f[t]], DOMAIN f = {}
    PROVE  f = <<>>
<1>1. f \in [{} -> {}]
  OBVIOUS
<1>2. <<>> \in [{} -> {}]
  OBVIOUS
<1> QED BY <1>1, <1>2

\* A stack is empty exactly when all that it could hold is in use.
LEMMA AllInUse ==
    ASSUME NEW n \in Nat, NEW s \in Seq(0 .. n - 1)
    PROVE  /\ IsFiniteSet((0 .. n - 1) \ Range(s))
           /\ Cardinality((0 .. n - 1) \ Range(s)) < n <=> s # <<>>
<1> DEFINE All == 0 .. n - 1
           L == All \ Range(s)
<1>1. IsFiniteSet(All) /\ Cardinality(All) = IF 0 > n - 1 THEN 0 ELSE (n - 1) - 0 + 1
  <2>1. n - 1 \in Int
    OBVIOUS
  <2> QED BY <2>1, FS_Interval
<1>2. Cardinality(All) = n
  BY <1>1
<1>3. L \in SUBSET All /\ Range(s) \subseteq All
  BY RangeOfSeq
<1>4. s = <<>> <=> Range(s) = {}
  <2>1. s # <<>> => Len(s) \in Nat \ {0} /\ DOMAIN s = 1 .. Len(s)
    BY EmptySeq, LenProperties
  <2>2. s # <<>> => 1 \in DOMAIN s
    BY <2>1
  <2>3. s = <<>> => DOMAIN s = {}
    OBVIOUS
  <2> QED BY <2>2, <2>3 DEF Range
<1>5. L = All <=> Range(s) = {}
  BY <1>3
<1> HIDE DEF L, All
<1>6. IsFiniteSet(L) /\ Cardinality(L) <= n /\ (Cardinality(L) = n => L = All) /\ Cardinality(L) \in Nat
  BY <1>1, <1>2, <1>3, FS_Subset, FS_CardinalityType
<1>7. Cardinality(L) < n <=> s # <<>>
  BY <1>2, <1>4, <1>5, <1>6
<1> QED BY <1>6, <1>7 DEF L, All

\* The levels of the map are as many as the slots in use.
LEMMA LevelCount ==
    ASSUME LayoutInv
    PROVE  Cardinality(DOMAIN Book) < MAX_LEVELS <=> freeSlots # <<>>
<1> DEFINE L == Slots \ Range(freeSlots)
           At(s, t) == \E b, o : Has(b, o) /\ t = TickAt(b, o) /\ slots[b][o] = s
           f == [s \in L |-> CHOOSE t \in DOMAIN Book : At(s, t)]
<1>1. SlotsInv /\ IsBook(Book)
  BY BookIs DEF LayoutInv
<1>2. MAX_LEVELS \in Nat /\ freeSlots \in Seq(Slots)
  BY <1>1, SizeAssumption DEF SlotsInv
<1>3. IsFiniteSet(L) /\ (Cardinality(L) < MAX_LEVELS <=> freeSlots # <<>>)
  BY <1>2, AllInUse DEF Slots
<1>4. ASSUME NEW b, NEW o, Has(b, o)
      PROVE  /\ b \in Used /\ b \in Blocks /\ o \in DOMAIN slots[b] /\ o \in 0 .. TICKS - 1
             /\ slots[b][o] \in L /\ TickAt(b, o) \in DOMAIN Book
  <2>1. b \in Used /\ b \in Blocks /\ o \in DOMAIN slots[b]
    BY <1>4, UsedInBlocks DEF Has
  <2>2. o \in 0 .. TICKS - 1 /\ slots[b][o] \in L
    BY <1>1, <2>1, SlotsFacts
  <2>3. TickAt(b, o) \in DOMAIN Book
    BY <1>1, <1>4 DEF IsBook
  <2> QED BY <2>1, <2>2, <2>3
<1>5. ASSUME NEW s \in L
      PROVE  \E t \in DOMAIN Book : At(s, t)
  <2>1. PICK b \in Blocks : \E o \in DOMAIN slots[b] : slots[b][o] = s
    BY <1>1 DEF SlotsInv
  <2>2. PICK o \in DOMAIN slots[b] : slots[b][o] = s
    BY <2>1
  <2>3. Has(b, o)
    BY <2>2 DEF Has, LayoutInv
  <2>4. TickAt(b, o) \in DOMAIN Book /\ At(s, TickAt(b, o))
    BY <1>4, <2>2, <2>3
  <2> QED BY <2>4
<1>6. ASSUME NEW s, NEW r, NEW t, At(s, t), At(r, t)
      PROVE  s = r
  <2>1. PICK b, o : Has(b, o) /\ t = TickAt(b, o) /\ slots[b][o] = s
    BY <1>6
  <2>2. PICK c, p : Has(c, p) /\ t = TickAt(c, p) /\ slots[c][p] = r
    BY <1>6
  <2>3. b \in Used /\ o \in 0 .. TICKS - 1 /\ c \in Used /\ p \in 0 .. TICKS - 1 /\ TickAt(b, o) = TickAt(c, p)
    BY <1>4, <2>1, <2>2
  <2>4. b = c /\ o = p
    BY <2>3, TicksDiffer
  <2> QED BY <2>1, <2>2, <2>4
<1>7. ASSUME NEW s, NEW t, NEW u, At(s, t), At(s, u)
      PROVE  t = u
  <2>1. PICK b, o : Has(b, o) /\ t = TickAt(b, o) /\ slots[b][o] = s
    BY <1>7
  <2>2. PICK c, p : Has(c, p) /\ u = TickAt(c, p) /\ slots[c][p] = s
    BY <1>7
  <2>3. b = c /\ o = p
    BY <1>1, <1>4, <2>1, <2>2 DEF SlotsInv
  <2> QED BY <2>1, <2>2, <2>3
<1>8. ASSUME NEW t \in DOMAIN Book
      PROVE  \E s \in L : At(s, t)
  <2>1. PICK b, o : Has(b, o) /\ t = TickAt(b, o)
    BY <1>1 DEF IsBook
  <2>2. slots[b][o] \in L /\ At(slots[b][o], t)
    BY <1>4, <2>1
  <2> QED BY <2>2
<1> HIDE DEF At, L
<1>9. ASSUME NEW s \in L
      PROVE  f[s] \in DOMAIN Book /\ At(s, f[s])
  <2>1. f[s] = CHOOSE t \in DOMAIN Book : At(s, t)
    OBVIOUS
  <2> QED BY <1>5, <2>1
<1>10. f \in [L -> DOMAIN Book]
  BY <1>9
<1> HIDE DEF f
<1>11. \A s, r \in L : f[s] = f[r] => s = r
  BY <1>6, <1>9
<1>12. \A t \in DOMAIN Book : \E s \in L : f[s] = t
  BY <1>7, <1>8, <1>9
<1>13. Cardinality(DOMAIN Book) = Cardinality(L)
  BY <1>3, <1>10, <1>11, <1>12, Matched, Zenon
<1> QED BY <1>3, <1>13

\* The blocks of the map are the blocks in use.
LEMMA BlockCount ==
    ASSUME LayoutInv, NEW used, used = {t \div TICKS : t \in DOMAIN Book}
    PROVE  /\ Cardinality(used) < MAX_BLOCKS <=> freeBlocks # <<>>
           /\ \A id : id \in used <=> \E b \in Used : blockId[b] = id
<1>1. BlocksInv /\ IsBook(Book) /\ SlotsInv /\ \A b \in Blocks : b \in Used <=> DOMAIN slots[b] # {}
  BY BookIs DEF LayoutInv
<1>2. MAX_BLOCKS \in Nat /\ freeBlocks \in Seq(Blocks) /\ TICKS \in Nat \ {0}
  BY <1>1, SizeAssumption DEF BlocksInv
<1>3. IsFiniteSet(Used) /\ (Cardinality(Used) < MAX_BLOCKS <=> freeBlocks # <<>>)
  BY <1>2, AllInUse DEF Blocks, Used
<1>4. ASSUME NEW b, NEW o, Has(b, o)
      PROVE  b \in Used /\ TickAt(b, o) \div TICKS = blockId[b] /\ TickAt(b, o) \in DOMAIN Book
  <2>1. b \in Used /\ b \in Blocks /\ o \in DOMAIN slots[b] /\ blockId[b] \in Int
    BY <1>1, <1>4, UsedInBlocks, UsedFacts DEF Has
  <2>2. o \in 0 .. TICKS - 1
    BY <1>1, <2>1, SlotsFacts
  <2> DEFINE x == blockId[b]
  <2>3. x \in Int
    BY <2>1
  <2> HIDE DEF x
  <2>4. (x * TICKS + o) \div TICKS = x
    BY <1>2, <2>2, <2>3, QuotientOf
  <2>5. TickAt(b, o) \in DOMAIN Book
    BY <1>1, <1>4 DEF IsBook
  <2> QED BY <2>1, <2>4, <2>5 DEF x, TickAt
<1>5. ASSUME NEW b \in Used
      PROVE  blockId[b] \in used
  <2>1. PICK o : Has(b, o)
    BY <1>1, UsedInBlocks DEF Has
  <2> QED BY <1>4, <2>1
<1>6. ASSUME NEW id \in used
      PROVE  \E b \in Used : blockId[b] = id
  <2>1. PICK t \in DOMAIN Book : id = t \div TICKS
    OBVIOUS
  <2>2. PICK b, o : Has(b, o) /\ t = TickAt(b, o)
    BY <1>1 DEF IsBook
  <2> QED BY <1>4, <2>1, <2>2
<1>7. \A b, c \in Used : blockId[b] = blockId[c] => b = c
  <2>1. Null \notin Used /\ \A b \in Used : blockId[b] \in Int
    BY <1>1, UsedFacts
  <2> QED BY <1>1, <2>1, IdsDiffer DEF BlocksInv
<1>8. Cardinality(used) = Cardinality(Used)
  <2>1. blockId \in [Used -> Int]
    BY <1>1 DEF BlocksInv
  <2>2. blockId \in [Used -> used]
    BY <1>5, <2>1
  <2> QED BY <1>3, <1>6, <1>7, <2>2, Matched, Zenon
<1> QED BY <1>3, <1>5, <1>6, <1>8

\* The map counts as the side does.
LEMMA SameCount ==
    ASSUME NEW S
    PROVE  Map!Cardinality(S) = Cardinality(S)
  BY Zenon DEF Map!Cardinality, Cardinality

\* A new level is refused exactly when the map has no room.
LEMMA RoomIs ==
    ASSUME LayoutInv, NEW price \in Prices
    PROVE  /\ Map!Tick(price) = toTick(price)
           /\ Map!Room(toTick(price)) <=>
                 freeSlots # <<>> /\ (findBlock(Id(price)) # Null \/ freeBlocks # <<>>)
<1> DEFINE used == {t \div TICKS : t \in DOMAIN Book}
<1>1. Cardinality(DOMAIN Book) < MAX_LEVELS <=> freeSlots # <<>>
  BY LevelCount
<1>2. used = {t \div TICKS : t \in DOMAIN Book}
  OBVIOUS
<1>3. Map!Room(toTick(price)) <=>
          /\ Cardinality(DOMAIN Book) < MAX_LEVELS
          /\ toTick(price) \div TICKS \in used \/ Cardinality(used) < MAX_BLOCKS
  BY SameCount, Zenon DEF Map!Room
<1> HIDE DEF used
<1>4. /\ Cardinality(used) < MAX_BLOCKS <=> freeBlocks # <<>>
      /\ \A id : id \in used <=> \E b \in Used : blockId[b] = id
  BY <1>2, BlockCount
<1>5. Id(price) \in used <=> findBlock(Id(price)) # Null
  BY <1>4, LevelFacts
<1>6. toTick(price) \div TICKS = Id(price)
  BY DEF Id
<1>7. Map!Tick(price) = toTick(price)
  BY DEF Map!Tick, toTick
<1> QED BY <1>1, <1>3, <1>4, <1>5, <1>6, <1>7

\* What the steps do to the map.
LEMMA RemovesFromBook ==
    ASSUME IsBook(Book), IsBook(Book)', NEW level, NEW off, Has(level, off), Removes(level, off),
           \A b, o : Has(b, o) /\ TickAt(b, o) = TickAt(level, off) => b = level /\ o = off
    PROVE  Book' = Restrict(Book, DOMAIN Book \ {TickAt(level, off)})
<1> DEFINE tick == TickAt(level, off)
           old == Book
           new == Book'
<1>1. /\ old = [t \in DOMAIN old |-> old[t]]
      /\ \A t : t \in DOMAIN old <=> \E b, o : Has(b, o) /\ t = TickAt(b, o)
      /\ \A b, o : Has(b, o) => old[TickAt(b, o)] = entries[slots[b][o]]
  BY Zenon DEF IsBook
<1>2. /\ new = [t \in DOMAIN new |-> new[t]]
      /\ \A t : t \in DOMAIN new <=> \E b, o : Has(b, o)' /\ t = TickAt(b, o)'
      /\ \A b, o : Has(b, o)' => new[TickAt(b, o)'] = entries'[slots'[b][o]]
  BY Zenon DEF IsBook
<1>3. ASSUME NEW b, NEW o, Has(b, o)'
      PROVE  /\ Has(b, o) /\ ~(b = level /\ o = off) /\ TickAt(b, o)' = TickAt(b, o)
             /\ entries'[slots'[b][o]] = entries[slots[b][o]]
  BY <1>3 DEF Removes, Stays, TickAt
<1>4. ASSUME NEW b, NEW o, Has(b, o), ~(b = level /\ o = off)
      PROVE  Has(b, o)'
  BY <1>4 DEF Removes
<1>5. \A b, o : Has(b, o) /\ TickAt(b, o) = tick => b = level /\ o = off
  OBVIOUS
<1> HIDE DEF tick, old, new
<1>6. ASSUME NEW t \in DOMAIN new
      PROVE  t \in DOMAIN old /\ t # tick /\ new[t] = old[t]
  <2>1. PICK b, o : Has(b, o)' /\ t = TickAt(b, o)'
    BY <1>2
  <2>2. Has(b, o) /\ ~(b = level /\ o = off) /\ t = TickAt(b, o) /\ new[t] = entries[slots[b][o]]
    BY <1>2, <1>3, <2>1
  <2> QED BY <1>1, <1>5, <2>2
<1>7. ASSUME NEW t \in DOMAIN old, t # tick
      PROVE  t \in DOMAIN new
  <2>1. PICK b, o : Has(b, o) /\ t = TickAt(b, o)
    BY <1>1
  <2>2. ~(b = level /\ o = off)
    BY <1>7, <2>1 DEF tick
  <2>3. Has(b, o)' /\ t = TickAt(b, o)'
    BY <1>3, <1>4, <2>1, <2>2
  <2> QED BY <1>2, <2>3
<1>8. DOMAIN new = DOMAIN old \ {tick}
  BY <1>6, <1>7
<1>9. new = [t \in DOMAIN old \ {tick} |-> old[t]]
  BY <1>2, <1>6, <1>8
<1> QED BY <1>9 DEF Restrict, new, old, tick

LEMMA SetsInBook ==
    ASSUME IsBook(Book), IsBook(Book)', NEW level, NEW off, NEW tick, tick = TickAt(level, off), NEW entry,
           Has(level, off), Sets(level, off, entry),
           \A b, o : Has(b, o) /\ TickAt(b, o) = TickAt(level, off) => b = level /\ o = off
    PROVE  Book' = With(Book, tick, entry)
<1> DEFINE old == Book
           new == Book'
<1>1. /\ old = [t \in DOMAIN old |-> old[t]]
      /\ \A t : t \in DOMAIN old <=> \E b, o : Has(b, o) /\ t = TickAt(b, o)
      /\ \A b, o : Has(b, o) => old[TickAt(b, o)] = entries[slots[b][o]]
  BY Zenon DEF IsBook
<1>2. /\ new = [t \in DOMAIN new |-> new[t]]
      /\ \A t : t \in DOMAIN new <=> \E b, o : Has(b, o)' /\ t = TickAt(b, o)'
      /\ \A b, o : Has(b, o)' => new[TickAt(b, o)'] = entries'[slots'[b][o]]
  BY Zenon DEF IsBook
<1>3. \A b, o : (Has(b, o)' <=> Has(b, o)) /\ TickAt(b, o)' = TickAt(b, o)
  BY DEF Sets, TickAt
<1>4. \A b, o : Has(b, o) /\ ~(b = level /\ o = off) => entries'[slots'[b][o]] = entries[slots[b][o]]
  BY DEF Sets, Stays
<1>5. entries'[slots'[level][off]] = entry
  BY DEF Sets
<1> HIDE DEF old, new
<1>6. DOMAIN new = DOMAIN old /\ tick \in DOMAIN old
  <2>1. \A t : t \in DOMAIN new <=> t \in DOMAIN old
    BY <1>1, <1>2, <1>3
  <2> QED BY <1>1, <2>1, Zenon
<1>7. ASSUME NEW t \in DOMAIN new
      PROVE  new[t] = IF t = tick THEN entry ELSE old[t]
  <2>1. PICK b, o : Has(b, o) /\ t = TickAt(b, o)
    BY <1>1, <1>6
  <2>2. new[t] = entries'[slots'[b][o]]
    BY <1>2, <1>3, <2>1
  <2>3. CASE b = level /\ o = off
    BY <1>5, <2>1, <2>2, <2>3
  <2>4. CASE ~(b = level /\ o = off)
    <3>1. t # tick /\ new[t] = entries[slots[b][o]] /\ old[t] = entries[slots[b][o]]
      BY <1>1, <1>4, <2>1, <2>2, <2>4
    <3> QED BY <3>1
  <2> QED BY <2>3, <2>4
<1>8. DOMAIN new = DOMAIN old \cup {tick}
  BY <1>6
<1>9. new = [t \in DOMAIN old \cup {tick} |-> IF t = tick THEN entry ELSE old[t]]
  BY <1>2, <1>7, <1>8
<1> QED BY <1>9 DEF new, old, With

LEMMA AddsToBook ==
    ASSUME IsBook(Book), IsBook(Book)', NEW level, NEW off, NEW tick, NEW entry, tick \notin DOMAIN Book,
           Adds(level, off, tick, entry)
    PROVE  Book' = With(Book, tick, entry)
<1> DEFINE old == Book
           new == Book'
<1>1. /\ old = [t \in DOMAIN old |-> old[t]]
      /\ \A t : t \in DOMAIN old <=> \E b, o : Has(b, o) /\ t = TickAt(b, o)
      /\ \A b, o : Has(b, o) => old[TickAt(b, o)] = entries[slots[b][o]]
      /\ tick \notin DOMAIN old
  BY Zenon DEF IsBook
<1>2. /\ new = [t \in DOMAIN new |-> new[t]]
      /\ \A t : t \in DOMAIN new <=> \E b, o : Has(b, o)' /\ t = TickAt(b, o)'
      /\ \A b, o : Has(b, o)' => new[TickAt(b, o)'] = entries'[slots'[b][o]]
  BY Zenon DEF IsBook
<1>3. \A b, o : Has(b, o) => /\ Has(b, o)' /\ TickAt(b, o)' = TickAt(b, o)
                             /\ entries'[slots'[b][o]] = entries[slots[b][o]]
  BY DEF Adds, Stays, TickAt
<1>4. /\ \A b, o : Has(b, o)' => Has(b, o) \/ (b = level /\ o = off)
      /\ Has(level, off)' /\ TickAt(level, off)' = tick /\ entries'[slots'[level][off]] = entry
  BY DEF Adds, TickAt
<1> HIDE DEF old, new
<1>5. ASSUME NEW t \in DOMAIN new
      PROVE  t \in DOMAIN old \cup {tick} /\ new[t] = IF t = tick THEN entry ELSE old[t]
  <2>1. PICK b, o : Has(b, o)' /\ t = TickAt(b, o)'
    BY <1>2
  <2>2. new[t] = entries'[slots'[b][o]]
    BY <1>2, <2>1
  <2>3. CASE b = level /\ o = off
    BY <1>4, <2>1, <2>2, <2>3
  <2>4. CASE Has(b, o)
    <3>1. t = TickAt(b, o) /\ new[t] = entries[slots[b][o]]
      BY <1>3, <2>1, <2>2, <2>4
    <3>2. t \in DOMAIN old /\ old[t] = entries[slots[b][o]]
      BY <1>1, <2>4, <3>1
    <3> QED BY <1>1, <3>1, <3>2
  <2> QED BY <1>4, <2>1, <2>3, <2>4
<1>6. ASSUME NEW t \in DOMAIN old \cup {tick}
      PROVE  t \in DOMAIN new
  <2>1. CASE t = tick
    BY <1>2, <1>4, <2>1
  <2>2. CASE t \in DOMAIN old
    <3>1. PICK b, o : Has(b, o) /\ t = TickAt(b, o)
      BY <1>1, <2>2
    <3> QED BY <1>2, <1>3, <3>1
  <2> QED BY <2>1, <2>2
<1>7. DOMAIN new = DOMAIN old \cup {tick}
  BY <1>5, <1>6
<1>8. new = [t \in DOMAIN old \cup {tick} |-> IF t = tick THEN entry ELSE old[t]]
  BY <1>2, <1>5, <1>7
<1> QED BY <1>8 DEF new, old, With

\* No other level is at the tick of a level.
LEMMA OnlyThere ==
    ASSUME LayoutInv, NEW level, NEW off, Has(level, off)
    PROVE  \A b, o : Has(b, o) /\ TickAt(b, o) = TickAt(level, off) => b = level /\ o = off
<1>1. SlotsInv
  BY DEF LayoutInv
<1>2. ASSUME NEW b, NEW o, Has(b, o)
      PROVE  b \in Used /\ o \in 0 .. TICKS - 1
  <2>1. b \in Used /\ b \in Blocks /\ o \in DOMAIN slots[b]
    BY <1>2, UsedInBlocks DEF Has
  <2> QED BY <1>1, <2>1, SlotsFacts
<1>3. ASSUME NEW b, NEW o, Has(b, o), TickAt(b, o) = TickAt(level, off)
      PROVE  b = level /\ o = off
  BY <1>2, <1>3, TicksDiffer
<1> QED BY <1>3

\* Nothing happens to the map.
LEMMA BookStays ==
    ASSUME UNCHANGED <<isBid, place_, blockId, freeBlocks, levels>>
    PROVE  Book' = Book
  BY DEF Book, Used, Blocks, levels

LEMMA RemoveMaps ==
    ASSUME LayoutInv, NEW price \in Prices, RemoveLevel(price)
    PROVE  Map!Remove(price)
<1> DEFINE level == findBlock(Id(price))
           off == Offset(price)
<1>1. LayoutInv' /\ Removes(level, off)
  BY RemoveKeeps
<1>2. Exists(price) /\ accepted' = TRUE
  BY DEF RemoveLevel
<1>3. IsBook(Book) /\ IsBook(Book)'
  BY <1>1, BookIs, BookIsNext
<1>4. Has(level, off) /\ TickAt(level, off) = toTick(price)
  <2>1. level \in Used /\ off \in DOMAIN slots[level] /\ Null \notin Used
    BY <1>2, LevelFacts
  <2>2. level # Null
    BY <2>1
  <2> QED BY <2>1, <2>2, ExistsIs DEF Has
<1> HIDE DEF level, off
<1>5. \A b, o : Has(b, o) /\ TickAt(b, o) = TickAt(level, off) => b = level /\ o = off
  BY <1>4, OnlyThere
<1>6. Book' = Restrict(Book, DOMAIN Book \ {TickAt(level, off)})
  BY <1>1, <1>3, <1>4, <1>5, RemovesFromBook
<1>7. Map!Tick(price) = toTick(price)
  BY RoomIs
<1> QED BY <1>2, <1>4, <1>6, <1>7 DEF Map!Remove, Map!Restrict, Restrict

LEMMA SetMaps ==
    ASSUME LayoutInv, NEW price \in Prices, NEW volume \in Volumes \ {0}, SetLevel(price, volume)
    PROVE  Map!Set(price, volume)
<1> DEFINE level == findBlock(Id(price))
           off == Offset(price)
           tick == toTick(price)
           entry == Entry(price, volume)
<1>1. LayoutInv' /\ Sets(level, off, entry)
  BY SetKeeps
<1>2. Exists(price) /\ accepted' = TRUE
  BY DEF SetLevel
<1>3. IsBook(Book) /\ IsBook(Book)'
  BY <1>1, BookIs, BookIsNext
<1>4. Has(level, off) /\ tick = TickAt(level, off) /\ tick \in DOMAIN Book
  <2>1. level \in Used /\ off \in DOMAIN slots[level] /\ Null \notin Used
    BY <1>2, LevelFacts
  <2>2. level # Null
    BY <2>1
  <2> QED BY <1>2, <2>1, <2>2, ExistsIs DEF Has
<1>5. Map!Tick(price) = tick
  BY RoomIs
<1> HIDE DEF level, off, tick, entry
<1>6. \A b, o : Has(b, o) /\ TickAt(b, o) = TickAt(level, off) => b = level /\ o = off
  BY <1>4, OnlyThere
<1>7. Book' = With(Book, tick, entry)
  BY <1>1, <1>3, <1>4, <1>6, SetsInBook
<1> QED BY <1>2, <1>4, <1>5, <1>7 DEF Map!Set, entry, Entry, With

LEMMA AddMaps ==
    ASSUME LayoutInv, LayoutInv', NEW price \in Prices, NEW volume \in Volumes \ {0},
           NEW level, Adds(level, Offset(price), toTick(price), Entry(price, volume)),
           ~Exists(price), accepted' = TRUE,
           freeSlots # <<>>, findBlock(Id(price)) # Null \/ freeBlocks # <<>>
    PROVE  Map!Set(price, volume)
<1> DEFINE tick == toTick(price)
           entry == Entry(price, volume)
<1>1. IsBook(Book) /\ IsBook(Book)'
  BY BookIs, BookIsNext
<1>2. tick \notin DOMAIN Book
  BY ExistsIs
<1>3. Map!Tick(price) = tick /\ Map!Room(tick)
  BY RoomIs
<1>4. Adds(level, Offset(price), tick, entry)
  OBVIOUS
<1> HIDE DEF tick, entry
<1>5. Book' = With(Book, tick, entry)
  BY <1>1, <1>2, <1>4, AddsToBook
<1> QED BY <1>3, <1>5 DEF Map!Set, entry, Entry, With

\* Every step of the side is a step of the map, or leaves it alone.
LEMMA NextMaps == LayoutInv /\ LayoutInv' /\ [Next]_vars => [Map!MapNext]_(Map!mapVars)
<1> SUFFICES ASSUME LayoutInv, LayoutInv', [Next]_vars
             PROVE  [Map!MapNext]_(Map!mapVars)
  OBVIOUS
<1>1. ASSUME NEW price \in Prices, RemoveAbsent(price)
      PROVE  Map!Remove(price)
  <2>1. Book' = Book /\ accepted' = TRUE /\ ~Exists(price)
    BY <1>1, BookStays DEF RemoveAbsent
  <2>2. toTick(price) \notin DOMAIN Book /\ Map!Tick(price) = toTick(price)
    BY <2>1, ExistsIs, RoomIs
  <2>3. DOMAIN Book \ {toTick(price)} = DOMAIN Book
    BY <2>2
  <2>4. Book = [t \in DOMAIN Book |-> Book[t]]
    BY BookIs DEF IsBook
  <2> QED BY <2>1, <2>2, <2>3, <2>4 DEF Map!Remove, Map!Restrict
<1>2. ASSUME NEW price \in Prices, NoRoom(price)
      PROVE  Map!Refuse(price)
  <2>1. /\ Book' = Book /\ accepted' = FALSE /\ ~Exists(price)
        /\ freeSlots = <<>> \/ (findBlock(Id(price)) = Null /\ freeBlocks = <<>>)
    BY <1>2, BookStays DEF NoRoom
  <2>2. toTick(price) \notin DOMAIN Book /\ Map!Tick(price) = toTick(price) /\ ~Map!Room(toTick(price))
    BY <2>1, ExistsIs, RoomIs
  <2> QED BY <2>1, <2>2 DEF Map!Refuse
<1>3. ASSUME NEW price \in Prices, NEW volume \in Volumes \ {0}, AddLevel(price, volume)
      PROVE  Map!Set(price, volume)
  <2>1. Adds(findBlock(Id(price)), Offset(price), toTick(price), Entry(price, volume))
    BY <1>3, AddLevelKeeps
  <2>2. ~Exists(price) /\ accepted' = TRUE /\ freeSlots # <<>> /\ findBlock(Id(price)) # Null
    BY <1>3 DEF AddLevel, AddTo
  <2> QED BY <2>1, <2>2, AddMaps
<1>4. ASSUME NEW price \in Prices, NEW volume \in Volumes \ {0}, AddBlock(price, volume)
      PROVE  Map!Set(price, volume)
  <2>1. Adds(Last(freeBlocks), Offset(price), toTick(price), Entry(price, volume))
    BY <1>4, AddBlockKeeps
  <2>2. findBlock(Id(price)) = Null /\ accepted' = TRUE /\ freeSlots # <<>> /\ freeBlocks # <<>>
    BY <1>4 DEF AddBlock, AddTo
  <2>3. ~Exists(price)
    BY <2>2 DEF Exists
  <2> QED BY <2>1, <2>2, <2>3, AddMaps
<1>5. ASSUME clear
      PROVE  Map!Empty
  <2>1. DOMAIN Book' = {} /\ Book' = [t \in DOMAIN Book' |-> Book'[t]]
    <3>1. IsBook(Book)'
      BY BookIsNext
    <3>2. Cleared(window', windowBlocks', fallback', centred', blockId', slots', freeBlocks', entries', freeSlots')
      BY <1>5 DEF clear
    <3>3. windowBase' \in Int
      BY DEF LayoutInv, BlocksInv, Arranged
    <3>4. Emptied(isBid', windowBase', window', windowBlocks', fallback', centred',
                  blockId', slots', freeBlocks', entries', freeSlots')
      BY <3>2, <3>3, ClearedIs
    <3>5. Used' = {}
      BY <3>4 DEF Emptied, Used, Blocks
    <3> QED BY <3>1, <3>5 DEF IsBook, Has
  <2>2. Book' = <<>>
    BY <2>1, NoFunction
  <2> QED BY <1>5, <2>2 DEF clear, Map!Empty
<1>6. CASE UNCHANGED vars
  BY <1>6, BookStays DEF vars, Map!mapVars
<1>7. ASSUME NEW price \in Prices, RemoveAbsent(price) \/ RemoveLevel(price) \/ NoRoom(price)
      PROVE  Map!MapNext
  BY <1>1, <1>2, <1>7, RemoveMaps DEF Map!MapNext
<1>8. ASSUME NEW price \in Prices, NEW volume \in Volumes \ {0},
             SetLevel(price, volume) \/ AddLevel(price, volume) \/ AddBlock(price, volume)
      PROVE  Map!MapNext
  BY <1>3, <1>4, <1>8, SetMaps DEF Map!MapNext
<1>9. CASE clear
  BY <1>5, <1>9 DEF Map!MapNext
<1> QED BY <1>6, <1>7, <1>8, <1>9 DEF Next

LEMMA InitMaps == Init => Map!MapInit
<1> SUFFICES ASSUME Init
             PROVE  Map!MapInit
  OBVIOUS
<1>1. IsBook(Book)
  BY InitLayout, BookIs
<1>2. /\ Cleared(window, windowBlocks, fallback, centred, blockId, slots, freeBlocks, entries, freeSlots)
      /\ windowBase \in Int /\ accepted = TRUE
  BY DEF Init
<1>3. Emptied(isBid, windowBase, window, windowBlocks, fallback, centred,
              blockId, slots, freeBlocks, entries, freeSlots)
  BY <1>2, ClearedIs
<1>4. Used = {}
  BY <1>3 DEF Emptied, Used
<1>5. DOMAIN Book = {} /\ Book = [t \in DOMAIN Book |-> Book[t]]
  BY <1>1, <1>4 DEF IsBook, Has
<1>6. Book = <<>>
  BY <1>5, NoFunction
<1> QED BY <1>2, <1>6 DEF Map!MapInit

(***************************************************************************)
(* With any sizes of block, window and pools, a side behaves as a map from *)
(* ticks to entries that has room for MAX_LEVELS levels in MAX_BLOCKS      *)
(* blocks: updates set and remove exactly what they say, recentring is     *)
(* invisible, and a level is refused exactly when there is no room.        *)
(***************************************************************************)
THEOREM BookImplementsPriceMap == Spec => ImplementsPriceMap
<1>1. Spec => []LayoutInv
  BY InitLayout, NextLayout, PTL DEF Spec
<1> QED BY <1>1, InitMaps, NextMaps, PTL DEF Spec, ImplementsPriceMap, Map!MapSpec

-----------------------------------------------------------------------------
(* The numbers: recursion and induction over 0 .. n *)

\* A set that has 0 and with each number the next one.
LEMMA Upwards ==
    ASSUME NEW n \in Nat, NEW S, 0 \in S, \A i \in 1 .. n : i - 1 \in S => i \in S
    PROVE  \A i \in 0 .. n : i \in S
<1> DEFINE Bad == {i \in Nat : i <= n /\ i \notin S}
<1>1. SUFFICES ASSUME Bad # {}
               PROVE  FALSE
  BY <1>1
<1>2. PICK m \in Bad : \A k \in Bad : m <= k
  <2>1. Bad \in SUBSET Nat
    OBVIOUS
  <2> HIDE DEF Bad
  <2> QED BY <1>1, <2>1, Least
<1>3. m # 0 /\ m \in 1 .. n
  OBVIOUS
<1>4. m - 1 \in Nat /\ m - 1 <= n /\ ~(m <= m - 1)
  BY <1>3
<1>5. m - 1 \in S
  BY <1>2, <1>4
<1> QED BY <1>3, <1>5

\* f begins with base, and step says what each value makes of the one before.
Recurs(f, n, A, base, step) ==
    f \in [0 .. n -> A] /\ f[0] = base /\ \A i \in 1 .. n : f[i] = step[i][f[i - 1]]

\* A function can be defined by what each step makes of the value before.
LEMMA Recursion ==
    ASSUME NEW n \in Nat, NEW A, NEW base \in A, NEW step \in [1 .. n -> [A -> A]]
    PROVE  \E f : Recurs(f, n, A, base, step)
<1> DEFINE Fine(f, m) == f \in [0 .. m -> A] /\ f[0] = base /\ \A i \in 1 .. m : f[i] = step[i][f[i - 1]]
           S == {m \in Nat : \E f : Fine(f, m)}
<1>1. 0 \in S
  <2>1. Fine([i \in 0 .. 0 |-> base], 0)
    OBVIOUS
  <2> HIDE DEF Fine
  <2> QED BY <2>1
<1>2. ASSUME NEW m \in 1 .. n, m - 1 \in S
      PROVE  m \in S
  <2>1. PICK f : Fine(f, m - 1)
    BY <1>2
  <2> DEFINE g == [i \in 0 .. m |-> IF i = m THEN step[m][f[m - 1]] ELSE f[i]]
  <2>2. m \in Nat /\ m - 1 \in 0 .. m - 1 /\ (\A i \in 0 .. m : i # m => i \in 0 .. m - 1) /\ m # 0
    OBVIOUS
  <2>3. step[m][f[m - 1]] \in A
    BY <2>1, <2>2
  <2>4. g \in [0 .. m -> A]
    BY <2>1, <2>2, <2>3
  <2>5. g[0] = base
    BY <2>1, <2>2
  <2>6. ASSUME NEW i \in 1 .. m
        PROVE  g[i] = step[i][g[i - 1]]
    <3>1. i - 1 \in 0 .. m /\ i - 1 # m /\ g[i - 1] = f[i - 1] /\ i \in 0 .. m
      OBVIOUS
    <3>2. CASE i = m
      BY <3>1, <3>2
    <3>3. CASE i # m
      <4>1. i \in 1 .. m - 1
        BY <3>3
      <4>2. f[i] = step[i][f[i - 1]]
        BY <2>1, <4>1
      <4> QED BY <3>1, <3>3, <4>2
    <3> QED BY <3>2, <3>3
  <2>7. Fine(g, m)
    <3> HIDE DEF g
    <3> QED BY <2>4, <2>5, <2>6
  <2> HIDE DEF Fine
  <2> QED BY <2>2, <2>7
<1>3. n \in S
  <2> HIDE DEF S
  <2>1. \A i \in 0 .. n : i \in S
    BY <1>1, <1>2, Upwards
  <2> QED BY <2>1
<1> QED BY <1>3 DEF Recurs

\* Two functions that take the same steps from the same start.
LEMMA Agree ==
    ASSUME NEW n \in Nat, NEW f, NEW g, f[0] = g[0], \A i \in 1 .. n : f[i - 1] = g[i - 1] => f[i] = g[i]
    PROVE  \A i \in 0 .. n : f[i] = g[i]
<1> DEFINE S == {i \in 0 .. n : f[i] = g[i]}
<1>1. 0 \in S
  OBVIOUS
<1>2. \A i \in 1 .. n : i - 1 \in S => i \in S
  OBVIOUS
<1> HIDE DEF S
<1>3. \A i \in 0 .. n : i \in S
  BY <1>1, <1>2, Upwards
<1> QED BY <1>3 DEF S

-----------------------------------------------------------------------------
(* Powers *)

\* f has the powers of b up to the n-th.
Powers(f, b, n) ==
    /\ \A i \in 0 .. n : f[i] \in Nat
    /\ f[0] = 1 /\ (\A i \in 1 .. n : f[i] = b * f[i - 1])
    /\ Power(b, n) = f[n]

\* Power is what its recursion says, like every loop below: a function with these steps exists, and
\* the one that Power chooses agrees with it.
LEMMA PowerSteps ==
    ASSUME NEW b \in Nat, NEW n \in Nat
    PROVE  \E f : Powers(f, b, n)
<1> DEFINE Is(p) == p = [k \in 0 .. n |-> IF k = 0 THEN 1 ELSE b * p[k - 1]]
           q == CHOOSE p : Is(p)
           step == [i \in 1 .. n |-> [a \in Nat |-> b * a]]
<1>1. Power(b, n) = q[n]
  BY Zenon DEF Power
<1>2. PICK f : f \in [0 .. n -> Nat] /\ f[0] = 1 /\ \A i \in 1 .. n : f[i] = step[i][f[i - 1]]
  <2>1. step \in [1 .. n -> [Nat -> Nat]] /\ 1 \in Nat
    OBVIOUS
  <2> HIDE DEF step
  <2>2. PICK f : Recurs(f, n, Nat, 1, step)
    BY <2>1, Recursion
  <2> QED BY <2>2 DEF Recurs
<1>3. \A i \in 1 .. n : f[i - 1] \in Nat /\ f[i] = b * f[i - 1]
  <2>1. \A i \in 1 .. n : i - 1 \in 0 .. n
    OBVIOUS
  <2> QED BY <1>2, <2>1
<1>4. Is(f)
  <2>1. \A k \in 0 .. n : f[k] = IF k = 0 THEN 1 ELSE b * f[k - 1]
    BY <1>2, <1>3
  <2>2. f = [k \in 0 .. n |-> f[k]]
    BY <1>2
  <2> QED BY <2>1, <2>2
<1>5. Is(q)
  <2> HIDE DEF Is
  <2> QED BY <1>4
<1> HIDE DEF q
<1>6. q[0] = f[0] /\ \A i \in 1 .. n : q[i - 1] = f[i - 1] => q[i] = f[i]
  <2>1. \A k \in 0 .. n : q[k] = IF k = 0 THEN 1 ELSE b * q[k - 1]
    BY <1>5
  <2>2. \A i \in 1 .. n : i \in 0 .. n /\ i # 0
    OBVIOUS
  <2> HIDE DEF step
  <2> QED BY <1>2, <1>3, <2>1, <2>2
<1>7. \A i \in 0 .. n : q[i] = f[i]
  BY <1>6, Agree
<1>8. n \in 0 .. n
  OBVIOUS
<1> HIDE DEF step
<1>9. Powers(f, b, n)
  BY <1>1, <1>2, <1>3, <1>7, <1>8 DEF Powers
<1> QED BY <1>9

\* The first power, and the next one.
LEMMA PowerIs ==
    ASSUME NEW b \in Nat, NEW n \in Nat
    PROVE  Power(b, n) \in Nat /\ Power(b, 0) = 1 /\ Power(b, n + 1) = b * Power(b, n)
<1>1. PICK f : Powers(f, b, n)
  BY PowerSteps
<1>2. PICK g : Powers(g, b, n + 1)
  BY PowerSteps
<1>3. PICK h : Powers(h, b, 0)
  BY PowerSteps
<1>4. \A i \in 0 .. n : f[i] = g[i]
  <2>1. \A i \in 1 .. n : f[i - 1] = g[i - 1] => f[i] = g[i]
    BY <1>1, <1>2 DEF Powers
  <2>2. f[0] = g[0]
    BY <1>1, <1>2 DEF Powers
  <2> QED BY <2>1, <2>2, Agree
<1>5. n + 1 \in 1 .. n + 1 /\ (n + 1) - 1 = n /\ n \in 0 .. n
  OBVIOUS
<1>6. Power(b, n + 1) = b * g[n]
  BY <1>2, <1>5 DEF Powers
<1>7. Power(b, n) = f[n] /\ f[n] \in Nat /\ Power(b, 0) = 1
  BY <1>1, <1>3, <1>5 DEF Powers
<1> QED BY <1>4, <1>5, <1>6, <1>7

\* Powers of a positive number are positive and grow with it.
LEMMA PowerAtLeast ==
    ASSUME NEW b \in Nat, b >= 1, NEW n \in Nat
    PROVE  Power(b, n) \in Nat /\ Power(b, n) >= 1
<1> DEFINE S == {k \in Nat : Power(b, k) >= 1}
<1>1. 0 \in S
  BY PowerIs
<1>2. ASSUME NEW i \in 1 .. n, i - 1 \in S
      PROVE  i \in S
  <2>1. i - 1 \in Nat /\ (i - 1) + 1 = i
    OBVIOUS
  <2>2. Power(b, (i - 1) + 1) = b * Power(b, i - 1) /\ Power(b, i - 1) \in Nat
    BY <2>1, PowerIs
  <2> DEFINE x == Power(b, i - 1)
  <2>3. x \in Nat /\ x >= 1 /\ Power(b, i) = b * x
    BY <1>2, <2>1, <2>2
  <2> HIDE DEF x
  <2>4. b * x >= 1
    BY <2>3
  <2> QED BY <2>1, <2>3, <2>4
<1> HIDE DEF S
<1>3. \A i \in 0 .. n : i \in S
  BY <1>1, <1>2, Upwards
<1>4. n \in S
  BY <1>3
<1> QED BY <1>4, PowerIs DEF S

\* The power of a sum of exponents.
LEMMA PowerSum ==
    ASSUME NEW b \in Nat, NEW m \in Nat, NEW n \in Nat
    PROVE  Power(b, m + n) = Power(b, m) * Power(b, n)
<1> DEFINE S == {k \in Nat : Power(b, m + k) = Power(b, m) * Power(b, k)}
<1>1. 0 \in S
  <2>1. m + 0 = m
    OBVIOUS
  <2>2. Power(b, m) \in Nat /\ Power(b, 0) = 1
    BY PowerIs
  <2> QED BY <2>1, <2>2
<1>2. ASSUME NEW i \in 1 .. n, i - 1 \in S
      PROVE  i \in S
  <2> DEFINE k == i - 1
             x == Power(b, m)
             y == Power(b, k)
  <2>1. k \in Nat /\ k + 1 = i /\ m + k \in Nat /\ (m + k) + 1 = m + i
    OBVIOUS
  <2> HIDE DEF k
  <2>2. Power(b, (m + k) + 1) = b * Power(b, m + k) /\ Power(b, k + 1) = b * y /\ x \in Nat /\ y \in Nat
    BY <2>1, PowerIs
  <2>3. Power(b, m + k) = x * y
    BY <1>2 DEF k
  <2> HIDE DEF x, y
  <2>4. b * (x * y) = x * (b * y)
    BY <2>2
  <2>5. Power(b, m + i) = x * Power(b, i)
    BY <2>1, <2>2, <2>3, <2>4
  <2> QED BY <2>5 DEF x
<1> HIDE DEF S
<1>3. \A i \in 0 .. n : i \in S
  BY <1>1, <1>2, Upwards
<1>4. n \in S
  BY <1>3
<1> QED BY <1>4 DEF S

-----------------------------------------------------------------------------
(* Limits and characters *)

\* The constants of the number format.
LEMMA Limits ==
    /\ FIXED_DIGITS \in Nat /\ Width \in Nat /\ Width >= 1
    /\ negLimit \in Nat /\ negLimit >= 1
    /\ FIXED_SCALE \in Nat /\ FIXED_SCALE >= 1
<1>1. FIXED_DIGITS \in Nat /\ Width \in Nat /\ Width >= 1 /\ Width - 1 \in Nat
  BY FixedAssumption
<1>2. negLimit \in Nat /\ negLimit >= 1
  BY <1>1, PowerAtLeast DEF negLimit
<1>3. FIXED_SCALE \in Nat /\ FIXED_SCALE >= 1
  BY <1>1, PowerAtLeast DEF FIXED_SCALE
<1> QED BY <1>1, <1>2, <1>3

\* Every numeral stands for one digit; a point and a sign are none.
LEMMA Numerals ==
    /\ DOMAIN Numeral = 1 .. 10
    /\ \A i, j \in 1 .. 10 : Numeral[i] = Numeral[j] => i = j
    /\ \A i \in 1 .. 10 : Numeral[i] # "." /\ Numeral[i] # "-" /\ Numeral[i] # "+"
<1>1. DOMAIN Numeral = 1 .. 10
  BY DEF Numeral
<1>2. \A i, j \in 1 .. 10 : Numeral[i] = Numeral[j] => i = j
  BY DEF Numeral
<1>3. \A i \in 1 .. 10 : Numeral[i] # "." /\ Numeral[i] # "-" /\ Numeral[i] # "+"
  BY DEF Numeral
<1> QED BY <1>1, <1>2, <1>3

\* A digit is the numeral of its value.
LEMMA DigitIs ==
    ASSUME NEW c, IsDigit(c)
    PROVE  DigitOf(c) \in 0 .. 9 /\ Numeral[DigitOf(c) + 1] = c /\ c # "." /\ ~IsSign(c)
<1> DEFINE i == CHOOSE k \in DOMAIN Numeral : Numeral[k] = c
<1>1. \E k \in DOMAIN Numeral : Numeral[k] = c
  BY Zenon DEF IsDigit, Range
<1>2. i \in DOMAIN Numeral /\ Numeral[i] = c
  BY <1>1
<1>3. DigitOf(c) = i - 1
  BY DEF DigitOf
<1> HIDE DEF i
<1>4. i \in 1 .. 10
  BY <1>2, Numerals
<1>5. (i - 1) + 1 = i /\ i - 1 \in 0 .. 9
  BY <1>4
<1>6. c # "." /\ c # "-" /\ c # "+"
  BY <1>2, <1>4, Numerals
<1> QED BY <1>2, <1>3, <1>5, <1>6 DEF IsSign

\* And the value of a numeral is its place.
LEMMA NumeralIs ==
    ASSUME NEW d \in 0 .. 9
    PROVE  IsDigit(Numeral[d + 1]) /\ DigitOf(Numeral[d + 1]) = d
<1>1. d + 1 \in 1 .. 10 /\ d + 1 \in DOMAIN Numeral
  BY Numerals
<1>2. IsDigit(Numeral[d + 1])
  BY <1>1, Zenon DEF IsDigit, Range
<1> DEFINE e == DigitOf(Numeral[d + 1])
<1>3. e \in 0 .. 9 /\ Numeral[e + 1] = Numeral[d + 1]
  BY <1>2, DigitIs
<1> HIDE DEF e
<1>4. e + 1 \in 1 .. 10
  BY <1>3
<1>5. e + 1 = d + 1
  BY <1>1, <1>3, <1>4, Numerals
<1>6. e = d
  BY <1>3, <1>5
<1> QED BY <1>2, <1>6 DEF e

LEMMA PointIsNoDigit == ~IsDigit(".")
  BY DigitIs

-----------------------------------------------------------------------------
(* The loops *)

\* The state of parseFixed.
Parse == [ok : BOOLEAN, value : Nat, decimals : Int, anyDigit : BOOLEAN, roundUp : BOOLEAN]

\* What fits the width is not changed by it.
LEMMA UnsignedIs ==
    ASSUME NEW x \in Int
    PROVE  Unsigned(x) \in Nat /\ (x \in 0 .. 2 * negLimit - 1 => Unsigned(x) = x)
<1> DEFINE m == 2 * negLimit
<1>1. m \in Nat /\ m >= 1
  BY Limits
<1> HIDE DEF m
<1>2. x % m \in Nat /\ (x \in 0 .. m - 1 => x % m = x)
  BY <1>1
<1> QED BY <1>2 DEF Unsigned, m

\* A record is its fields.
LEMMA ParseFields ==
    ASSUME NEW p \in Parse
    PROVE  /\ p = [ok |-> p.ok, value |-> p.value, decimals |-> p.decimals, anyDigit |-> p.anyDigit, roundUp |-> p.roundUp]
           /\ p.ok \in BOOLEAN /\ p.value \in Nat /\ p.decimals \in Int /\ p.anyDigit \in BOOLEAN /\ p.roundUp \in BOOLEAN
  BY DEF Parse

\* And fields of the right types are one.
LEMMA ParseOf ==
    ASSUME NEW a \in BOOLEAN, NEW v \in Nat, NEW n \in Int, NEW b \in BOOLEAN, NEW c \in BOOLEAN
    PROVE  LET r == [ok |-> a, value |-> v, decimals |-> n, anyDigit |-> b, roundUp |-> c]
           IN  r \in Parse /\ r.ok = a /\ r.value = v /\ r.decimals = n /\ r.anyDigit = b /\ r.roundUp = c
  BY DEF Parse

\* Comparisons of integers are Booleans.
LEMMA Comparisons ==
    ASSUME NEW x \in Int, NEW y \in Int
    PROVE  (x <= y) \in BOOLEAN /\ (x >= y) \in BOOLEAN /\ (x < y) \in BOOLEAN
  OBVIOUS

\* The fields after each step of parseFixed.
LEMMA TakeDigitIs ==
    ASSUME NEW p \in Parse, NEW d \in 0 .. 9
    PROVE  LET r == TakeDigit(p, d)
           IN  /\ r \in Parse
               /\ r.ok = (p.value <= (negLimit - d) \div 10)
               /\ r.value = Unsigned(p.value * 10 + d)
               /\ r.decimals = IF p.decimals >= 0 THEN p.decimals + 1 ELSE p.decimals
               /\ r.anyDigit = TRUE /\ r.roundUp = p.roundUp
<1> DEFINE a == p.value <= (negLimit - d) \div 10
           v == Unsigned(p.value * 10 + d)
           n == IF p.decimals >= 0 THEN p.decimals + 1 ELSE p.decimals
           r == [ok |-> a, value |-> v, decimals |-> n, anyDigit |-> TRUE, roundUp |-> p.roundUp]
<1>1. p = [ok |-> p.ok, value |-> p.value, decimals |-> p.decimals, anyDigit |-> p.anyDigit, roundUp |-> p.roundUp]
      /\ p.value \in Nat /\ p.decimals \in Int /\ p.roundUp \in BOOLEAN
  BY ParseFields
<1>2. TakeDigit(p, d) = r
  <2>1. TakeDigit(p, d) = [p EXCEPT !.anyDigit = TRUE, !.ok = a, !.value = v, !.decimals = n]
    BY Zenon DEF TakeDigit
  <2> HIDE DEF a, v, n
  <2> QED BY <1>1, <2>1
<1>3. a \in BOOLEAN
  <2>1. p.value \in Int /\ (negLimit - d) \div 10 \in Int
    BY <1>1, Limits
  <2> QED BY <2>1, Comparisons
<1>4. v \in Nat
  <2>1. p.value * 10 + d \in Int
    BY <1>1
  <2> QED BY <2>1, UnsignedIs
<1>5. n \in Int
  BY <1>1
<1> HIDE DEF a, v, n
<1>6. r \in Parse /\ r.ok = a /\ r.value = v /\ r.decimals = n /\ r.anyDigit = TRUE /\ r.roundUp = p.roundUp
  <2>1. p.roundUp \in BOOLEAN /\ TRUE \in BOOLEAN
    BY <1>1
  <2> QED BY <1>3, <1>4, <1>5, <2>1, ParseOf
<1> QED BY <1>2, <1>6 DEF a, v, n

LEMMA DropDigitIs ==
    ASSUME NEW p \in Parse, NEW d \in 0 .. 9
    PROVE  LET r == DropDigit(p, d)
           IN  /\ r \in Parse
               /\ r.ok = p.ok /\ r.value = p.value /\ r.decimals = p.decimals + 1 /\ r.anyDigit = TRUE
               /\ r.roundUp = IF p.decimals = FIXED_DIGITS THEN d >= 5 ELSE p.roundUp
<1> DEFINE n == p.decimals + 1
           c == IF p.decimals = FIXED_DIGITS THEN d >= 5 ELSE p.roundUp
           r == [ok |-> p.ok, value |-> p.value, decimals |-> n, anyDigit |-> TRUE, roundUp |-> c]
<1>1. p = [ok |-> p.ok, value |-> p.value, decimals |-> p.decimals, anyDigit |-> p.anyDigit, roundUp |-> p.roundUp]
      /\ p.ok \in BOOLEAN /\ p.value \in Nat /\ p.decimals \in Int /\ p.roundUp \in BOOLEAN
  BY ParseFields
<1>2. DropDigit(p, d) = r
  <2>1. DropDigit(p, d) = [p EXCEPT !.anyDigit = TRUE, !.roundUp = c, !.decimals = n]
    BY Zenon DEF DropDigit
  <2> HIDE DEF c, n
  <2> QED BY <1>1, <2>1
<1>3. c \in BOOLEAN
  <2>1. (d >= 5) \in BOOLEAN
    BY Comparisons
  <2> QED BY <1>1, <2>1, Zenon
<1>4. n \in Int
  BY <1>1
<1> HIDE DEF c, n
<1>5. r \in Parse /\ r.ok = p.ok /\ r.value = p.value /\ r.decimals = n /\ r.anyDigit = TRUE /\ r.roundUp = c
  <2>1. TRUE \in BOOLEAN
    OBVIOUS
  <2> QED BY <1>1, <1>3, <1>4, <2>1, ParseOf
<1> QED BY <1>2, <1>5 DEF c, n

LEMMA PointIs ==
    ASSUME NEW p \in Parse
    PROVE  LET r == [p EXCEPT !.decimals = 0]
           IN  /\ r \in Parse /\ r.ok = p.ok /\ r.value = p.value /\ r.decimals = 0
               /\ r.anyDigit = p.anyDigit /\ r.roundUp = p.roundUp
<1> DEFINE r == [ok |-> p.ok, value |-> p.value, decimals |-> 0, anyDigit |-> p.anyDigit, roundUp |-> p.roundUp]
<1>1. p = [ok |-> p.ok, value |-> p.value, decimals |-> p.decimals, anyDigit |-> p.anyDigit, roundUp |-> p.roundUp]
      /\ p.ok \in BOOLEAN /\ p.value \in Nat /\ p.anyDigit \in BOOLEAN /\ p.roundUp \in BOOLEAN /\ 0 \in Int
  BY ParseFields
<1>2. [p EXCEPT !.decimals = 0] = r
  BY <1>1
<1>3. r \in Parse /\ r.ok = p.ok /\ r.value = p.value /\ r.decimals = 0 /\ r.anyDigit = p.anyDigit /\ r.roundUp = p.roundUp
  BY <1>1, ParseOf
<1> QED BY <1>2, <1>3

LEMMA Times10Is ==
    ASSUME NEW p \in Parse
    PROVE  LET r == Times10(p)
           IN  /\ r \in Parse
               /\ r.ok = (p.ok /\ p.value <= negLimit \div 10) /\ r.value = Unsigned(p.value * 10)
               /\ r.decimals = p.decimals /\ r.anyDigit = p.anyDigit /\ r.roundUp = p.roundUp
<1> DEFINE a == p.ok /\ p.value <= negLimit \div 10
           v == Unsigned(p.value * 10)
           r == [ok |-> a, value |-> v, decimals |-> p.decimals, anyDigit |-> p.anyDigit, roundUp |-> p.roundUp]
<1>1. p = [ok |-> p.ok, value |-> p.value, decimals |-> p.decimals, anyDigit |-> p.anyDigit, roundUp |-> p.roundUp]
      /\ p.ok \in BOOLEAN /\ p.value \in Nat /\ p.decimals \in Int /\ p.anyDigit \in BOOLEAN /\ p.roundUp \in BOOLEAN
  BY ParseFields
<1>2. Times10(p) = r
  <2>1. Times10(p) = [p EXCEPT !.ok = a, !.value = v]
    BY Zenon DEF Times10
  <2> HIDE DEF a, v
  <2> QED BY <1>1, <2>1
<1>3. a \in BOOLEAN
  <2> DEFINE x == p.value <= negLimit \div 10
  <2>1. p.value \in Int /\ negLimit \div 10 \in Int
    BY <1>1, Limits
  <2>2. x \in BOOLEAN
    BY <2>1, Comparisons
  <2> HIDE DEF x
  <2>3. (p.ok /\ x) \in BOOLEAN
    BY <1>1, <2>2
  <2> QED BY <2>3 DEF x
<1>4. v \in Nat
  <2>1. p.value * 10 \in Int
    BY <1>1
  <2> QED BY <2>1, UnsignedIs
<1> HIDE DEF a, v
<1>5. r \in Parse /\ r.ok = a /\ r.value = v /\ r.decimals = p.decimals /\ r.anyDigit = p.anyDigit /\ r.roundUp = p.roundUp
  BY <1>1, <1>3, <1>4, ParseOf
<1> QED BY <1>2, <1>5 DEF a, v

LEMMA RoundUpIs ==
    ASSUME NEW p \in Parse
    PROVE  /\ ~p.roundUp => RoundUp(p) = p
           /\ p.roundUp => /\ RoundUp(p).ok = (p.ok /\ p.value < negLimit) /\ RoundUp(p).value = Unsigned(p.value + 1)
                           /\ RoundUp(p).anyDigit = p.anyDigit
<1>1. CASE ~p.roundUp
  BY <1>1, Zenon DEF RoundUp
<1>2. CASE p.roundUp
  <2> DEFINE a == p.ok /\ p.value < negLimit
             v == Unsigned(p.value + 1)
  <2>1. p = [ok |-> p.ok, value |-> p.value, decimals |-> p.decimals, anyDigit |-> p.anyDigit, roundUp |-> p.roundUp]
    BY ParseFields
  <2>2. RoundUp(p) = [p EXCEPT !.ok = a, !.value = v]
    BY <1>2, Zenon DEF RoundUp
  <2> HIDE DEF a, v
  <2>3. RoundUp(p) = [ok |-> a, value |-> v, decimals |-> p.decimals, anyDigit |-> p.anyDigit, roundUp |-> p.roundUp]
    BY <2>1, <2>2
  <2>4. RoundUp(p).ok = a /\ RoundUp(p).value = v /\ RoundUp(p).anyDigit = p.anyDigit
    BY <2>3
  <2> QED BY <1>2, <2>4 DEF a, v
<1> QED BY <1>1, <1>2

\* One character, case by case.
LEMMA ScanIs ==
    ASSUME NEW p \in Parse, NEW c
    PROVE  /\ Scan(p, c) \in Parse
           /\ ~p.ok => Scan(p, c) = p
           /\ p.ok /\ c = "." /\ p.decimals < 0 => Scan(p, c) = [p EXCEPT !.decimals = 0]
           /\ p.ok /\ c = "." /\ p.decimals >= 0 => ~Scan(p, c).ok
           /\ p.ok /\ c # "." /\ ~IsDigit(c) => ~Scan(p, c).ok
           /\ p.ok /\ IsDigit(c) /\ p.decimals >= FIXED_DIGITS => Scan(p, c) = DropDigit(p, DigitOf(c))
           /\ p.ok /\ IsDigit(c) /\ p.decimals < FIXED_DIGITS => Scan(p, c) = TakeDigit(p, DigitOf(c))
<1>1. p.ok \in BOOLEAN /\ p.decimals \in Int /\ FIXED_DIGITS \in Nat
  BY Limits DEF Parse
<1>2. IsDigit(c) => DigitOf(c) \in 0 .. 9 /\ c # "."
  BY DigitIs
<1>3. CASE ~p.ok
  BY <1>3, Zenon DEF Scan
<1>4. CASE p.ok /\ c = "." /\ p.decimals < 0
  <2>1. ~IsDigit(c)
    BY <1>2, <1>4
  <2>2. Scan(p, c) = [p EXCEPT !.decimals = 0]
    BY <1>4, <2>1, Zenon DEF Scan
  <2>3. [p EXCEPT !.decimals = 0] \in Parse
    BY PointIs
  <2> QED BY <1>1, <1>4, <2>1, <2>2, <2>3
<1>5. CASE p.ok /\ ~IsDigit(c) /\ ~(c = "." /\ p.decimals < 0)
  <2>1. Scan(p, c) = [p EXCEPT !.ok = FALSE]
    BY <1>5, Zenon DEF Scan
  <2>2. [p EXCEPT !.ok = FALSE] \in Parse /\ ~([p EXCEPT !.ok = FALSE]).ok
    BY DEF Parse
  <2> QED BY <1>1, <1>5, <2>1, <2>2
<1>6. CASE p.ok /\ IsDigit(c) /\ p.decimals >= FIXED_DIGITS
  <2>1. ~(p.decimals < FIXED_DIGITS)
    BY <1>1, <1>6
  <2>2. Scan(p, c) = DropDigit(p, DigitOf(c))
    BY <1>2, <1>6, <2>1, Zenon DEF Scan
  <2>3. DropDigit(p, DigitOf(c)) \in Parse
    BY <1>2, <1>6, TakeDigitIs, DropDigitIs
  <2> QED BY <1>2, <1>6, <2>1, <2>2, <2>3
<1>7. CASE p.ok /\ IsDigit(c) /\ p.decimals < FIXED_DIGITS
  <2>1. ~(p.decimals >= FIXED_DIGITS)
    BY <1>1, <1>7
  <2>2. Scan(p, c) = TakeDigit(p, DigitOf(c))
    BY <1>2, <1>7, <2>1, Zenon DEF Scan
  <2>3. TakeDigit(p, DigitOf(c)) \in Parse
    BY <1>2, <1>7, TakeDigitIs, DropDigitIs
  <2> QED BY <1>2, <1>7, <2>1, <2>2, <2>3
<1>8. p.decimals >= FIXED_DIGITS \/ p.decimals < FIXED_DIGITS
  BY <1>1
<1> QED BY <1>1, <1>3, <1>4, <1>5, <1>6, <1>7, <1>8

\* f has the state of the loop after each character.
Scans(f, body) ==
    /\ \A i \in 0 .. Len(body) : f[i] \in Parse
    /\ f[0] = Start
    /\ \A i \in 1 .. Len(body) : f[i] = Scan(f[i - 1], body[i])
    /\ Scanned(body) = f[Len(body)]

LEMMA ScanSteps ==
    ASSUME NEW body, Len(body) \in Nat
    PROVE  \E f : Scans(f, body)
<1> DEFINE n == Len(body)
           Is(p) == p = [k \in 0 .. n |-> IF k = 0 THEN Start ELSE Scan(p[k - 1], body[k])]
           q == CHOOSE p : Is(p)
           step == [i \in 1 .. n |-> [a \in Parse |-> Scan(a, body[i])]]
<1>1. Scanned(body) = q[n]
  BY Zenon DEF Scanned
<1>2. Start \in Parse
  BY DEF Start, Parse
<1>3. PICK f : f \in [0 .. n -> Parse] /\ f[0] = Start /\ \A i \in 1 .. n : f[i] = step[i][f[i - 1]]
  <2>1. step \in [1 .. n -> [Parse -> Parse]]
    BY ScanIs
  <2> HIDE DEF step
  <2>2. PICK f : Recurs(f, n, Parse, Start, step)
    BY <1>2, <2>1, Recursion
  <2> QED BY <2>2 DEF Recurs
<1> HIDE DEF n
<1>4. \A i \in 1 .. n : f[i - 1] \in Parse /\ f[i] = Scan(f[i - 1], body[i])
  <2>1. \A i \in 1 .. n : i - 1 \in 0 .. n
    BY DEF n
  <2> QED BY <1>3, <2>1
<1>5. Is(f)
  <2>1. \A k \in 0 .. n : f[k] = IF k = 0 THEN Start ELSE Scan(f[k - 1], body[k])
    <3>1. \A k \in 0 .. n : k = 0 \/ k \in 1 .. n
      BY DEF n
    <3> QED BY <1>3, <1>4, <3>1
  <2>2. f = [k \in 0 .. n |-> f[k]]
    BY <1>3
  <2> HIDE DEF step
  <2> QED BY <2>1, <2>2, Zenon
<1>6. Is(q)
  <2> HIDE DEF Is
  <2> QED BY <1>5
<1> HIDE DEF q
<1>7. q[0] = f[0] /\ \A i \in 1 .. n : q[i - 1] = f[i - 1] => q[i] = f[i]
  <2>1. \A k \in 0 .. n : q[k] = IF k = 0 THEN Start ELSE Scan(q[k - 1], body[k])
    BY <1>6
  <2>2. (\A i \in 1 .. n : i \in 0 .. n /\ i # 0) /\ 0 \in 0 .. n
    BY DEF n
  <2> HIDE DEF step
  <2> QED BY <1>3, <1>4, <2>1, <2>2
<1>8. \A i \in 0 .. n : q[i] = f[i]
  <2>1. n \in Nat
    BY DEF n
  <2> QED BY <1>7, <2>1, Agree
<1>9. n \in 0 .. n
  BY DEF n
<1>10. Scans(f, body)
  BY <1>1, <1>3, <1>4, <1>8, <1>9 DEF Scans, n
<1> QED BY <1>10

\* g has the number the digits up to each character make.
Totals(g, t, body) ==
    /\ \A i \in 0 .. Len(body) : g[i] \in Nat
    /\ g[0] = 0
    /\ \A i \in 1 .. Len(body) : g[i] = IF IsDigit(body[i]) THEN g[i - 1] * 10 + DigitOf(body[i]) ELSE g[i - 1]
    /\ Numerator(t) = g[Len(body)]

LEMMA TotalSteps ==
    ASSUME NEW t, NEW body, body = Unsign(t), Len(body) \in Nat
    PROVE  \E g : Totals(g, t, body)
<1> DEFINE n == Len(body)
           Next1(a, c) == IF IsDigit(c) THEN a * 10 + DigitOf(c) ELSE a
           Is(p) == p = [k \in 0 .. n |-> IF k = 0 THEN 0 ELSE Next1(p[k - 1], body[k])]
           q == CHOOSE p : Is(p)
           step == [i \in 1 .. n |-> [a \in Nat |-> Next1(a, body[i])]]
<1>1. Numerator(t) = q[n]
  BY Zenon DEF Numerator
<1>2. \A a \in Nat : \A c : Next1(a, c) \in Nat
  BY DigitIs
<1>3. PICK f : f \in [0 .. n -> Nat] /\ f[0] = 0 /\ \A i \in 1 .. n : f[i] = step[i][f[i - 1]]
  <2>1. step \in [1 .. n -> [Nat -> Nat]]
    <3> HIDE DEF Next1
    <3> QED BY <1>2
  <2> HIDE DEF step
  <2>2. PICK f : Recurs(f, n, Nat, 0, step)
    BY <2>1, Recursion
  <2> QED BY <2>2 DEF Recurs
<1> HIDE DEF n
<1>4. \A i \in 1 .. n : f[i - 1] \in Nat /\ f[i] = Next1(f[i - 1], body[i])
  <2>1. \A i \in 1 .. n : i - 1 \in 0 .. n
    BY DEF n
  <2> HIDE DEF Next1
  <2> QED BY <1>3, <2>1
<1>5. Is(f)
  <2> HIDE DEF Next1
  <2>1. \A k \in 0 .. n : f[k] = IF k = 0 THEN 0 ELSE Next1(f[k - 1], body[k])
    <3>1. \A k \in 0 .. n : k = 0 \/ k \in 1 .. n
      BY DEF n
    <3> HIDE DEF step
    <3> QED BY <1>3, <1>4, <3>1
  <2>2. f = [k \in 0 .. n |-> f[k]]
    BY <1>3
  <2> HIDE DEF step
  <2> QED BY <2>1, <2>2, Zenon
<1>6. Is(q)
  <2> HIDE DEF Is
  <2> QED BY <1>5
<1> HIDE DEF q
<1>7. q[0] = f[0] /\ \A i \in 1 .. n : q[i - 1] = f[i - 1] => q[i] = f[i]
  <2> HIDE DEF Next1
  <2>1. \A k \in 0 .. n : q[k] = IF k = 0 THEN 0 ELSE Next1(q[k - 1], body[k])
    BY <1>6
  <2>2. (\A i \in 1 .. n : i \in 0 .. n /\ i # 0) /\ 0 \in 0 .. n
    BY DEF n
  <2> HIDE DEF step
  <2> QED BY <1>3, <1>4, <2>1, <2>2
<1>8. \A i \in 0 .. n : q[i] = f[i]
  <2>1. n \in Nat
    BY DEF n
  <2> HIDE DEF step, Is, Next1
  <2> DEFINE S == {i \in 0 .. n : q[i] = f[i]}
  <2>2. 0 \in S /\ \A i \in 1 .. n : i - 1 \in S => i \in S
    BY <1>7, <2>1
  <2> HIDE DEF S
  <2>3. \A i \in 0 .. n : i \in S
    BY <2>1, <2>2, Upwards
  <2> QED BY <2>3 DEF S
<1>9. n \in 0 .. n
  BY DEF n
<1>10. Totals(f, t, body)
  <2>1. \A i \in 1 .. n : f[i] = IF IsDigit(body[i]) THEN f[i - 1] * 10 + DigitOf(body[i]) ELSE f[i - 1]
    BY <1>4
  <2> HIDE DEF step
  <2> QED BY <1>1, <1>3, <2>1, <1>8, <1>9 DEF Totals, n
<1> QED BY <1>10

\* f has the state after each of the m multiplications.
Pads(f, p, m) ==
    /\ \A i \in 0 .. m : f[i] \in Parse
    /\ f[0] = p
    /\ \A i \in 1 .. m : f[i] = Times10(f[i - 1])
    /\ Pad(p) = f[m]

\* How many decimals the text does not have.
Missing(p) ==
    CASE p.decimals < 0                   -> FIXED_DIGITS
      [] p.decimals \in 0 .. FIXED_DIGITS -> FIXED_DIGITS - p.decimals
      [] p.decimals > FIXED_DIGITS        -> 0

LEMMA MissingIs ==
    ASSUME NEW p \in Parse
    PROVE  /\ Missing(p) \in Nat
           /\ p.decimals < 0 => Missing(p) = FIXED_DIGITS
           /\ p.decimals \in 0 .. FIXED_DIGITS => Missing(p) = FIXED_DIGITS - p.decimals
           /\ p.decimals > FIXED_DIGITS => Missing(p) = 0
<1>1. p.decimals \in Int /\ FIXED_DIGITS \in Nat
  BY ParseFields, Limits
<1> DEFINE x == p.decimals
           y == FIXED_DIGITS
<1> HIDE DEF x, y
<1>2. Missing(p) = CASE x < 0 -> y [] x \in 0 .. y -> y - x [] x > y -> 0
  BY Zenon DEF Missing, x, y
<1>3. x \in Int /\ y \in Nat
  BY <1>1 DEF x, y
<1>4. /\ Missing(p) \in Nat
      /\ x < 0 => Missing(p) = y
      /\ x \in 0 .. y => Missing(p) = y - x
      /\ x > y => Missing(p) = 0
  BY <1>2, <1>3
<1> QED BY <1>4 DEF x, y

LEMMA PadSteps ==
    ASSUME NEW p \in Parse
    PROVE  \E f : Pads(f, p, Missing(p))
<1> DEFINE n == Missing(p)
           Is(g) == g = [k \in 0 .. n |-> IF k = 0 THEN p ELSE Times10(g[k - 1])]
           q == CHOOSE g : Is(g)
           step == [i \in 1 .. n |-> [a \in Parse |-> Times10(a)]]
<1>1. Pad(p) = q[n]
  BY Zenon DEF Pad, Missing
<1>2. n \in Nat
  BY MissingIs
<1>3. PICK f : f \in [0 .. n -> Parse] /\ f[0] = p /\ \A i \in 1 .. n : f[i] = step[i][f[i - 1]]
  <2>1. step \in [1 .. n -> [Parse -> Parse]]
    BY Times10Is
  <2> HIDE DEF step, n
  <2>2. PICK f : Recurs(f, n, Parse, p, step)
    BY <1>2, <2>1, Recursion
  <2> QED BY <2>2 DEF Recurs
<1> HIDE DEF n
<1>4. \A i \in 1 .. n : f[i - 1] \in Parse /\ f[i] = Times10(f[i - 1])
  <2>1. \A i \in 1 .. n : i - 1 \in 0 .. n
    BY <1>2
  <2> QED BY <1>3, <2>1
<1>5. Is(f)
  <2>1. \A k \in 0 .. n : f[k] = IF k = 0 THEN p ELSE Times10(f[k - 1])
    <3>1. \A k \in 0 .. n : k = 0 \/ k \in 1 .. n
      BY <1>2
    <3> QED BY <1>3, <1>4, <3>1
  <2>2. f = [k \in 0 .. n |-> f[k]]
    BY <1>3
  <2> HIDE DEF step
  <2> QED BY <2>1, <2>2, Zenon
<1>6. Is(q)
  <2> HIDE DEF Is
  <2> QED BY <1>5
<1> HIDE DEF q
<1>7. q[0] = f[0] /\ \A i \in 1 .. n : q[i - 1] = f[i - 1] => q[i] = f[i]
  <2>1. \A k \in 0 .. n : q[k] = IF k = 0 THEN p ELSE Times10(q[k - 1])
    BY <1>6
  <2>2. (\A i \in 1 .. n : i \in 0 .. n /\ i # 0) /\ 0 \in 0 .. n
    BY <1>2
  <2> HIDE DEF step
  <2> QED BY <1>3, <1>4, <2>1, <2>2
<1>8. \A i \in 0 .. n : q[i] = f[i]
  BY <1>2, <1>7, Agree
<1>9. n \in 0 .. n
  BY <1>2
<1>10. Pads(f, p, n)
  <2> HIDE DEF step
  <2> QED BY <1>1, <1>3, <1>4, <1>8, <1>9 DEF Pads
<1> QED BY <1>10 DEF n

\* The test before the multiplication is the exact one.
LEMMA FitsBefore ==
    ASSUME NEW v \in Nat, NEW d \in 0 .. 9, NEW L \in Nat
    PROVE  (v <= (L - d) \div 10) <=> (v * 10 + d <= L)
  OBVIOUS

\* Powers grow with the exponent.
LEMMA PowerGrows ==
    ASSUME NEW b \in Nat, b >= 1, NEW m \in Nat, NEW n \in Nat, m <= n
    PROVE  Power(b, m) <= Power(b, n)
<1> DEFINE x == Power(b, m)
           y == Power(b, n - m)
<1>1. n - m \in Nat /\ m + (n - m) = n
  OBVIOUS
<1>2. Power(b, n) = x * y
  BY <1>1, PowerSum
<1>3. x \in Nat /\ y \in Nat /\ x >= 1 /\ y >= 1
  BY <1>1, PowerAtLeast
<1> HIDE DEF x, y
<1>4. x <= x * y
  BY <1>3
<1> QED BY <1>2, <1>4 DEF x

\* The characters up to k are digits and at most one point.
Good(body, k) ==
    /\ \A i \in 1 .. k : IsDigit(body[i]) \/ body[i] = "."
    /\ \A i, j \in 1 .. k : body[i] = "." /\ body[j] = "." => i = j

\* m of them are after the point.
After(body, k, m) ==
    \/ m = 0 /\ \A i \in 1 .. k : body[i] # "."
    \/ \E d \in 1 .. k : body[d] = "." /\ m = k - d

\* v is N without its last m digits, and up says that they are half or more.
Rounds(v, N, m, up) ==
    \E r \in Nat : N = v * Power(10, m) + r /\ r < Power(10, m) /\ (up <=> 2 * r >= Power(10, m))

\* The value is the number of the digits, or that number rounded so far.
Exact(p, N) ==
    /\ p.value <= negLimit
    /\ p.decimals <= FIXED_DIGITS => N = p.value /\ ~p.roundUp
    /\ p.decimals > FIXED_DIGITS => Rounds(p.value, N, p.decimals - FIXED_DIGITS, p.roundUp)

\* What the loop knows of the first k characters, and the number N of their digits.
Reads(p, N, body, k) ==
    /\ Good(body, k)
    /\ p.anyDigit <=> \E i \in 1 .. k : IsDigit(body[i])
    /\ \/ p.decimals = -1 /\ \A i \in 1 .. k : body[i] # "."
       \/ \E d \in 1 .. k : body[d] = "." /\ p.decimals = k - d
    /\ Exact(p, N)

\* Why it gave up: they are no number, or it is too big.
Refuses(N, body, k) ==
    Good(body, k) => \A m \in Nat : After(body, k, m) => N * FIXED_SCALE >= (negLimit + 1) * Power(10, m)

\* The invariant of the loop.
LoopInv(p, N, body, k) == (p.ok => Reads(p, N, body, k)) /\ (~p.ok => Refuses(N, body, k))

\* A number that is too big stays so.
LEMMA StaysRefused ==
    ASSUME NEW body, NEW k \in Nat, k >= 1, NEW N \in Nat, NEW M \in Nat, Refuses(N, body, k - 1),
           M = IF IsDigit(body[k]) THEN N * 10 + DigitOf(body[k]) ELSE N
    PROVE  Refuses(M, body, k)
<1>1. SUFFICES ASSUME Good(body, k), NEW m \in Nat, After(body, k, m)
               PROVE  M * FIXED_SCALE >= (negLimit + 1) * Power(10, m)
  BY DEF Refuses
<1>2. k - 1 \in Nat /\ k \in 1 .. k /\ (\A i \in 1 .. k - 1 : i \in 1 .. k) /\ \A i \in 1 .. k : i # k => i \in 1 .. k - 1
  OBVIOUS
<1>3. Good(body, k - 1)
  BY <1>1, <1>2 DEF Good
<1> DEFINE S == FIXED_SCALE
           L == negLimit
<1>4. S \in Nat /\ L \in Nat
  BY Limits
<1> HIDE DEF S, L
<1>5. \A e \in Nat : After(body, k - 1, e) => N * S >= (L + 1) * Power(10, e)
  BY <1>3 DEF Refuses, S, L
<1>6. CASE IsDigit(body[k])
  <2> DEFINE c == DigitOf(body[k])
  <2>1. c \in 0 .. 9 /\ body[k] # "." /\ M = N * 10 + c
    BY <1>6, DigitIs
  <2> HIDE DEF c
  <2>2. CASE m = 0 /\ \A i \in 1 .. k : body[i] # "."
    <3>1. After(body, k - 1, 0)
      BY <1>2, <2>2 DEF After
    <3> DEFINE e == Power(10, 0)
    <3>2. N * S >= (L + 1) * e /\ e \in Nat
      BY <1>5, <3>1, PowerIs
    <3> HIDE DEF e
    <3>3. M >= N
      BY <2>1
    <3>4. M * S >= N * S
      BY <3>3, <1>4
    <3>5. N * S \in Nat /\ M * S \in Nat /\ (L + 1) * e \in Nat
      BY <1>4, <3>2
    <3>6. M * S >= (L + 1) * e
      BY <3>2, <3>4, <3>5
    <3> QED BY <2>2, <3>6 DEF e, S, L
  <2>3. CASE \E d \in 1 .. k : body[d] = "." /\ m = k - d
    <3>1. PICK d \in 1 .. k : body[d] = "." /\ m = k - d
      BY <2>3
    <3>2. d # k
      BY <2>1, <3>1
    <3>3. d \in 1 .. k - 1 /\ m - 1 = (k - 1) - d /\ m - 1 \in Nat /\ (m - 1) + 1 = m
      BY <3>1, <3>2
    <3>4. After(body, k - 1, m - 1)
      BY <3>1, <3>3 DEF After
    <3> DEFINE e == Power(10, m - 1)
    <3>5. N * S >= (L + 1) * e /\ e \in Nat /\ Power(10, m) = 10 * e
      <4>1. Power(10, m - 1) \in Nat /\ Power(10, (m - 1) + 1) = 10 * Power(10, m - 1)
        BY <3>3, PowerIs
      <4> QED BY <1>5, <3>3, <3>4, <4>1
    <3> HIDE DEF e
    <3> DEFINE x == N * S
               y == (L + 1) * e
    <3>6. x \in Nat /\ y \in Nat /\ x >= y
      BY <1>4, <3>5
    <3>7. M * S = 10 * x + c * S /\ (L + 1) * (10 * e) = 10 * y
      BY <1>4, <2>1, <3>5
    <3>8. c * S \in Nat
      BY <1>4, <2>1
    <3> HIDE DEF x, y
    <3>9. 10 * x + c * S >= 10 * y
      BY <3>6, <3>8
    <3> QED BY <3>5, <3>7, <3>9 DEF S, L
  <2> QED BY <1>1, <2>2, <2>3 DEF After
<1>7. CASE body[k] = "."
  <2>1. M = N
    BY <1>7, DigitIs
  <2>2. \A i \in 1 .. k - 1 : body[i] # "."
    <3>1. \A i \in 1 .. k - 1 : i # k
      BY <1>2
    <3> QED BY <1>1, <1>2, <1>7, <3>1 DEF Good
  <2>3. m = 0
    <3>1. CASE m = 0 /\ \A i \in 1 .. k : body[i] # "."
      BY <3>1
    <3>2. CASE \E d \in 1 .. k : body[d] = "." /\ m = k - d
      <4>1. PICK d \in 1 .. k : body[d] = "." /\ m = k - d
        BY <3>2
      <4>2. d = k
        BY <1>2, <2>2, <4>1
      <4> QED BY <4>1, <4>2
    <3> QED BY <1>1, <3>1, <3>2 DEF After
  <2>4. After(body, k - 1, 0)
    BY <2>2 DEF After
  <2> QED BY <1>5, <2>1, <2>3, <2>4 DEF S, L
<1> QED BY <1>1, <1>2, <1>6, <1>7 DEF Good

\* Dropping a digit keeps the rounding right: ten times a power of ten is even.
LEMMA RoundsOn ==
    ASSUME NEW v \in Nat, NEW N \in Nat, NEW m \in Nat, m >= 1, NEW up \in BOOLEAN, NEW d \in 0 .. 9,
           Rounds(v, N, m, up)
    PROVE  Rounds(v, N * 10 + d, m + 1, up)
<1> DEFINE h == Power(10, m - 1)
           q == Power(10, m)
<1>1. m - 1 \in Nat /\ (m - 1) + 1 = m
  OBVIOUS
<1>2. h \in Nat /\ q = 10 * h /\ Power(10, m + 1) = 10 * q
  <2>1. h \in Nat /\ Power(10, (m - 1) + 1) = 10 * h
    BY <1>1, PowerIs
  <2>2. Power(10, m + 1) = 10 * q
    BY PowerIs
  <2> QED BY <1>1, <2>1, <2>2
<1>3. PICK r \in Nat : N = v * q + r /\ r < q /\ (up <=> 2 * r >= q)
  BY DEF Rounds
<1> HIDE DEF h, q
<1>4. q \in Nat /\ v * q \in Nat
  BY <1>2
<1> DEFINE s == r * 10 + d
           w == v * q
<1>5. N * 10 + d = v * (10 * q) + s
  BY <1>3, <1>4
<1>6. s \in Nat /\ s < 10 * q
  BY <1>3, <1>4
<1>7. up <=> 2 * s >= 10 * q
  BY <1>2, <1>3, <1>4
<1>8. \E x \in Nat : N * 10 + d = v * (10 * q) + x /\ x < 10 * q /\ (up <=> 2 * x >= 10 * q)
  <2> HIDE DEF s
  <2> QED BY <1>5, <1>6, <1>7
<1> QED BY <1>2, <1>8 DEF Rounds

\* The first digit that is dropped decides.
LEMMA RoundsFirst ==
    ASSUME NEW v \in Nat, NEW d \in 0 .. 9
    PROVE  Rounds(v, v * 10 + d, 1, d >= 5)
<1>1. Power(10, 1) = 10
  <2>1. Power(10, 0 + 1) = 10 * Power(10, 0) /\ Power(10, 0) = 1
    BY PowerIs
  <2>2. 0 + 1 = 1
    OBVIOUS
  <2> QED BY <2>1, <2>2
<1>2. d \in Nat /\ v * 10 + d = v * 10 + d /\ d < 10 /\ (d >= 5 <=> 2 * d >= 10)
  OBVIOUS
<1> QED BY <1>1, <1>2 DEF Rounds

\* One more digit, or the first point.
LEMMA GoodOn ==
    ASSUME NEW body, NEW k \in Nat, k >= 1, Good(body, k - 1), IsDigit(body[k]) \/ body[k] = ".",
           body[k] = "." => \A i \in 1 .. k - 1 : body[i] # "."
    PROVE  Good(body, k)
<1>1. \A i \in 1 .. k : i = k \/ i \in 1 .. k - 1
  OBVIOUS
<1>2. IsDigit(body[k]) => body[k] # "."
  BY DigitIs
<1>3. \A i \in 1 .. k : IsDigit(body[i]) \/ body[i] = "."
  BY <1>1 DEF Good
<1>4. \A i, j \in 1 .. k : body[i] = "." /\ body[j] = "." => i = j
  BY <1>1, <1>2 DEF Good
<1> QED BY <1>3, <1>4 DEF Good

\* A digit that is taken or dropped.
Counts(p, r) ==
    r.anyDigit /\ r.decimals = IF p.decimals >= 0 THEN p.decimals + 1 ELSE p.decimals

LEMMA ReadsDigit ==
    ASSUME NEW body, NEW k \in Nat, k >= 1, NEW p \in Parse, NEW r \in Parse, NEW N \in Nat, NEW M \in Nat,
           Reads(p, N, body, k - 1), IsDigit(body[k]), Exact(r, M), Counts(p, r)
    PROVE  Reads(r, M, body, k)
<1>1. body[k] # "." /\ k \in 1 .. k /\ p.decimals \in Int
      /\ (\A i \in 1 .. k : i = k \/ i \in 1 .. k - 1) /\ \A i \in 1 .. k - 1 : i \in 1 .. k
  BY DigitIs, ParseFields
<1>2. Good(body, k)
  BY <1>1, GoodOn DEF Reads
<1>3. r.anyDigit <=> \E i \in 1 .. k : IsDigit(body[i])
  BY <1>1 DEF Counts
<1>4. \/ r.decimals = -1 /\ \A i \in 1 .. k : body[i] # "."
      \/ \E d \in 1 .. k : body[d] = "." /\ r.decimals = k - d
  <2>1. CASE p.decimals = -1 /\ \A i \in 1 .. k - 1 : body[i] # "."
    <3>1. r.decimals = -1
      BY <2>1 DEF Counts
    <3>2. \A i \in 1 .. k : body[i] # "."
      BY <1>1, <2>1
    <3> QED BY <3>1, <3>2
  <2>2. CASE \E d \in 1 .. k - 1 : body[d] = "." /\ p.decimals = (k - 1) - d
    <3>1. PICK d \in 1 .. k - 1 : body[d] = "." /\ p.decimals = (k - 1) - d
      BY <2>2
    <3>2. d \in 1 .. k /\ r.decimals = k - d
      BY <1>1, <3>1 DEF Counts
    <3> QED BY <3>1, <3>2
  <2> QED BY <2>1, <2>2 DEF Reads
<1> QED BY <1>2, <1>3, <1>4 DEF Reads

\* The digit that makes the number too big.
LEMMA TooBig ==
    ASSUME NEW body, NEW k \in Nat, k >= 1, NEW p \in Parse, NEW N \in Nat, NEW M \in Nat,
           Reads(p, N, body, k - 1), IsDigit(body[k]), p.decimals < FIXED_DIGITS, M > negLimit
    PROVE  Refuses(M, body, k)
<1>1. SUFFICES ASSUME Good(body, k), NEW m \in Nat, After(body, k, m)
               PROVE  M * FIXED_SCALE >= (negLimit + 1) * Power(10, m)
  BY DEF Refuses
<1>2. body[k] # "." /\ k \in 1 .. k /\ p.decimals \in Int /\ FIXED_DIGITS \in Nat
      /\ (\A i \in 1 .. k : i = k \/ i \in 1 .. k - 1) /\ \A i \in 1 .. k - 1 : i \in 1 .. k
  BY DigitIs, ParseFields, Limits
<1>3. m <= FIXED_DIGITS
  <2>1. CASE m = 0 /\ \A i \in 1 .. k : body[i] # "."
    BY <1>2, <2>1
  <2>2. CASE \E d \in 1 .. k : body[d] = "." /\ m = k - d
    <3>1. PICK d \in 1 .. k : body[d] = "." /\ m = k - d
      BY <2>2
    <3>2. d \in 1 .. k - 1
      BY <1>2, <3>1
    <3>3. PICK e \in 1 .. k - 1 : body[e] = "." /\ p.decimals = (k - 1) - e
      BY <3>1, <3>2 DEF Reads
    <3>4. d = e
      BY <1>1, <1>2, <3>1, <3>3 DEF Good
    <3> QED BY <1>2, <3>1, <3>3, <3>4
  <2> QED BY <1>1, <2>1, <2>2 DEF After
<1> DEFINE S == FIXED_SCALE
           L == negLimit
           e == Power(10, m)
<1>4. S \in Nat /\ L \in Nat /\ e \in Nat /\ e <= S /\ M >= L + 1
  <2>0. 10 \in Nat /\ 10 >= 1
    OBVIOUS
  <2>1. e \in Nat
    BY <2>0, PowerIs
  <2>2. Power(10, m) <= Power(10, FIXED_DIGITS)
    BY <1>2, <1>3, <2>0, PowerGrows
  <2> QED BY <2>1, <2>2, Limits DEF FIXED_SCALE
<1> HIDE DEF S, L, e
<1>5. M * S >= (L + 1) * S
  BY <1>4
<1>6. (L + 1) * S >= (L + 1) * e
  BY <1>4
<1>7. M * S \in Nat /\ (L + 1) * S \in Nat /\ (L + 1) * e \in Nat
  BY <1>4
<1>8. M * S >= (L + 1) * e
  BY <1>5, <1>6, <1>7
<1> QED BY <1>8 DEF S, L, e

\* Every character preserves the invariant.
LEMMA LoopStep ==
    ASSUME NEW body, NEW k \in Nat, k >= 1, NEW p \in Parse, NEW N \in Nat, NEW M \in Nat,
           LoopInv(p, N, body, k - 1),
           M = IF IsDigit(body[k]) THEN N * 10 + DigitOf(body[k]) ELSE N
    PROVE  LoopInv(Scan(p, body[k]), M, body, k)
<1> DEFINE c == body[k]
           r == Scan(p, c)
           D == FIXED_DIGITS
<1>1. r \in Parse /\ r.ok \in BOOLEAN /\ D \in Nat /\ p.decimals \in Int /\ p.value \in Nat /\ p.roundUp \in BOOLEAN
  BY ScanIs, ParseFields, Limits
<1>2. k \in 1 .. k /\ (\A i \in 1 .. k : i = k \/ i \in 1 .. k - 1) /\ \A i \in 1 .. k - 1 : i \in 1 .. k /\ i # k
  OBVIOUS
<1>3. CASE ~p.ok
  <2>1. r = p
    BY <1>3, ScanIs
  <2>2. Refuses(N, body, k - 1)
    BY <1>3 DEF LoopInv
  <2>3. Refuses(M, body, k)
    BY <2>2, StaysRefused
  <2> QED BY <1>3, <2>1, <2>3 DEF LoopInv
<1>4. CASE p.ok /\ c = "." /\ p.decimals < 0
  <2>1. r = [p EXCEPT !.decimals = 0]
    BY <1>4, ScanIs
  <2>2. r.ok = p.ok /\ r.value = p.value /\ r.decimals = 0 /\ r.anyDigit = p.anyDigit /\ r.roundUp = p.roundUp
    BY <2>1, PointIs
  <2>3. M = N /\ ~IsDigit(c)
    BY <1>4, DigitIs
  <2>4. Reads(p, N, body, k - 1)
    BY <1>4 DEF LoopInv
  <2>5. \A i \in 1 .. k - 1 : body[i] # "."
    <3>1. ~(\E d \in 1 .. k - 1 : body[d] = "." /\ p.decimals = (k - 1) - d)
      BY <1>4
    <3> QED BY <2>4, <3>1 DEF Reads
  <2>6. Good(body, k)
    BY <1>4, <2>4, <2>5, GoodOn DEF Reads
  <2>7. r.anyDigit <=> \E i \in 1 .. k : IsDigit(body[i])
    BY <1>2, <2>2, <2>3, <2>4 DEF Reads
  <2>8. \E d \in 1 .. k : body[d] = "." /\ r.decimals = k - d
    BY <1>2, <1>4, <2>2
  <2>9. Exact(r, M)
    <3>1. Exact(p, N) /\ p.decimals <= D /\ r.decimals <= D /\ ~(r.decimals > D)
      BY <1>1, <1>4, <2>2, <2>4 DEF Reads
    <3> QED BY <2>2, <2>3, <3>1 DEF Exact
  <2>10. Reads(r, M, body, k)
    BY <2>6, <2>7, <2>8, <2>9 DEF Reads
  <2> QED BY <1>4, <2>2, <2>10 DEF LoopInv
<1>5. CASE p.ok /\ c = "." /\ p.decimals >= 0
  <2>1. ~r.ok
    BY <1>5, ScanIs
  <2>2. ~Good(body, k)
    <3>1. PICK d \in 1 .. k - 1 : body[d] = "."
      BY <1>5 DEF LoopInv, Reads
    <3> QED BY <1>2, <1>5, <3>1 DEF Good
  <2> QED BY <2>1, <2>2 DEF LoopInv, Refuses
<1>6. CASE p.ok /\ c # "." /\ ~IsDigit(c)
  <2>1. ~r.ok
    BY <1>6, ScanIs
  <2>2. ~Good(body, k)
    BY <1>2, <1>6 DEF Good
  <2> QED BY <2>1, <2>2 DEF LoopInv, Refuses
<1>7. CASE p.ok /\ IsDigit(c) /\ p.decimals >= D
  <2> DEFINE d == DigitOf(c)
  <2>1. d \in 0 .. 9 /\ M = N * 10 + d /\ r = DropDigit(p, d)
    BY <1>7, DigitIs, ScanIs
  <2> HIDE DEF d
  <2>2. /\ r.ok = p.ok /\ r.value = p.value /\ r.decimals = p.decimals + 1 /\ r.anyDigit = TRUE
        /\ r.roundUp = IF p.decimals = D THEN d >= 5 ELSE p.roundUp
    <3> DEFINE q == DropDigit(p, d)
    <3>1. /\ q.ok = p.ok /\ q.value = p.value /\ q.decimals = p.decimals + 1 /\ q.anyDigit = TRUE
          /\ q.roundUp = IF p.decimals = D THEN d >= 5 ELSE p.roundUp
      BY <2>1, DropDigitIs
    <3>2. r = q
      BY <2>1
    <3> HIDE DEF q, r
    <3> QED BY <3>1, <3>2
  <2>3. Reads(p, N, body, k - 1)
    BY <1>7 DEF LoopInv
  <2>4. Exact(p, N)
    BY <2>3 DEF Reads
  <2>5. p.value <= negLimit
    BY <2>4 DEF Exact
  <2>6. ASSUME p.decimals = D
        PROVE  Exact(r, M)
    <3>1. N = p.value /\ r.decimals - D = 1 /\ r.decimals > D /\ ~(r.decimals <= D)
      BY <1>1, <2>2, <2>4, <2>6 DEF Exact
    <3>2. r.roundUp = (d >= 5)
      BY <2>2, <2>6, Zenon
    <3>3. Rounds(p.value, p.value * 10 + d, 1, d >= 5)
      BY <1>1, <2>1, RoundsFirst
    <3>4. Rounds(r.value, M, r.decimals - D, r.roundUp)
      BY <2>1, <2>2, <3>1, <3>2, <3>3
    <3> QED BY <2>2, <2>5, <3>1, <3>4 DEF Exact
  <2>7. ASSUME p.decimals # D
        PROVE  Exact(r, M)
    <3> DEFINE m == p.decimals - D
    <3>1. p.decimals > D /\ m \in Nat /\ m >= 1 /\ r.decimals - D = m + 1 /\ r.decimals > D /\ ~(r.decimals <= D)
      BY <1>1, <1>7, <2>2, <2>7
    <3>2. r.roundUp = p.roundUp
      BY <2>2, <2>7, Zenon
    <3>3. Rounds(p.value, N, m, p.roundUp)
      BY <2>4, <3>1 DEF Exact
    <3> HIDE DEF m
    <3>4. Rounds(p.value, N * 10 + d, m + 1, p.roundUp)
      BY <1>1, <2>1, <3>1, <3>3, RoundsOn
    <3>5. Rounds(r.value, M, r.decimals - D, r.roundUp)
      BY <2>1, <2>2, <3>1, <3>2, <3>4
    <3> QED BY <2>2, <2>5, <3>1, <3>5 DEF Exact
  <2>8. Exact(r, M)
    BY <2>6, <2>7
  <2>9. Counts(p, r)
    BY <1>1, <1>7, <2>2 DEF Counts
  <2> HIDE DEF r
  <2>10. Reads(r, M, body, k)
    BY <1>1, <1>7, <2>3, <2>8, <2>9, ReadsDigit
  <2> QED BY <1>7, <2>2, <2>10 DEF LoopInv, r
<1>8. CASE p.ok /\ IsDigit(c) /\ p.decimals < D
  <2> DEFINE d == DigitOf(c)
  <2>1. d \in 0 .. 9 /\ M = N * 10 + d /\ r = TakeDigit(p, d)
    BY <1>8, DigitIs, ScanIs
  <2> HIDE DEF d
  <2>2. /\ r.ok = (p.value <= (negLimit - d) \div 10) /\ r.value = Unsigned(p.value * 10 + d)
        /\ r.decimals = IF p.decimals >= 0 THEN p.decimals + 1 ELSE p.decimals
        /\ r.anyDigit = TRUE /\ r.roundUp = p.roundUp
    <3> DEFINE q == TakeDigit(p, d)
    <3>1. /\ q.ok = (p.value <= (negLimit - d) \div 10) /\ q.value = Unsigned(p.value * 10 + d)
          /\ q.decimals = IF p.decimals >= 0 THEN p.decimals + 1 ELSE p.decimals
          /\ q.anyDigit = TRUE /\ q.roundUp = p.roundUp
      BY <2>1, TakeDigitIs
    <3>2. r = q
      BY <2>1
    <3> HIDE DEF q, r
    <3> QED BY <3>1, <3>2
  <2>3. Reads(p, N, body, k - 1)
    BY <1>8 DEF LoopInv
  <2>4. N = p.value /\ ~p.roundUp /\ r.decimals <= D /\ ~(r.decimals > D)
    <3>1. p.decimals <= D /\ r.decimals <= D /\ ~(r.decimals > D)
      BY <1>1, <1>8, <2>2
    <3> QED BY <2>3, <3>1 DEF Reads, Exact
  <2>5. r.ok <=> M <= negLimit
    BY <1>1, <2>1, <2>2, <2>4, Limits, FitsBefore
  <2>6. CASE r.ok
    <3>1. M <= negLimit /\ M \in 0 .. 2 * negLimit - 1
      BY <2>5, <2>6, Limits
    <3>2. r.value = M
      BY <2>1, <2>2, <2>4, <3>1, UnsignedIs
    <3>3. Exact(r, M)
      BY <2>2, <2>4, <3>1, <3>2 DEF Exact
    <3>5. Counts(p, r)
      BY <2>2 DEF Counts
    <3> HIDE DEF r
    <3>4. Reads(r, M, body, k)
      BY <1>1, <1>8, <2>3, <3>3, <3>5, ReadsDigit
    <3> QED BY <2>6, <3>4 DEF LoopInv, r
  <2>7. CASE ~r.ok
    <3>1. M > negLimit
      BY <2>5, <2>7, Limits
    <3>2. Refuses(M, body, k)
      BY <1>8, <2>3, <3>1, TooBig
    <3> QED BY <2>7, <3>2 DEF LoopInv
  <2> QED BY <2>6, <2>7
<1>9. p.decimals >= D \/ p.decimals < D
  BY <1>1
<1>10. p.decimals >= 0 \/ p.decimals < 0
  BY <1>1
<1> QED BY <1>3, <1>4, <1>5, <1>6, <1>7, <1>8, <1>9, <1>10

\* So it holds at the end of the text.
LEMMA LoopEnds ==
    ASSUME NEW t, NEW body, body = Unsign(t), Len(body) \in Nat
    PROVE  /\ Scanned(body) \in Parse /\ Numerator(t) \in Nat
           /\ LoopInv(Scanned(body), Numerator(t), body, Len(body))
<1> DEFINE n == Len(body)
<1>1. PICK f : Scans(f, body)
  BY ScanSteps
<1>2. PICK g : Totals(g, t, body)
  BY TotalSteps
<1> DEFINE S == {i \in 0 .. n : LoopInv(f[i], g[i], body, i)}
<1>3. 0 \in S
  <2>1. f[0] = Start /\ g[0] = 0
    BY <1>1, <1>2 DEF Scans, Totals
  <2>2. Start.ok = TRUE /\ Start.value = 0 /\ Start.decimals = -1 /\ Start.anyDigit = FALSE /\ Start.roundUp = FALSE
    BY DEF Start
  <2>3. \A i : i \notin 1 .. 0
    OBVIOUS
  <2>4. Exact(Start, 0)
    BY <2>2, Limits DEF Exact
  <2>5. Reads(Start, 0, body, 0)
    BY <2>2, <2>3, <2>4 DEF Reads, Good
  <2>6. LoopInv(Start, 0, body, 0)
    BY <2>2, <2>5 DEF LoopInv
  <2> QED BY <2>1, <2>6
<1>4. ASSUME NEW i \in 1 .. n, i - 1 \in S
      PROVE  i \in S
  <2>1. i - 1 \in 0 .. n /\ i \in 0 .. n /\ i \in Nat /\ i >= 1
    OBVIOUS
  <2>2. LoopInv(f[i - 1], g[i - 1], body, i - 1)
    BY <1>4
  <2>3. /\ f[i - 1] \in Parse /\ f[i] = Scan(f[i - 1], body[i])
    BY <1>1, <2>1 DEF Scans
  <2>4. /\ g[i - 1] \in Nat /\ g[i] \in Nat
        /\ g[i] = IF IsDigit(body[i]) THEN g[i - 1] * 10 + DigitOf(body[i]) ELSE g[i - 1]
    BY <1>2, <2>1 DEF Totals
  <2>5. LoopInv(Scan(f[i - 1], body[i]), g[i], body, i)
    BY <2>1, <2>2, <2>3, <2>4, LoopStep
  <2> QED BY <2>1, <2>3, <2>5
<1>5. n \in 0 .. n
  OBVIOUS
<1>6. n \in S
  <2> HIDE DEF S, n
  <2>1. n \in Nat
    BY DEF n
  <2>2. \A i \in 0 .. n : i \in S
    BY <1>3, <1>4, <2>1, Upwards
  <2> QED BY <1>5, <2>2
<1>7. f[n] \in Parse /\ Scanned(body) = f[n]
  BY <1>1, <1>5 DEF Scans
<1>8. g[n] \in Nat /\ Numerator(t) = g[n]
  BY <1>2, <1>5 DEF Totals
<1>9. LoopInv(f[n], g[n], body, n)
  BY <1>6
<1> QED BY <1>7, <1>8, <1>9

\* The state after j multiplications, from p.
PadInv(r, p, j) ==
    /\ r.ok <=> p.ok /\ p.value * Power(10, j) <= negLimit
    /\ r.ok => r.value = p.value * Power(10, j)
    /\ r.anyDigit = p.anyDigit /\ r.roundUp = p.roundUp

\* One multiplication.
LEMMA PadStep ==
    ASSUME NEW p \in Parse, NEW r \in Parse, NEW j \in Nat, PadInv(r, p, j)
    PROVE  PadInv(Times10(r), p, j + 1)
<1> DEFINE s == Times10(r)
           x == p.value * Power(10, j)
           L == negLimit
<1>1. /\ s.ok = (r.ok /\ r.value <= negLimit \div 10) /\ s.value = Unsigned(r.value * 10)
      /\ s.anyDigit = r.anyDigit /\ s.roundUp = r.roundUp
  BY Times10Is
<1>2. x \in Nat /\ p.value * Power(10, j + 1) = 10 * x /\ L \in Nat /\ L >= 1 /\ r.value \in Nat
  <2> DEFINE e == Power(10, j)
  <2>1. e \in Nat /\ Power(10, j + 1) = 10 * e
    BY PowerIs
  <2>2. p.value \in Nat /\ r.value \in Nat
    BY ParseFields
  <2> HIDE DEF e
  <2>3. p.value * e \in Nat /\ p.value * (10 * e) = 10 * (p.value * e)
    BY <2>1, <2>2
  <2> QED BY <2>1, <2>2, <2>3, Limits DEF e
<1> HIDE DEF s, x
<1>3. (r.ok <=> p.ok /\ x <= L) /\ (r.ok => r.value = x) /\ r.anyDigit = p.anyDigit /\ r.roundUp = p.roundUp
  BY DEF PadInv, x
<1>4. s.ok <=> p.ok /\ 10 * x <= L
  <2>1. x <= L \div 10 <=> 10 * x <= L
    BY <1>2
  <2>2. 10 * x <= L => x <= L
    BY <1>2
  <2> QED BY <1>1, <1>3, <2>1, <2>2
<1>5. ASSUME s.ok
      PROVE  s.value = 10 * x
  <2>1. 10 * x <= L /\ r.ok
    BY <1>1, <1>4, <1>5
  <2>2. r.value * 10 \in Int /\ r.value * 10 \in 0 .. 2 * negLimit - 1 /\ r.value * 10 = 10 * x
    BY <1>2, <1>3, <2>1
  <2> QED BY <1>1, <2>2, UnsignedIs
<1>6. PadInv(s, p, j + 1)
  BY <1>1, <1>2, <1>3, <1>4, <1>5 DEF PadInv
<1> QED BY <1>6 DEF s

\* All of them.
LEMMA PadEnds ==
    ASSUME NEW p \in Parse, p.ok => p.value <= negLimit
    PROVE  Pad(p) \in Parse /\ PadInv(Pad(p), p, Missing(p))
<1> DEFINE m == Missing(p)
<1>1. PICK f : Pads(f, p, m)
  BY PadSteps
<1>2. m \in Nat
  BY MissingIs
<1> HIDE DEF m
<1> DEFINE S == {i \in 0 .. m : PadInv(f[i], p, i)}
<1>3. 0 \in S
  <2>1. p.value \in Nat /\ Power(10, 0) = 1
    BY ParseFields, PowerIs
  <2>2. p.value * Power(10, 0) = p.value
    BY <2>1
  <2>3. PadInv(p, p, 0)
    BY <2>2 DEF PadInv
  <2>4. f[0] = p /\ 0 \in 0 .. m
    BY <1>1, <1>2 DEF Pads
  <2> QED BY <2>3, <2>4
<1>4. ASSUME NEW i \in 1 .. m, i - 1 \in S
      PROVE  i \in S
  <2>1. i - 1 \in 0 .. m /\ i \in 0 .. m /\ i - 1 \in Nat /\ (i - 1) + 1 = i
    BY <1>2
  <2>2. f[i - 1] \in Parse /\ f[i] = Times10(f[i - 1])
    BY <1>1, <2>1 DEF Pads
  <2>3. PadInv(f[i - 1], p, i - 1)
    BY <1>4
  <2>4. PadInv(Times10(f[i - 1]), p, (i - 1) + 1)
    BY <2>1, <2>2, <2>3, PadStep
  <2> QED BY <2>1, <2>2, <2>4
<1>5. m \in S
  <2> HIDE DEF S
  <2>1. \A i \in 0 .. m : i \in S
    BY <1>2, <1>3, <1>4, Upwards
  <2> QED BY <1>2, <2>1
<1>6. f[m] \in Parse /\ Pad(p) = f[m]
  BY <1>1, <1>2 DEF Pads
<1> QED BY <1>5, <1>6 DEF m

-----------------------------------------------------------------------------
(* The reference *)

\* Nearest without the sign.
Magnitude(t) == (2 * Numerator(t) * FIXED_SCALE + Power(10, Places(t))) \div (2 * Power(10, Places(t)))

\* Nothing is lost while the places fit.
LEMMA MagnitudeFits ==
    ASSUME NEW N \in Nat, NEW U \in Nat, U >= 1, NEW K \in Nat
    PROVE  (2 * N * (U * K) + U) \div (2 * U) = N * K
<1> DEFINE a == N * K
           T == 2 * U
<1>1. a \in Int /\ T \in Nat \ {0} /\ U \in 0 .. T - 1
  OBVIOUS
<1>2. 2 * N * (U * K) + U = a * T + U
  OBVIOUS
<1> HIDE DEF a, T
<1>3. (a * T + U) \div T = a
  BY <1>1, QuotientOf
<1> QED BY <1>2, <1>3 DEF a, T

\* What does not fit is rounded half up.
LEMMA MagnitudeRounds ==
    ASSUME NEW v \in Nat, NEW r \in Nat, NEW S \in Nat, S >= 1, NEW Q \in Nat, Q >= 1, r < Q
    PROVE  (2 * (v * Q + r) * S + S * Q) \div (2 * (S * Q)) = IF 2 * r >= Q THEN v + 1 ELSE v
<1> DEFINE T == 2 * (S * Q)
           o == S * (2 * r + Q)
<1>1. S * Q \in Nat /\ S * Q >= 1
  OBVIOUS
<1>2. T \in Nat \ {0}
  BY <1>1
<1>3. 2 * (v * Q + r) * S + S * Q = v * T + o
  OBVIOUS
<1>4. CASE 2 * r >= Q
  <2> DEFINE w == S * (2 * r - Q)
  <2>1. 2 * r - Q \in Nat /\ 2 * r - Q < Q
    BY <1>4
  <2>2. w \in Nat
    BY <2>1
  <2>3. w < S * Q
    <3> DEFINE y == 2 * r - Q
    <3> HIDE DEF y
    <3>1. y \in Nat /\ y < Q
      BY <2>1 DEF y
    <3>2. S * y < S * Q
      BY <3>1
    <3> QED BY <3>2 DEF y
  <2>4. v * T + o = (v + 1) * T + w
    OBVIOUS
  <2>5. w \in 0 .. T - 1
    BY <1>1, <2>2, <2>3
  <2> HIDE DEF T, w, o
  <2>6. ((v + 1) * T + w) \div T = v + 1
    BY <1>2, <2>5, QuotientOf
  <2> QED BY <1>3, <1>4, <2>4, <2>6 DEF T
<1>5. CASE ~(2 * r >= Q)
  <2>1. 2 * r + Q \in Nat /\ 2 * r + Q < 2 * Q
    BY <1>5
  <2>2. o \in Nat
    BY <2>1
  <2>3. o < T
    <3> DEFINE y == 2 * r + Q
    <3> HIDE DEF y
    <3>1. y \in Nat /\ y < 2 * Q
      BY <2>1 DEF y
    <3>2. S * y < S * (2 * Q)
      BY <3>1
    <3>3. S * (2 * Q) = T
      OBVIOUS
    <3> QED BY <3>2, <3>3 DEF y
  <2>4. o \in 0 .. T - 1
    BY <1>2, <2>2, <2>3
  <2> HIDE DEF T, o
  <2>5. (v * T + o) \div T = v
    BY <1>2, <2>4, QuotientOf
  <2> QED BY <1>3, <1>5, <2>5 DEF T
<1> QED BY <1>4, <1>5

\* The text without its sign is a text.
LEMMA BodyIs ==
    ASSUME NEW Char, NEW t \in Seq(Char)
    PROVE  LET body == Unsign(t)
           IN  /\ body \in Seq(Char) /\ Len(body) \in Nat /\ DOMAIN body = 1 .. Len(body)
               /\ body = IF t # <<>> /\ IsSign(t[1]) THEN Tail(t) ELSE t
<1>1. Unsign(t) = IF t # <<>> /\ IsSign(t[1]) THEN Tail(t) ELSE t
  BY Zenon DEF Unsign
<1>2. t # <<>> => Tail(t) \in Seq(Char)
  OBVIOUS
<1>3. Unsign(t) \in Seq(Char)
  BY <1>1, <1>2
<1>4. \A s \in Seq(Char) : Len(s) \in Nat /\ DOMAIN s = 1 .. Len(s)
  OBVIOUS
<1> QED BY <1>1, <1>3, <1>4

\* WellFormed in the terms of the loop.
LEMMA WellFormedIs ==
    ASSUME NEW t, NEW body, body = Unsign(t), DOMAIN body = 1 .. Len(body)
    PROVE  WellFormed(t) <=> Good(body, Len(body)) /\ \E i \in 1 .. Len(body) : IsDigit(body[i])
  BY Zenon DEF WellFormed, Good

\* Places in the terms of the loop.
LEMMA PlacesIs ==
    ASSUME NEW t, NEW body, body = Unsign(t), DOMAIN body = 1 .. Len(body), Len(body) \in Nat
    PROVE  Places(t) \in Nat /\ After(body, Len(body), Places(t))
<1>1. CASE \E i \in DOMAIN body : body[i] = "."
  <2> DEFINE d == CHOOSE i \in DOMAIN body : body[i] = "."
  <2>1. d \in DOMAIN body /\ body[d] = "."
    BY <1>1
  <2>2. Places(t) = Len(body) - d
    BY <1>1, Zenon DEF Places
  <2> HIDE DEF d
  <2>3. d \in 1 .. Len(body)
    BY <2>1
  <2> QED BY <2>1, <2>2, <2>3 DEF After
<1>2. CASE ~\E i \in DOMAIN body : body[i] = "."
  <2>1. Places(t) = 0
    BY <1>2, Zenon DEF Places
  <2>2. \A i \in 1 .. Len(body) : body[i] # "."
    BY <1>2
  <2>3. 0 \in Nat
    OBVIOUS
  <2> QED BY <2>1, <2>2, <2>3, Zenon DEF After
<1> QED BY <1>1, <1>2

\* What the whole of parseFixed but the sign comes to.
LEMMA MagnitudeIs ==
    ASSUME NEW Char, NEW t \in Seq(Char), NEW p, p = RoundUp(Pad(Scanned(Unsign(t))))
    PROVE  /\ Magnitude(t) \in Int
           /\ p.ok /\ p.anyDigit <=> WellFormed(t) /\ Magnitude(t) <= negLimit
           /\ p.ok /\ p.anyDigit => p.value = Magnitude(t)
<1> DEFINE body == Unsign(t)
           n == Len(body)
           N == Numerator(t)
           q == Scanned(body)
           r == Pad(q)
           L == negLimit
           S == FIXED_SCALE
           U == Power(10, Places(t))
           W == Magnitude(t)
<1>1. body \in Seq(Char) /\ n \in Nat /\ DOMAIN body = 1 .. n
  BY BodyIs
<1>2. q \in Parse /\ N \in Nat /\ LoopInv(q, N, body, n)
  BY <1>1, LoopEnds
<1>3. Places(t) \in Nat /\ After(body, n, Places(t))
  BY <1>1, PlacesIs
<1>4. WellFormed(t) <=> Good(body, n) /\ \E i \in 1 .. n : IsDigit(body[i])
  BY <1>1, WellFormedIs
<1>5. U \in Nat /\ U >= 1 /\ L \in Nat /\ L >= 1 /\ S \in Nat /\ S >= 1 /\ FIXED_DIGITS \in Nat
  <2>1. 10 \in Nat /\ 10 >= 1
    OBVIOUS
  <2> QED BY <1>3, <2>1, PowerAtLeast, Limits
<1>6. W = (2 * N * S + U) \div (2 * U)
  BY Zenon DEF Magnitude
<1>7. W \in Int
  <2> HIDE DEF N, S, U, W
  <2>1. 2 * N * S + U \in Int /\ 2 * U \in Nat \ {0}
    BY <1>2, <1>5
  <2> QED BY <1>6, <2>1, Quotient
<1>8. q.ok => Reads(q, N, body, n)
  BY <1>2 DEF LoopInv
<1>9. q.ok => q.value <= L
  BY <1>8 DEF Reads, Exact
<1>10. q.ok \in BOOLEAN /\ q.value \in Nat /\ q.decimals \in Int /\ q.anyDigit \in BOOLEAN /\ q.roundUp \in BOOLEAN
  BY <1>2, ParseFields
<1>11. r \in Parse /\ PadInv(r, q, Missing(q))
  BY <1>2, <1>9, PadEnds
<1>12. /\ ~r.roundUp => p = r
       /\ r.roundUp => p.ok = (r.ok /\ r.value < L) /\ p.value = Unsigned(r.value + 1) /\ p.anyDigit = r.anyDigit
  BY <1>11, RoundUpIs
<1>13. CASE ~q.ok
  <2>1. ~r.ok
    BY <1>11, <1>13 DEF PadInv
  <2>2. ~p.ok
    BY <1>12, <2>1
  <2>3. Good(body, n) => W > L
    <3>1. SUFFICES ASSUME Good(body, n)
                   PROVE  W > L
      BY <3>1
    <3>2. Refuses(N, body, n)
      BY <1>2, <1>13 DEF LoopInv
    <3>3. N * S >= (L + 1) * U
      BY <1>3, <3>1, <3>2 DEF Refuses
    <3> HIDE DEF W, N, S, L, U
    <3> DEFINE x == 2 * N * S + U
               T == 2 * U
    <3>4. x \in Int /\ T \in Nat \ {0} /\ N * S \in Nat /\ (L + 1) * U \in Nat
      BY <1>2, <1>5
    <3>5. x >= (L + 1) * T
      <4> DEFINE y == N * S
                 z == (L + 1) * U
      <4>1. x = 2 * y + U /\ (L + 1) * T = 2 * z
        BY <1>2, <1>5
      <4>2. y \in Nat /\ z \in Nat /\ y >= z
        BY <3>3, <3>4
      <4> HIDE DEF y, z, x, T
      <4>3. 2 * y + U >= 2 * z
        BY <1>5, <4>2
      <4> QED BY <4>1, <4>3
    <3> HIDE DEF x, T
    <3>6. x = W * T + (x % T) /\ x % T \in 0 .. T - 1
      BY <1>6, <3>4, Quotient DEF x, T
    <3>7. ASSUME W <= L
          PROVE  FALSE
      <4>1. L - W \in Nat /\ (L + 1) * T = W * T + T + (L - W) * T /\ (L - W) * T >= 0
        BY <1>5, <1>7, <3>4, <3>7
      <4> DEFINE a == W * T
                 b == (L - W) * T
                 c == (L + 1) * T
                 o == x % T
      <4>2. a \in Int /\ b \in Int /\ c = a + T + b /\ b >= 0 /\ o \in 0 .. T - 1 /\ x = a + o /\ x >= c
        BY <1>5, <1>7, <3>4, <3>5, <3>6, <4>1
      <4> HIDE DEF a, b, c, o
      <4> QED BY <3>4, <4>2
    <3> QED BY <1>5, <1>7, <3>7
  <2>4. WellFormed(t) => ~(W <= L)
    <3> HIDE DEF W, L
    <3> QED BY <1>4, <1>5, <1>7, <2>3
  <2> QED BY <1>7, <2>2, <2>4, Zenon
<1>14. CASE q.ok
  <2>1. Reads(q, N, body, n)
    BY <1>8, <1>14
  <2>2. Exact(q, N) /\ Good(body, n)
    BY <2>1 DEF Reads
  <2>3. WellFormed(t) <=> q.anyDigit
    BY <1>4, <2>1, <2>2 DEF Reads
  <2>4. r.anyDigit = q.anyDigit /\ r.roundUp = q.roundUp
    BY <1>11 DEF PadInv
  <2>5. \/ q.decimals = -1 /\ Places(t) = 0
        \/ q.decimals = Places(t)
    <3>1. CASE q.decimals = -1 /\ \A i \in 1 .. n : body[i] # "."
      BY <1>3, <3>1 DEF After
    <3>2. CASE \E d \in 1 .. n : body[d] = "." /\ q.decimals = n - d
      <4>1. PICK d \in 1 .. n : body[d] = "." /\ q.decimals = n - d
        BY <3>2
      <4>2. PICK e \in 1 .. n : body[e] = "." /\ Places(t) = n - e
        BY <1>3, <4>1 DEF After
      <4>3. d = e
        BY <2>2, <4>1, <4>2 DEF Good
      <4> QED BY <4>1, <4>2, <4>3
    <3> QED BY <2>1, <3>1, <3>2 DEF Reads
  <2>6. CASE q.decimals <= FIXED_DIGITS
    <3>1. N = q.value /\ ~q.roundUp
      BY <2>2, <2>6 DEF Exact
    <3>2. p = r
      BY <1>12, <2>4, <3>1
    <3> DEFINE m == Missing(q)
               K == Power(10, m)
    <3>3. m \in Nat /\ Places(t) + m = FIXED_DIGITS
      BY <1>2, <1>3, <1>5, <1>10, <2>5, <2>6, MissingIs
    <3> HIDE DEF m
    <3>4. K \in Nat /\ S = U * K
      <4>1. Power(10, Places(t) + m) = U * K /\ K \in Nat
        BY <1>3, <3>3, PowerIs, PowerSum
      <4> QED BY <3>3, <4>1 DEF FIXED_SCALE
    <3>5. W = N * K
      <4> HIDE DEF N, S, U, K, W
      <4>1. (2 * N * (U * K) + U) \div (2 * U) = N * K
        BY <1>2, <1>5, <3>4, MagnitudeFits
      <4> QED BY <1>6, <3>4, <4>1
    <3>6. (r.ok <=> W <= L) /\ (r.ok => r.value = W)
      BY <1>11, <1>14, <3>1, <3>5 DEF PadInv, m
    <3> QED BY <1>7, <2>3, <2>4, <3>2, <3>6
  <2>7. CASE q.decimals > FIXED_DIGITS
    <3> DEFINE m == q.decimals - FIXED_DIGITS
               Q == Power(10, m)
               v == q.value
               up == q.roundUp
    <3>1. m \in Nat /\ q.decimals = Places(t) /\ Places(t) = FIXED_DIGITS + m /\ Missing(q) = 0
      BY <1>2, <1>5, <1>10, <2>5, <2>7, MissingIs
    <3> HIDE DEF m
    <3>2. Q \in Nat /\ Q >= 1 /\ U = S * Q
      <4>1. 10 \in Nat /\ 10 >= 1
        OBVIOUS
      <4>2. Power(10, FIXED_DIGITS + m) = S * Q
        BY <1>5, <3>1, <4>1, PowerSum DEF FIXED_SCALE
      <4> QED BY <3>1, <4>1, <4>2, PowerAtLeast
    <3>3. PICK x \in Nat : N = v * Q + x /\ x < Q /\ (up <=> 2 * x >= Q)
      BY <2>2, <2>7 DEF Exact, Rounds, m
    <3>4. W = IF up THEN v + 1 ELSE v
      <4> HIDE DEF N, S, U, Q, W, v, up
      <4>1. v \in Nat
        BY <1>10 DEF v
      <4>2. (2 * (v * Q + x) * S + S * Q) \div (2 * (S * Q)) = IF 2 * x >= Q THEN v + 1 ELSE v
        BY <1>5, <3>2, <3>3, <4>1, MagnitudeRounds
      <4>3. W = (2 * (v * Q + x) * S + S * Q) \div (2 * (S * Q))
        BY <1>6, <3>2, <3>3
      <4> QED BY <3>3, <4>2, <4>3
    <3>5. r.ok /\ r.value = v
      <4>1. v * Power(10, 0) = v
        <5>1. Power(10, 0) = 1
          BY PowerIs
        <5> QED BY <1>10, <5>1
      <4>2. PadInv(r, q, 0)
        BY <1>11, <3>1
      <4> QED BY <1>9, <1>14, <4>1, <4>2 DEF PadInv
    <3>6. CASE ~up
      <4>1. p = r /\ W = v
        BY <1>12, <2>4, <3>4, <3>6
      <4> QED BY <1>7, <1>9, <1>14, <2>3, <2>4, <3>5, <4>1
    <3>7. CASE up
      <4>1. W = v + 1 /\ p.ok = (r.ok /\ r.value < L) /\ p.value = Unsigned(r.value + 1) /\ p.anyDigit = r.anyDigit
        BY <1>12, <2>4, <3>4, <3>7
      <4> HIDE DEF W, v, up
      <4>2. v \in Nat
        BY <1>10 DEF v
      <4>3. p.ok <=> W <= L
        <5>1. r.value < L <=> W <= L
          BY <1>5, <3>5, <4>1, <4>2
        <5> QED BY <3>5, <4>1, <5>1
      <4>4. p.ok => p.value = W
        <5>1. SUFFICES ASSUME p.ok
                       PROVE  p.value = W
          BY <5>1
        <5>2. r.value + 1 = W /\ W \in Int /\ W \in 0 .. 2 * negLimit - 1
          BY <1>5, <3>5, <4>1, <4>2, <4>3, <5>1
        <5> QED BY <4>1, <5>2, UnsignedIs
      <4> QED BY <1>7, <2>3, <2>4, <4>1, <4>3, <4>4 DEF W
    <3> QED BY <3>6, <3>7
  <2> QED BY <1>5, <1>10, <2>6, <2>7
<1> QED BY <1>10, <1>13, <1>14

\* Negation in two's complement.
LEMMA Negated ==
    ASSUME NEW w \in 1 .. 2 * negLimit - 1
    PROVE  Unsigned(0 - w) = 2 * negLimit - w
<1> DEFINE T == 2 * negLimit
           x == 0 - w
<1>1. T \in Nat \ {0} /\ -1 \in Int
  BY Limits
<1>2. x \in Int /\ T - w \in 0 .. T - 1 /\ x = (-1) * T + (T - w)
  BY <1>1
<1> HIDE DEF x, T
<1>3. x \div T \in Int /\ x % T \in 0 .. T - 1 /\ x = (x \div T) * T + (x % T)
  BY <1>1, <1>2, Quotient
<1>4. x % T = T - w
  BY <1>1, <1>2, <1>3, Division
<1> QED BY <1>4 DEF Unsigned, x, T

\* What parseFixed does with the sign.
LEMMA SignIs ==
    ASSUME NEW w \in 0 .. negLimit
    PROVE  /\ w < negLimit => Signed(w) = w
           /\ Signed(Unsigned(0 - w)) = -w
<1> DEFINE L == negLimit
           T == 2 * L
<1>1. L \in Nat /\ L >= 1 /\ w \in Nat /\ w <= L
  BY Limits
<1> HIDE DEF L
<1>2. Unsigned(0 - w) = IF w = 0 THEN 0 ELSE T - w
  <2>1. CASE w = 0
    <3>1. 0 - w \in Int /\ 0 - w = 0 /\ 0 \in 0 .. 2 * negLimit - 1
      BY <1>1, <2>1 DEF L
    <3> QED BY <2>1, <3>1, UnsignedIs
  <2>2. CASE w # 0
    <3>1. w \in 1 .. 2 * negLimit - 1
      BY <1>1, <2>2 DEF L
    <3> QED BY <2>2, <3>1, Negated DEF L
  <2> QED BY <2>1, <2>2
<1>3. Signed(Unsigned(0 - w)) = -w
  <2> DEFINE u == Unsigned(0 - w)
  <2> HIDE DEF u
  <2>1. Signed(u) = IF u >= L THEN u - T ELSE u
    BY DEF Signed, L
  <2>2. u = IF w = 0 THEN 0 ELSE T - w
    BY <1>2 DEF u
  <2> QED BY <1>1, <2>1, <2>2 DEF u
<1>4. w < L => Signed(w) = w
  BY <1>1 DEF Signed, L
<1> QED BY <1>3, <1>4 DEF L

(***************************************************************************)
(* parseFixed, for any width and number of decimals and any sequence of    *)
(* characters: it accepts exactly the well-formed texts whose nearest      *)
(* multiple fits, and returns that multiple, rounded half away from zero.  *)
(***************************************************************************)
THEOREM ParseIsExact ==
    ASSUME NEW Char, NEW t \in Seq(Char)
    PROVE  ParsesTo(t)
<1> DEFINE signed == t # <<>> /\ IsSign(t[1])
           negative == signed /\ t[1] = "-"
           body == IF signed THEN Tail(t) ELSE t
           p == RoundUp(Pad(Scanned(body)))
           W == Magnitude(t)
           L == negLimit
           fine == p.ok /\ p.anyDigit /\ p.value <= L /\ (p.value = L => negative)
           sign == Signed(IF negative THEN Unsigned(0 - p.value) ELSE p.value)
<1>1. parseFixed(t) = IF fine THEN {sign} ELSE {}
  BY Zenon DEF parseFixed
<1>2. body = Unsign(t)
  BY Zenon DEF Unsign
<1>3. /\ W \in Int
      /\ p.ok /\ p.anyDigit <=> WellFormed(t) /\ W <= L
      /\ p.ok /\ p.anyDigit => p.value = W
  <2> HIDE DEF body
  <2> QED BY <1>2, MagnitudeIs
<1>4. Nearest(t) = IF t[1] = "-" THEN -W ELSE W
  BY Zenon DEF Nearest, Magnitude
<1>5. WellFormed(t) => (negative <=> t[1] = "-")
  <2>1. SUFFICES ASSUME WellFormed(t)
                 PROVE  negative <=> t[1] = "-"
    BY <2>1
  <2>2. t # <<>>
    <3>1. SUFFICES ASSUME t = <<>>
                   PROVE  FALSE
      BY <3>1
    <3>2. Unsign(t) = <<>>
      BY <3>1, Zenon DEF Unsign
    <3>3. DOMAIN Unsign(t) = {}
      BY <3>2
    <3> QED BY <2>1, <3>3, Zenon DEF WellFormed
  <2> QED BY <2>2 DEF IsSign
<1>6. WellFormed(t) => W >= 0
  <2>1. Numerator(t) \in Nat /\ Places(t) \in Nat
    BY BodyIs, LoopEnds, PlacesIs
  <2> DEFINE U == Power(10, Places(t))
             N == Numerator(t)
             S == FIXED_SCALE
  <2>2. U \in Nat /\ U >= 1 /\ S \in Nat /\ N \in Nat
    <3>1. 10 \in Nat /\ 10 >= 1
      OBVIOUS
    <3> QED BY <2>1, <3>1, PowerAtLeast, Limits
  <2>3. W = (2 * N * S + U) \div (2 * U)
    BY Zenon DEF Magnitude
  <2> HIDE DEF U, N, S, W
  <2> DEFINE x == 2 * N * S + U
             T == 2 * U
  <2>4. x \in Nat /\ T \in Nat \ {0}
    BY <2>2
  <2> HIDE DEF x, T
  <2>5. x \div T >= 0
    BY <2>4
  <2> QED BY <2>3, <2>5 DEF x, T
<1>7. L \in Nat /\ L >= 1 /\ Fixed = -L .. L - 1
  BY Limits DEF Fixed
<1> HIDE DEF p, W, L
<1>8. CASE ~(WellFormed(t) /\ W <= L)
  <2>1. ~fine
    BY <1>3, <1>8
  <2>2. ~(WellFormed(t) /\ Nearest(t) \in Fixed)
    BY <1>3, <1>4, <1>7, <1>8
  <2> HIDE DEF fine, sign
  <2> QED BY <1>1, <2>1, <2>2, Zenon DEF ParsesTo
<1>9. CASE WellFormed(t) /\ W <= L
  <2>1. p.ok /\ p.anyDigit /\ p.value = W /\ W \in 0 .. L
    BY <1>3, <1>6, <1>9
  <2>2. CASE negative
    <3>1. Nearest(t) = -W /\ Nearest(t) \in Fixed
      BY <1>3, <1>4, <1>5, <1>7, <1>9, <2>1, <2>2
    <3>2. fine /\ sign = -W
      BY <2>1, <2>2, SignIs DEF L
    <3> HIDE DEF fine, sign
    <3> QED BY <1>1, <1>9, <3>1, <3>2, Zenon DEF ParsesTo
  <2>3. CASE ~negative
    <3>1. Nearest(t) = W /\ (Nearest(t) \in Fixed <=> W < L)
      BY <1>3, <1>4, <1>5, <1>7, <1>9, <2>1, <2>3
    <3>2. fine <=> W < L
      BY <1>3, <1>7, <2>1, <2>3
    <3>3. W < L => sign = W
      BY <2>1, <2>3, SignIs DEF L
    <3> HIDE DEF fine, sign
    <3> QED BY <1>1, <1>9, <3>1, <3>2, <3>3, Zenon DEF ParsesTo
  <2> QED BY <2>2, <2>3
<1> QED BY <1>8, <1>9

\* Dropping one more digit is dividing by ten once more.
LEMMA NextDigit ==
    ASSUME NEW n \in Nat, NEW j \in Nat
    PROVE  LET a == n \div Power(10, j)
               b == n \div Power(10, j + 1)
           IN  a \in Nat /\ b \in Nat /\ a % 10 \in 0 .. 9 /\ a = 10 * b + (a % 10)
<1> DEFINE P == Power(10, j)
           a == n \div P
           r == n % P
           b == a \div 10
           c == a % 10
<1>1. P \in Nat \ {0} /\ Power(10, j + 1) = 10 * P
  <2>1. 10 \in Nat /\ 10 >= 1
    OBVIOUS
  <2>2. P \in Nat /\ P >= 1 /\ Power(10, j + 1) = 10 * P
    BY <2>1, PowerAtLeast, PowerIs
  <2> HIDE DEF P
  <2> QED BY <2>2
<1> HIDE DEF P
<1>2. a \in Nat /\ r \in 0 .. P - 1 /\ n = a * P + r
  <2>0. n \in Int
    OBVIOUS
  <2>1. a \in Int /\ r \in 0 .. P - 1 /\ n = a * P + r
    BY <1>1, <2>0, Quotient
  <2>2. a \in Nat
    BY <1>1
  <2> QED BY <2>1, <2>2
<1> HIDE DEF a, r
<1>3. b \in Nat /\ c \in 0 .. 9 /\ a = 10 * b + c
  BY <1>2
<1> HIDE DEF b, c
<1> DEFINE o == c * P + r
           T == 10 * P
<1>4. T \in Nat \ {0} /\ o \in 0 .. T - 1
  <2>1. c * P \in Nat /\ c * P <= 9 * P
    BY <1>1, <1>3
  <2> QED BY <1>1, <1>2, <2>1
<1>5. n = b * T + o
  <2>1. a * P = b * T + c * P
    BY <1>1, <1>3
  <2>2. a * P \in Int /\ b * T \in Int /\ c * P \in Int
    BY <1>1, <1>2, <1>3
  <2> QED BY <1>2, <2>1, <2>2
<1> HIDE DEF o, T
<1>6. n \div T = b
  BY <1>3, <1>4, <1>5, QuotientOf
<1> QED BY <1>1, <1>2, <1>3, <1>6 DEF a, P, T, c

\* The characters formatFixed writes.
Printed == Range(Numeral) \cup {"-", "."}

\* Digits writes the digits of a number.
LEMMA DigitsAre ==
    ASSUME NEW n \in Nat, NEW count \in Nat
    PROVE  LET s == Digits(n, count)
           IN  /\ s \in Seq(Printed) /\ Len(s) = count
               /\ \A i \in 1 .. count : IsDigit(s[i]) /\ DigitOf(s[i]) = (n \div Power(10, count - i)) % 10
<1> DEFINE s == Digits(n, count)
           D(i) == (n \div Power(10, count - i)) % 10
<1>1. s = [i \in 1 .. count |-> Numeral[D(i) + 1]]
  BY Zenon DEF Digits
<1>2. ASSUME NEW i \in 1 .. count
      PROVE  D(i) \in 0 .. 9
  <2>1. count - i \in Nat
    OBVIOUS
  <2> QED BY <2>1, NextDigit
<1>3. \A d \in 0 .. 9 : Numeral[d + 1] \in Printed
  <2>1. \A d \in 0 .. 9 : IsDigit(Numeral[d + 1])
    BY NumeralIs
  <2> QED BY <2>1, Zenon DEF Printed, IsDigit
<1> HIDE DEF D, s
<1>4. s \in [1 .. count -> Printed]
  BY <1>1, <1>2, <1>3
<1>5. s \in Seq(Printed) /\ Len(s) = count
  BY <1>4
<1>6. ASSUME NEW i \in 1 .. count
      PROVE  IsDigit(s[i]) /\ DigitOf(s[i]) = D(i)
  <2>1. s[i] = Numeral[D(i) + 1] /\ D(i) \in 0 .. 9
    BY <1>1, <1>2
  <2> QED BY <2>1, NumeralIs
<1> QED BY <1>5, <1>6 DEF s, D

\* The first len of the c digits of n, at the characters after b.
Run(body, b, n, c, len) == \A j \in 1 .. len : body[b + j] = Digits(n, c)[j]

\* What they make of the number before them.
LEMMA RunValue ==
    ASSUME NEW g, NEW t, NEW body, Len(body) \in Nat, Totals(g, t, body), NEW b \in Nat, NEW c \in Nat, NEW len \in Nat,
           len <= c, b + len <= Len(body), NEW n \in Nat, n < Power(10, c), Run(body, b, n, c, len)
    PROVE  g[b + len] = g[b] * Power(10, len) + (n \div Power(10, c - len))
<1> DEFINE S == {j \in 0 .. len : g[b + j] = g[b] * Power(10, j) + (n \div Power(10, c - j))}
<1>0. g[b] \in Nat
  <2>1. b \in 0 .. Len(body)
    OBVIOUS
  <2> QED BY <2>1 DEF Totals
<1>1. 0 \in S
  <2> DEFINE P == Power(10, c)
  <2>1. P \in Nat /\ Power(10, 0) = 1
    BY PowerIs
  <2>2. n \div P = 0
    <3> HIDE DEF P
    <3>1. n < P
      BY DEF P
    <3>2. P \in Nat \ {0} /\ n \in 0 .. P - 1 /\ 0 \in Int
      BY <2>1, <3>1
    <3>3. (0 * P + n) \div P = 0
      BY <3>2, QuotientOf
    <3> QED BY <2>1, <3>3
  <2>3. c - 0 = c /\ b + 0 = b /\ 0 \in 0 .. len
    OBVIOUS
  <2>4. g[b] = g[b] * Power(10, 0) + 0
    BY <1>0, <2>1
  <2> QED BY <2>2, <2>3, <2>4
<1>2. ASSUME NEW i \in 1 .. len, i - 1 \in S
      PROVE  i \in S
  <2> DEFINE k == i - 1
             e == c - i
             x == n \div Power(10, e)
             y == n \div Power(10, e + 1)
             P == Power(10, k)
             B == g[b]
             z == x % 10
  <2>1. k \in Nat /\ k + 1 = i /\ e \in Nat /\ e + 1 = c - k /\ b + i \in 1 .. Len(body) /\ (b + i) - 1 = b + k
        /\ i \in 0 .. len /\ i \in 1 .. c
    OBVIOUS
  <2>2. g[b + k] = B * P + y
    BY <1>2, <2>1
  <2>3. IsDigit(body[b + i]) /\ DigitOf(body[b + i]) = z
    <3>1. body[b + i] = Digits(n, c)[i]
      BY DEF Run
    <3>2. IsDigit(Digits(n, c)[i]) /\ DigitOf(Digits(n, c)[i]) = (n \div Power(10, c - i)) % 10
      BY <2>1, DigitsAre
    <3> QED BY <3>1, <3>2
  <2>4. g[b + i] = g[b + k] * 10 + z
    BY <2>1, <2>3 DEF Totals
  <2>5. x \in Nat /\ y \in Nat /\ z \in 0 .. 9 /\ x = 10 * y + z
    BY <2>1, NextDigit
  <2>6. P \in Nat /\ Power(10, k + 1) = 10 * P
    BY <2>1, PowerIs
  <2>7. B \in Nat
    BY <1>0
  <2> HIDE DEF x, y, z, P, B, k
  <2>8. (B * P + y) * 10 + z = B * (10 * P) + x
    BY <2>5, <2>6, <2>7
  <2>9. g[b + i] = B * Power(10, i) + x
    BY <2>1, <2>2, <2>4, <2>6, <2>8
  <2> QED BY <2>1, <2>9 DEF B, x
<1> HIDE DEF S
<1>3. \A j \in 0 .. len : j \in S
  BY <1>1, <1>2, Upwards
<1>4. len \in S
  BY <1>3
<1> QED BY <1>4 DEF S

\* Zeros at the end carry nothing.
Zeros(s, len, c) == \A k \in len + 1 .. c : s[k] = "0"

LEMMA ZeroTail ==
    ASSUME NEW f \in Nat, NEW c \in Nat, NEW len \in 0 .. c, Zeros(Digits(f, c), len, c)
    PROVE  f = (f \div Power(10, c - len)) * Power(10, c - len)
<1> DEFINE m == c - len
           S == {j \in 0 .. m : f = (f \div Power(10, j)) * Power(10, j)}
<1>1. m \in Nat
  OBVIOUS
<1>2. 0 \in S
  <2>1. Power(10, 0) = 1
    BY PowerIs
  <2>2. f = (f \div 1) * 1
    OBVIOUS
  <2> QED BY <1>1, <2>1, <2>2
<1>3. ASSUME NEW i \in 1 .. m, i - 1 \in S
      PROVE  i \in S
  <2> DEFINE k == i - 1
             x == f \div Power(10, k)
             y == f \div Power(10, k + 1)
             P == Power(10, k)
  <2>1. k \in Nat /\ k + 1 = i /\ c - k \in len + 1 .. c /\ c - k \in 1 .. c /\ c - (c - k) = k /\ i \in 0 .. m
    BY <1>1
  <2>2. f = x * P
    BY <1>3
  <2>3. x % 10 = 0
    <3>1. DigitOf(Digits(f, c)[c - k]) = x % 10
      BY <2>1, DigitsAre
    <3>2. Digits(f, c)[c - k] = "0"
      BY <2>1 DEF Zeros
    <3>3. DigitOf("0") = 0
      <4>1. Numeral[0 + 1] = "0"
        BY DEF Numeral
      <4>2. 0 \in 0 .. 9
        OBVIOUS
      <4> QED BY <4>1, <4>2, NumeralIs
    <3> QED BY <3>1, <3>2, <3>3
  <2>4. x \in Nat /\ y \in Nat /\ x = 10 * y + (x % 10)
    BY <2>1, NextDigit
  <2>5. P \in Nat /\ Power(10, k + 1) = 10 * P
    BY <2>1, PowerIs
  <2> HIDE DEF x, y, P, k
  <2>6. x = 10 * y
    BY <2>3, <2>4
  <2>7. (10 * y) * P = y * (10 * P)
    BY <2>4, <2>5
  <2>8. f = y * Power(10, i)
    BY <2>1, <2>2, <2>5, <2>6, <2>7
  <2> QED BY <2>1, <2>8 DEF y
<1> HIDE DEF S, m
<1>4. \A j \in 0 .. m : j \in S
  BY <1>1, <1>2, <1>3, Upwards
<1>5. m \in S
  BY <1>1, <1>4
<1> QED BY <1>5 DEF S, m

\* formatFixed takes the magnitude of every value, the lowest one too.
LEMMA FormatsMagnitude ==
    ASSUME NEW v \in Fixed
    PROVE  /\ v < 0 => Unsigned(0 - Unsigned(v)) = -v /\ -v \in 1 .. negLimit
           /\ ~(v < 0) => Unsigned(v) = v /\ v \in 0 .. negLimit - 1
<1>1. negLimit \in Nat /\ negLimit >= 1 /\ v \in -negLimit .. negLimit - 1 /\ v \in Int
  BY Limits DEF Fixed
<1>2. CASE v < 0
  <2> DEFINE w == -v
             u == 2 * negLimit - w
  <2>1. w \in 1 .. 2 * negLimit - 1 /\ w \in 1 .. negLimit /\ 0 - w = v
    BY <1>1, <1>2
  <2>2. Unsigned(v) = u
    <3> HIDE DEF w
    <3> QED BY <2>1, Negated
  <2>3. u \in 1 .. 2 * negLimit - 1 /\ 2 * negLimit - u = w
    BY <1>1, <2>1
  <2> HIDE DEF u, w
  <2>4. Unsigned(0 - u) = w
    BY <2>3, Negated
  <2> QED BY <1>2, <2>1, <2>2, <2>4 DEF w
<1>3. CASE ~(v < 0)
  <2>1. v \in 0 .. 2 * negLimit - 1 /\ v \in 0 .. negLimit - 1
    BY <1>1, <1>3
  <2> QED BY <1>1, <1>3, <2>1, UnsignedIs
<1> QED BY <1>2, <1>3

\* Every number that fits has at most Width digits.
LEMMA FewDigits ==
    ASSUME NEW w \in Nat, w <= negLimit
    PROVE  \E n \in 1 .. Width : w < Power(10, n) /\ (n > 1 => w >= Power(10, n - 1))
<1> DEFINE m == Width - 1
           S == {k \in 0 .. m : Power(2, k) <= Power(10, k)}
<1>1. Width \in Nat /\ m \in Nat /\ m + 1 = Width
  BY FixedAssumption
<1>2. 0 \in S
  <2>1. Power(2, 0) = 1 /\ Power(10, 0) = 1
    BY PowerIs
  <2> QED BY <1>1, <2>1
<1> HIDE DEF m
<1>3. ASSUME NEW i \in 1 .. m, i - 1 \in S
      PROVE  i \in S
  <2> DEFINE k == i - 1
             x == Power(2, k)
             y == Power(10, k)
  <2>1. k \in Nat /\ k + 1 = i /\ i \in 0 .. m
    BY <1>1
  <2>2. x \in Nat /\ y \in Nat /\ Power(2, k + 1) = 2 * x /\ Power(10, k + 1) = 10 * y
    BY <2>1, PowerIs
  <2>3. x <= y
    BY <1>3
  <2> HIDE DEF x, y, k
  <2>4. 2 * x <= 10 * y
    BY <2>2, <2>3
  <2>5. Power(2, i) <= Power(10, i)
    BY <2>1, <2>2, <2>4
  <2> QED BY <2>1, <2>5
<1>4. m \in S
  <2> HIDE DEF S
  <2>1. \A i \in 0 .. m : i \in S
    BY <1>1, <1>2, <1>3, Upwards
  <2> QED BY <1>1, <2>1
<1>5. w < Power(10, Width)
  <2> DEFINE y == Power(10, m)
  <2>1. y \in Nat /\ y >= 1 /\ Power(10, m + 1) = 10 * y
    <3>1. 10 \in Nat /\ 10 >= 1
      OBVIOUS
    <3> QED BY <1>1, <3>1, PowerAtLeast, PowerIs
  <2>2. negLimit <= y /\ negLimit \in Nat
    BY <1>4, Limits DEF negLimit, m
  <2> HIDE DEF y
  <2>3. w < 10 * y
    BY <2>1, <2>2
  <2> QED BY <1>1, <2>1, <2>3
<1> DEFINE A == {n \in Nat : n >= 1 /\ w < Power(10, n)}
<1>6. A \in SUBSET Nat /\ Width \in A
  BY <1>1, <1>5
<1>7. PICK n \in A : \A k \in A : n <= k
  <2> HIDE DEF A
  <2> QED BY <1>6, Least
<1>8. n \in Nat /\ n \in 1 .. Width /\ w < Power(10, n)
  BY <1>1, <1>6, <1>7
<1>9. ASSUME n > 1
      PROVE  w >= Power(10, n - 1)
  <2>1. n - 1 \in Nat /\ n - 1 >= 1 /\ ~(n <= n - 1)
    BY <1>8, <1>9
  <2>2. n - 1 \notin A
    BY <1>7, <2>1
  <2>3. Power(10, n - 1) \in Nat
    BY <2>1, PowerIs
  <2> QED BY <2>1, <2>2, <2>3
<1> QED BY <1>8, <1>9

\* The decimals that are left are the first ones, and the others are zeros.
LEMMA FractionIs ==
    ASSUME NEW f \in Nat, f > 0, f < FIXED_SCALE
    PROVE  \E len \in 1 .. FIXED_DIGITS :
              /\ Fraction(f) \in Seq(Printed) /\ Len(Fraction(f)) = len
              /\ \A j \in 1 .. len : Fraction(f)[j] = Digits(f, FIXED_DIGITS)[j]
              /\ Zeros(Digits(f, FIXED_DIGITS), len, FIXED_DIGITS)
<1> DEFINE D == FIXED_DIGITS
           all == Digits(f, D)
           Ends(n) == all[n] # "0" /\ \A k \in n + 1 .. D : all[k] = "0"
           len == CHOOSE n \in 1 .. D : Ends(n)
<1>1. D \in Nat
  BY Limits
<1>2. all \in Seq(Printed) /\ Len(all) = D
  BY <1>1, DigitsAre
<1>3. \E n \in 1 .. D : Ends(n)
  <2> DEFINE B == {k \in Nat : k < D /\ all[D - k] # "0"}
  <2>1. B # {}
    <3>1. SUFFICES ASSUME B = {}
                   PROVE  FALSE
      BY <3>1
    <3>2. ASSUME NEW k \in 0 + 1 .. D
          PROVE  all[k] = "0"
      <4>1. D - k \in Nat /\ D - k < D /\ D - (D - k) = k
        BY <1>1
      <4> QED BY <3>1, <4>1
    <3>3. 0 \in 0 .. D /\ D - 0 = D
      BY <1>1
    <3>4. f = (f \div Power(10, D)) * Power(10, D)
      <4> HIDE DEF D, B
      <4>1. Zeros(all, 0, D)
        BY <3>2 DEF Zeros
      <4> HIDE DEF len, Ends
      <4>2. f = (f \div Power(10, D - 0)) * Power(10, D - 0)
        BY <1>1, <3>3, <4>1, ZeroTail
      <4> QED BY <3>3, <4>2
    <3> DEFINE P == Power(10, D)
               x == f \div P
    <3>5. P \in Nat /\ f < P
      BY Limits DEF FIXED_SCALE
    <3>6. f = x * P
      BY <3>4
    <3> HIDE DEF P
    <3>7. x \in Int
      BY <3>5
    <3> HIDE DEF x
    <3>8. x <= 0 \/ x >= 1
      BY <3>7
    <3>9. CASE x <= 0
      <4>1. x * P <= 0
        BY <3>5, <3>7, <3>9
      <4> QED BY <3>6, <4>1
    <3>10. CASE x >= 1
      <4>1. x * P >= P
        BY <3>5, <3>7, <3>10
      <4> QED BY <3>5, <3>6, <4>1
    <3> QED BY <3>8, <3>9, <3>10
  <2>2. B \in SUBSET Nat
    OBVIOUS
  <2>3. PICK k \in B : \A i \in B : k <= i
    <3> HIDE DEF B
    <3> QED BY <2>1, <2>2, Least
  <2>4. k \in Nat /\ k < D /\ all[D - k] # "0" /\ D - k \in 1 .. D
    BY <1>1, <2>3
  <2>5. ASSUME NEW i \in (D - k) + 1 .. D
        PROVE  all[i] = "0"
    <3>1. D - i \in Nat /\ D - i < D /\ ~(k <= D - i) /\ D - (D - i) = i
      BY <1>1, <2>4
    <3>2. D - i \notin B
      BY <2>3, <3>1
    <3> QED BY <3>1, <3>2
  <2> HIDE DEF D, B, all
  <2> QED BY <2>4, <2>5
<1>4. len \in 1 .. D /\ Ends(len)
  <2> HIDE DEF Ends
  <2> QED BY <1>3
<1>5. Fraction(f) = SubSeq(all, 1, len)
  BY Zenon DEF Fraction
<1>6. Zeros(all, len, D)
  BY <1>4 DEF Zeros
<1> HIDE DEF len, all, D
<1>7. \A i \in 1 .. len : all[i] \in Printed
  <2>1. \A i \in 1 .. len : i \in 1 .. D
    BY <1>1, <1>4
  <2>2. \A i \in 1 .. D : all[i] \in Printed
    BY <1>1, <1>2
  <2> QED BY <2>1, <2>2
<1>8. 1 \in Int /\ len \in Int /\ 1 <= len
  BY <1>1, <1>4
<1> DEFINE F == Fraction(f)
<1>9. F \in Seq(Printed) /\ Len(F) = len /\ \A i \in 1 .. len : F[i] = all[i]
  <2>1. /\ SubSeq(all, 1, len) \in Seq(Printed)
        /\ Len(SubSeq(all, 1, len)) = IF 1 <= len THEN len - 1 + 1 ELSE 0
        /\ \A i \in 1 .. len - 1 + 1 : SubSeq(all, 1, len)[i] = all[1 + i - 1]
    BY <1>7, <1>8, SubSeqProperties
  <2> HIDE DEF F
  <2>2. F = SubSeq(all, 1, len)
    BY <1>5 DEF F
  <2>3. len - 1 + 1 = len /\ \A i \in 1 .. len : 1 + i - 1 = i
    BY <1>8
  <2> QED BY <1>8, <2>1, <2>2, <2>3
<1> QED BY <1>4, <1>6, <1>9 DEF all, D

LEMMA PrintedMarks == "-" \in Printed /\ "." \in Printed
  BY DEF Printed

\* x is a, of n characters, and then b, of m.
Joins(x, a, n, b, m) ==
    /\ x \in Seq(Printed) /\ Len(x) = n + m /\ n \in Nat /\ m \in Nat
    /\ \A i \in 1 .. n + m : x[i] = IF i <= n THEN a[i] ELSE b[i - n]

LEMMA Joined ==
    ASSUME NEW a \in Seq(Printed), NEW b \in Seq(Printed), NEW n, Len(a) = n, NEW m, Len(b) = m
    PROVE  Joins(a \o b, a, n, b, m)
<1> DEFINE y == a \o b
<1>1. /\ y \in Seq(Printed) /\ Len(y) = Len(a) + Len(b)
      /\ \A i \in 1 .. Len(a) + Len(b) : y[i] = IF i <= Len(a) THEN a[i] ELSE b[i - Len(a)]
  BY ConcatProperties
<1>2. Len(a) \in Nat /\ Len(b) \in Nat
  OBVIOUS
<1> HIDE DEF y
<1>3. Joins(y, a, n, b, m)
  BY <1>1, <1>2 DEF Joins
<1> QED BY <1>3 DEF y

\* Taking the sign off what formatFixed puts together.
LEMMA UnsignOf ==
    ASSUME NEW A \in Seq(Printed), Len(A) >= 1, IsDigit(A[1]), NEW B \in Seq(Printed), NEW v \in Int
    PROVE  LET x == (IF v < 0 THEN <<"-">> ELSE <<>>) \o A \o B
           IN  x \in Seq(Printed) /\ Unsign(x) = A \o B /\ (x[1] = "-" <=> v < 0)
<1> DEFINE y == A \o B
           sign == <<"-">>
<1>1. /\ y \in Seq(Printed) /\ Len(y) = Len(A) + Len(B) /\ Len(A) \in Nat /\ Len(B) \in Nat
      /\ \A i \in 1 .. Len(A) + Len(B) : y[i] = IF i <= Len(A) THEN A[i] ELSE B[i - Len(A)]
  BY ConcatProperties
<1>2. y[1] = A[1] /\ 1 \in 1 .. Len(y) /\ y # <<>>
  <2>1. 1 \in 1 .. Len(A) + Len(B) /\ 1 <= Len(A)
    BY <1>1
  <2> HIDE DEF y
  <2>2. y[1] = A[1] /\ 1 \in 1 .. Len(y)
    BY <1>1, <2>1
  <2>3. y # <<>>
    BY <1>1, <2>1
  <2> QED BY <2>2, <2>3
<1>3. ~IsSign(A[1]) /\ A[1] # "-"
  <2>1. ~IsSign(A[1])
    BY DigitIs
  <2> QED BY <2>1 DEF IsSign
<1>4. CASE v < 0
  <2> DEFINE x == sign \o A \o B
  <2>1. sign \in Seq(Printed) /\ Len(sign) = 1 /\ sign[1] = "-"
    BY PrintedMarks
  <2> HIDE DEF sign
  <2>2. x = sign \o y
    BY <2>1, ConcatAssociative
  <2> HIDE DEF x, y
  <2>3. /\ x \in Seq(Printed) /\ Len(x) = 1 + Len(y)
        /\ \A i \in 1 .. 1 + Len(y) : x[i] = IF i <= 1 THEN sign[i] ELSE y[i - 1]
    <3>1. Joins(sign \o y, sign, 1, y, Len(y))
      BY <1>1, <2>1, Joined
    <3> QED BY <2>2, <3>1 DEF Joins
  <2>4. Len(y) \in Nat /\ 1 \in 1 .. 1 + Len(y)
    BY <1>1
  <2>5. x[1] = "-" /\ x # <<>>
    <3>1. x[1] = "-"
      BY <2>1, <2>3, <2>4
    <3>2. x # <<>>
      BY <2>3, <2>4
    <3> QED BY <3>1, <3>2
  <2>6. Unsign(x) = Tail(x)
    BY <2>5 DEF Unsign, IsSign
  <2>7. Tail(x) = y
    <3>1. /\ Tail(x) \in Seq(Printed) /\ Len(Tail(x)) = Len(x) - 1
          /\ \A i \in 1 .. Len(Tail(x)) : Tail(x)[i] = x[i + 1]
      BY <2>3, <2>5, HeadTailProperties
    <3>2. Len(Tail(x)) = Len(y)
      BY <2>3, <2>4, <3>1
    <3>3. ASSUME NEW i \in 1 .. Len(y)
          PROVE  Tail(x)[i] = y[i]
      <4>1. i + 1 \in 1 .. 1 + Len(y) /\ ~(i + 1 <= 1) /\ (i + 1) - 1 = i
        BY <2>4
      <4>2. x[i + 1] = y[(i + 1) - 1]
        BY <2>3, <4>1
      <4> QED BY <3>1, <3>2, <4>1, <4>2
    <3> QED BY <1>1, <3>1, <3>2, <3>3, SeqEqual
  <2> QED BY <1>4, <2>3, <2>5, <2>6, <2>7 DEF x, y, sign
<1>5. CASE ~(v < 0)
  <2>1. <<>> \o A \o B = y
    BY ConcatEmptySeq
  <2> HIDE DEF y
  <2>2. Unsign(y) = y
    BY <1>2, <1>3, Zenon DEF Unsign
  <2> QED BY <1>1, <1>2, <1>3, <1>5, <2>1, <2>2 DEF y
<1> QED BY <1>4, <1>5

\* The body of a text that has the number w and, after a point, the fraction f.
Writes(body, w, f) ==
    \E c \in Nat :
        /\ c >= 1 /\ w < Power(10, c) /\ c <= Len(body) /\ Run(body, 0, w, c, c)
        /\ \/ f = 0 /\ Len(body) = c
           \/ /\ f > 0
              /\ \E len \in 1 .. FIXED_DIGITS :
                     /\ Len(body) = (c + 1) + len /\ body[c + 1] = "." /\ Run(body, c + 1, f, FIXED_DIGITS, len)
                     /\ Zeros(Digits(f, FIXED_DIGITS), len, FIXED_DIGITS)

\* formatFixed writes the two halves of the magnitude.
LEMMA FormatWrites ==
    ASSUME NEW v \in Fixed, NEW M \in Nat, M <= negLimit, M = IF v < 0 THEN -v ELSE v
    PROVE  LET t == formatFixed(v)
           IN  /\ t \in Seq(Printed) /\ (t[1] = "-" <=> v < 0)
               /\ Writes(Unsign(t), M \div FIXED_SCALE, M % FIXED_SCALE)
<1> DEFINE S == FIXED_SCALE
           w == M \div S
           f == M % S
           Fits(n) == w < Power(10, n) /\ (n > 1 => w >= Power(10, n - 1))
           c == CHOOSE n \in 1 .. Width : Fits(n)
           A == Digits(w, c)
           B == IF f = 0 THEN <<>> ELSE <<".">> \o Fraction(f)
           t == formatFixed(v)
           magnitude == IF v < 0 THEN Unsigned(0 - Unsigned(v)) ELSE Unsigned(v)
<1>1. magnitude = M
  BY FormatsMagnitude
<1>2. t = (IF v < 0 THEN <<"-">> ELSE <<>>) \o A \o B
  <2> DEFINE Text(m) ==
        LET whole     == m \div FIXED_SCALE
            fraction  == m % FIXED_SCALE
            count     == CHOOSE n \in 1 .. Width : whole < Power(10, n) /\ (n > 1 => whole >= Power(10, n - 1))
        IN  (IF v < 0 THEN <<"-">> ELSE <<>>)
            \o Digits(whole, count)
            \o (IF fraction = 0 THEN <<>> ELSE <<".">> \o Fraction(fraction))
  <2>1. t = Text(magnitude)
    BY Zenon DEF formatFixed
  <2>2. Text(M) = (IF v < 0 THEN <<"-">> ELSE <<>>) \o A \o B
    BY Zenon
  <2> HIDE DEF Text, magnitude
  <2> QED BY <1>1, <2>1, <2>2
<1>3. S \in Nat \ {0} /\ v \in Int /\ negLimit \in Nat
  BY Limits DEF Fixed
<1> HIDE DEF S
<1>4. w \in Nat /\ w <= M /\ f \in 0 .. S - 1
  <2>1. M \in Int
    OBVIOUS
  <2>2. w \in Int /\ f \in 0 .. S - 1 /\ M = w * S + f
    BY <1>3, <2>1, Quotient
  <2>3. w \in Nat
    BY <1>3
  <2> HIDE DEF w, f
  <2>4. w * S >= w
    BY <1>3, <2>3
  <2>5. w * S \in Int /\ f \in Nat
    BY <1>3, <2>2, <2>3
  <2>6. w <= M
    BY <2>2, <2>3, <2>4, <2>5
  <2> QED BY <2>2, <2>3, <2>6
<1> HIDE DEF w, f
<1>5. c \in 1 .. Width /\ Fits(c)
  <2>1. w <= negLimit
    BY <1>3, <1>4
  <2>2. \E n \in 1 .. Width : Fits(n)
    BY <1>4, <2>1, FewDigits
  <2> HIDE DEF Fits
  <2> QED BY <2>2
<1>6. c \in Nat /\ c >= 1 /\ w < Power(10, c)
  BY <1>5, FixedAssumption
<1> HIDE DEF c
<1>7. A \in Seq(Printed) /\ Len(A) = c /\ (\A i \in 1 .. c : IsDigit(A[i])) /\ IsDigit(A[1])
  <2>1. A \in Seq(Printed) /\ Len(A) = c /\ \A i \in 1 .. c : IsDigit(A[i])
    BY <1>4, <1>6, DigitsAre
  <2>2. 1 \in 1 .. c
    BY <1>6
  <2> QED BY <2>1, <2>2
<1> HIDE DEF A
<1>8. /\ B \in Seq(Printed)
      /\ \/ f = 0 /\ Len(B) = 0
         \/ /\ f > 0
            /\ \E len \in 1 .. FIXED_DIGITS :
                  /\ Len(B) = 1 + len /\ B[1] = "." /\ Zeros(Digits(f, FIXED_DIGITS), len, FIXED_DIGITS)
                  /\ \A j \in 1 .. len : B[1 + j] = Digits(f, FIXED_DIGITS)[j]
  <2>1. CASE f = 0
    BY <2>1
  <2>2. CASE f # 0
    <3> DEFINE F == Fraction(f)
               point == <<".">>
    <3>1. f \in Nat /\ f > 0 /\ f < FIXED_SCALE
      BY <1>3, <1>4, <2>2 DEF S
    <3>2. PICK len \in 1 .. FIXED_DIGITS :
              /\ F \in Seq(Printed) /\ Len(F) = len
              /\ \A j \in 1 .. len : F[j] = Digits(f, FIXED_DIGITS)[j]
              /\ Zeros(Digits(f, FIXED_DIGITS), len, FIXED_DIGITS)
      BY <3>1, FractionIs
    <3>3. point \in Seq(Printed) /\ Len(point) = 1 /\ point[1] = "." /\ B = point \o F
      BY <2>2, PrintedMarks
    <3> HIDE DEF F, point, B
    <3>4. /\ B \in Seq(Printed) /\ Len(B) = 1 + len
          /\ \A i \in 1 .. 1 + len : B[i] = IF i <= 1 THEN point[i] ELSE F[i - 1]
      <4>1. Joins(point \o F, point, 1, F, len)
        BY <3>2, <3>3, Joined
      <4> QED BY <3>3, <4>1 DEF Joins
    <3>5. len \in Nat /\ len >= 1
      BY Limits
    <3>6. B[1] = "."
      BY <3>3, <3>4, <3>5
    <3>7. ASSUME NEW j \in 1 .. len
          PROVE  B[1 + j] = Digits(f, FIXED_DIGITS)[j]
      <4>1. 1 + j \in 1 .. 1 + len /\ ~(1 + j <= 1) /\ (1 + j) - 1 = j
        BY <3>5
      <4>2. B[1 + j] = F[(1 + j) - 1]
        BY <3>4, <4>1
      <4> QED BY <3>2, <4>1, <4>2
    <3> QED BY <3>1, <3>2, <3>4, <3>6, <3>7
  <2> QED BY <2>1, <2>2
<1> HIDE DEF B
<1> DEFINE body == A \o B
<1>9. t \in Seq(Printed) /\ Unsign(t) = body /\ (t[1] = "-" <=> v < 0)
  <2> HIDE DEF t
  <2> QED BY <1>2, <1>3, <1>6, <1>7, <1>8, UnsignOf
<1>10. /\ Len(body) = c + Len(B) /\ Len(B) \in Nat
       /\ \A i \in 1 .. c + Len(B) : body[i] = IF i <= c THEN A[i] ELSE B[i - c]
  <2>1. Joins(A \o B, A, c, B, Len(B))
    BY <1>7, <1>8, Joined
  <2> HIDE DEF body
  <2>2. Joins(body, A, c, B, Len(B))
    BY <2>1 DEF body
  <2> QED BY <2>2 DEF Joins
<1> HIDE DEF body
<1>11. Run(body, 0, w, c, c)
  <2>1. \A j \in 1 .. c : 0 + j = j /\ j \in 1 .. c + Len(B) /\ j <= c
    BY <1>6, <1>10
  <2> QED BY <1>10, <2>1 DEF Run, A
<1>12. \/ f = 0 /\ Len(body) = c
       \/ /\ f > 0
          /\ \E len \in 1 .. FIXED_DIGITS :
                 /\ Len(body) = (c + 1) + len /\ body[c + 1] = "." /\ Run(body, c + 1, f, FIXED_DIGITS, len)
                 /\ Zeros(Digits(f, FIXED_DIGITS), len, FIXED_DIGITS)
  <2>1. CASE f = 0 /\ Len(B) = 0
    BY <1>6, <1>10, <2>1
  <2>2. CASE f > 0 /\ \E len \in 1 .. FIXED_DIGITS :
                  /\ Len(B) = 1 + len /\ B[1] = "." /\ Zeros(Digits(f, FIXED_DIGITS), len, FIXED_DIGITS)
                  /\ \A j \in 1 .. len : B[1 + j] = Digits(f, FIXED_DIGITS)[j]
    <3>1. PICK len \in 1 .. FIXED_DIGITS :
                  /\ Len(B) = 1 + len /\ B[1] = "." /\ Zeros(Digits(f, FIXED_DIGITS), len, FIXED_DIGITS)
                  /\ \A j \in 1 .. len : B[1 + j] = Digits(f, FIXED_DIGITS)[j]
      BY <2>2
    <3>2. len \in Nat /\ len >= 1
      BY Limits
    <3>3. c + 1 \in 1 .. c + Len(B) /\ ~(c + 1 <= c) /\ (c + 1) - c = 1 /\ Len(body) = (c + 1) + len
      BY <1>6, <1>10, <3>1, <3>2
    <3>4. body[c + 1] = "."
      BY <1>10, <3>1, <3>3
    <3>5. ASSUME NEW j \in 1 .. len
          PROVE  body[(c + 1) + j] = Digits(f, FIXED_DIGITS)[j]
      <4>1. (c + 1) + j \in 1 .. c + Len(B) /\ ~((c + 1) + j <= c) /\ ((c + 1) + j) - c = 1 + j
        BY <1>6, <1>10, <3>1, <3>2
      <4>2. body[(c + 1) + j] = B[((c + 1) + j) - c]
        BY <1>10, <4>1
      <4> QED BY <3>1, <4>1, <4>2
    <3>6. Run(body, c + 1, f, FIXED_DIGITS, len)
      BY <3>5 DEF Run
    <3> QED BY <2>2, <3>1, <3>3, <3>4, <3>6
  <2> QED BY <1>8, <2>1, <2>2
<1>13. c <= Len(body)
  BY <1>6, <1>10
<1>14. Writes(body, w, f)
  BY <1>6, <1>11, <1>12, <1>13 DEF Writes
<1> QED BY <1>9, <1>14 DEF w, f, S

\* Digits contain no point.
LEMMA RunIsDigits ==
    ASSUME NEW body, NEW b \in Nat, NEW n \in Nat, NEW c \in Nat, NEW len \in Nat, len <= c, Run(body, b, n, c, len),
           NEW i \in b + 1 .. b + len
    PROVE  IsDigit(body[i]) /\ body[i] # "."
<1> DEFINE j == i - b
<1>1. j \in 1 .. len /\ j \in 1 .. c /\ b + j = i
  OBVIOUS
<1> HIDE DEF j
<1>2. body[b + j] = Digits(n, c)[j]
  BY <1>1 DEF Run
<1>3. IsDigit(Digits(n, c)[j])
  BY <1>1, DigitsAre
<1> QED BY <1>1, <1>2, <1>3, DigitIs

\* What is written is well formed and has the magnitude it was written for.
LEMMA WrittenReads ==
    ASSUME NEW t \in Seq(Printed), NEW M \in Nat, Writes(Unsign(t), M \div FIXED_SCALE, M % FIXED_SCALE)
    PROVE  WellFormed(t) /\ Magnitude(t) = M
<1> DEFINE body == Unsign(t)
           S == FIXED_SCALE
           D == FIXED_DIGITS
           w == M \div S
           f == M % S
           N == Numerator(t)
<1>1. body \in Seq(Printed) /\ Len(body) \in Nat /\ DOMAIN body = 1 .. Len(body)
  BY BodyIs
<1>2. S \in Nat \ {0} /\ D \in Nat /\ S = Power(10, D)
  BY Limits DEF FIXED_SCALE
<1>3. PICK c \in Nat :
        /\ c >= 1 /\ w < Power(10, c) /\ c <= Len(body) /\ Run(body, 0, w, c, c)
        /\ \/ f = 0 /\ Len(body) = c
           \/ /\ f > 0
              /\ \E len \in 1 .. D :
                     /\ Len(body) = (c + 1) + len /\ body[c + 1] = "." /\ Run(body, c + 1, f, D, len)
                     /\ Zeros(Digits(f, D), len, D)
  BY Zenon DEF Writes
<1>4. PICK g : Totals(g, t, body)
  BY <1>1, TotalSteps
<1> HIDE DEF S
<1>5. w \in Nat /\ f \in 0 .. S - 1 /\ M = w * S + f
  <2>1. M \in Int
    OBVIOUS
  <2>2. w \in Int /\ f \in 0 .. S - 1 /\ M = w * S + f
    BY <1>2, <2>1, Quotient
  <2>3. w \in Nat
    BY <1>2
  <2> QED BY <2>2, <2>3
<1> HIDE DEF body, w, f
<1>6. g[c] = w
  <2>1. c <= c /\ 0 + c <= Len(body) /\ 0 \in Nat /\ c \in 0 .. c /\ 0 + c = c /\ c - c = 0
    BY <1>3
  <2>2. w < Power(10, c) /\ Run(body, 0, w, c, c)
    BY <1>3
  <2>3. g[0 + c] = g[0] * Power(10, c) + (w \div Power(10, c - c))
    BY <1>1, <1>4, <1>5, <2>1, <2>2, RunValue
  <2>4. g[0] = 0 /\ Power(10, c) \in Nat /\ Power(10, 0) = 1
    BY <1>4, PowerIs DEF Totals
  <2>5. w \div 1 = w
    BY <1>5
  <2>6. g[0] * Power(10, c) = 0
    BY <2>4
  <2> QED BY <1>5, <2>1, <2>3, <2>4, <2>5, <2>6
<1>7. \A i \in 1 .. c : IsDigit(body[i]) /\ body[i] # "."
  <2>1. 0 \in Nat /\ c <= c /\ \A i \in 1 .. c : i \in 0 + 1 .. 0 + c
    OBVIOUS
  <2> QED BY <1>3, <1>5, <2>1, RunIsDigits
<1>8. 1 \in 1 .. Len(body) /\ IsDigit(body[1])
  <2>0. c >= 1 /\ c <= Len(body)
    BY <1>3
  <2>1. 1 \in 1 .. Len(body) /\ 1 \in 1 .. c
    BY <1>1, <2>0
  <2> QED BY <1>7, <2>1
<1>9. N = g[Len(body)]
  BY <1>4 DEF Totals
<1>10. /\ Places(t) \in Nat /\ After(body, Len(body), Places(t))
       /\ WellFormed(t) <=> Good(body, Len(body)) /\ \E i \in 1 .. Len(body) : IsDigit(body[i])
  BY <1>1, PlacesIs, WellFormedIs DEF body
<1>11. Magnitude(t) = (2 * N * S + Power(10, Places(t))) \div (2 * Power(10, Places(t)))
  BY Zenon DEF Magnitude, S
<1> HIDE DEF N
<1>12. CASE f = 0 /\ Len(body) = c
  <2>1. Good(body, Len(body))
    BY <1>7, <1>12 DEF Good
  <2>2. Places(t) = 0
    <3>1. ~\E d \in 1 .. Len(body) : body[d] = "." /\ Places(t) = Len(body) - d
      BY <1>7, <1>12
    <3> QED BY <1>10, <3>1 DEF After
  <2>3. N = w
    BY <1>6, <1>9, <1>12
  <2>4. Magnitude(t) = w * S
    <3>1. Power(10, 0) = 1
      BY PowerIs
    <3>2. 1 \in Nat /\ 1 >= 1 /\ S \in Nat /\ 1 * S = S
      BY <1>2
    <3>3. (2 * w * (1 * S) + 1) \div (2 * 1) = w * S
      BY <1>5, <3>2, MagnitudeFits
    <3> QED BY <1>11, <2>2, <2>3, <3>1, <3>2, <3>3
  <2>5. w * S = M
    BY <1>2, <1>5, <1>12
  <2> QED BY <1>8, <1>10, <2>1, <2>4, <2>5
<1>13. CASE f > 0 /\ \E len \in 1 .. D :
                     /\ Len(body) = (c + 1) + len /\ body[c + 1] = "." /\ Run(body, c + 1, f, D, len)
                     /\ Zeros(Digits(f, D), len, D)
  <2>1. PICK len \in 1 .. D :
                     /\ Len(body) = (c + 1) + len /\ body[c + 1] = "." /\ Run(body, c + 1, f, D, len)
                     /\ Zeros(Digits(f, D), len, D)
    BY <1>13
  <2> HIDE DEF D
  <2>2. f \in Nat /\ f < Power(10, D) /\ len \in Nat /\ len <= D /\ c + 1 \in Nat /\ len \in 0 .. D
    BY <1>2, <1>5
  <2>3. \A i \in (c + 1) + 1 .. (c + 1) + len : IsDigit(body[i]) /\ body[i] # "."
    BY <1>2, <2>1, <2>2, RunIsDigits
  <2>4. \A i \in 1 .. Len(body) : i \in 1 .. c \/ i = c + 1 \/ i \in (c + 1) + 1 .. (c + 1) + len
    BY <2>1, <2>2
  <2>5. Good(body, Len(body))
    BY <1>7, <2>1, <2>3, <2>4 DEF Good
  <2>6. Places(t) = len
    <3>1. c + 1 \in 1 .. Len(body)
      BY <2>1, <2>2
    <3>2. PICK d \in 1 .. Len(body) : body[d] = "." /\ Places(t) = Len(body) - d
      BY <1>10, <2>1, <3>1 DEF After
    <3>3. d = c + 1
      BY <1>7, <2>3, <2>4, <3>2
    <3> QED BY <2>1, <2>2, <3>2, <3>3
  <2>7. g[c + 1] = w
    <3>1. c + 1 \in 1 .. Len(body) /\ (c + 1) - 1 = c
      BY <2>1, <2>2
    <3>2. ~IsDigit(body[c + 1])
      BY <2>1, PointIsNoDigit
    <3>3. g[c + 1] = g[(c + 1) - 1]
      BY <1>4, <3>1, <3>2 DEF Totals
    <3> QED BY <1>6, <3>1, <3>3
  <2> DEFINE U == Power(10, len)
             K == Power(10, D - len)
             x == f \div K
  <2>8. N = w * U + x
    <3>1. (c + 1) + len <= Len(body)
      BY <1>1, <2>1, <2>2
    <3>2. g[(c + 1) + len] = g[c + 1] * Power(10, len) + (f \div Power(10, D - len))
      <4> DEFINE b == c + 1
      <4>1. b \in Nat /\ b + len <= Len(body) /\ Run(body, b, f, D, len) /\ D \in Nat
        BY <1>2, <2>1, <2>2, <3>1
      <4> HIDE DEF b
      <4>2. g[b + len] = g[b] * Power(10, len) + (f \div Power(10, D - len))
        BY <1>1, <1>4, <2>2, <4>1, RunValue
      <4> QED BY <4>2 DEF b
    <3> QED BY <1>9, <2>1, <2>7, <3>2
  <2>9. f = x * K
    BY <1>2, <2>1, <2>2, ZeroTail
  <2>10. U \in Nat /\ U >= 1 /\ K \in Nat /\ K >= 1 /\ S = U * K
    <3>1. 10 \in Nat /\ 10 >= 1 /\ D - len \in Nat /\ len + (D - len) = D
      BY <1>2, <2>2
    <3>2. Power(10, len + (D - len)) = U * K
      BY <2>2, <3>1, PowerSum
    <3>3. U \in Nat /\ U >= 1 /\ K \in Nat /\ K >= 1
      BY <2>2, <3>1, PowerAtLeast
    <3> QED BY <1>2, <3>1, <3>2, <3>3
  <2>11. x \in Nat
    <3> HIDE DEF K
    <3>1. K \in Nat \ {0}
      BY <2>10
    <3> QED BY <2>2, <3>1
  <2> HIDE DEF U, K, x
  <2>12. N \in Nat /\ N * K = M
    <3>1. N \in Nat
      BY <1>5, <2>8, <2>10, <2>11
    <3>2. (w * U + x) * K = w * (U * K) + x * K
      BY <1>5, <2>10, <2>11
    <3> QED BY <1>5, <2>8, <2>9, <2>10, <3>1, <3>2
  <2>13. Magnitude(t) = N * K
    <3>1. (2 * N * (U * K) + U) \div (2 * U) = N * K
      BY <2>10, <2>12, MagnitudeFits
    <3> QED BY <1>11, <2>6, <2>10, <3>1 DEF U
  <2> QED BY <1>8, <1>10, <2>5, <2>12, <2>13
<1> QED BY <1>3, <1>12, <1>13

(***************************************************************************)
(* parseFixed is the inverse of formatFixed on every value of the type,    *)
(* the most negative one included.                                         *)
(***************************************************************************)
THEOREM FormatIsRead ==
    ASSUME NEW v \in Fixed
    PROVE  parseFixed(formatFixed(v)) = {v}
<1> DEFINE M == IF v < 0 THEN -v ELSE v
           t == formatFixed(v)
<1>1. M \in Nat /\ M <= negLimit /\ v \in Int
  BY Limits DEF Fixed
<1>2. t \in Seq(Printed) /\ (t[1] = "-" <=> v < 0) /\ Writes(Unsign(t), M \div FIXED_SCALE, M % FIXED_SCALE)
  <2> HIDE DEF M
  <2>1. M = IF v < 0 THEN -v ELSE v
    BY DEF M
  <2> QED BY <1>1, <2>1, FormatWrites
<1> HIDE DEF t
<1>3. WellFormed(t) /\ Magnitude(t) = M
  <2> HIDE DEF M
  <2> QED BY <1>1, <1>2, WrittenReads
<1>4. Nearest(t) = IF t[1] = "-" THEN -Magnitude(t) ELSE Magnitude(t)
  BY Zenon DEF Nearest, Magnitude
<1>5. Nearest(t) = v
  BY <1>1, <1>2, <1>3, <1>4
<1>6. ParsesTo(t)
  BY <1>2, ParseIsExact
<1>7. parseFixed(t) = {v}
  BY <1>3, <1>5, <1>6, Zenon DEF ParsesTo
<1> QED BY <1>7 DEF t

\* What is read fits.
LEMMA ParsedFits ==
    ASSUME NEW Char, NEW t \in Seq(Char)
    PROVE  parseFixed(t) \subseteq Fixed
<1>1. ParsesTo(t)
  BY ParseIsExact
<1> QED BY <1>1, Zenon DEF ParsesTo

\* The characters of the fields that are read.
Chars == Printed \cup {"+", "x"}

LEMMA CharsAre ==
    /\ \A c \in {"-", "+", ".", "0", "9", "x"} : c \in Chars
    /\ \A c \in {"0", "1", "2", "4", "5", "7", "8", "-", "."} : c \in Chars
<1>1. \A d \in 0 .. 9 : Numeral[d + 1] \in Chars
  <2>1. \A d \in 0 .. 9 : IsDigit(Numeral[d + 1])
    BY NumeralIs
  <2> QED BY <2>1, Zenon DEF Chars, Printed, IsDigit
<1>2. \A i \in 1 .. 10 : Numeral[i] \in Chars
  <2>1. \A i \in 1 .. 10 : i - 1 \in 0 .. 9 /\ (i - 1) + 1 = i
    OBVIOUS
  <2> QED BY <1>1, <2>1
<1>3. /\ Numeral[1] = "0" /\ Numeral[2] = "1" /\ Numeral[3] = "2" /\ Numeral[5] = "4" /\ Numeral[6] = "5"
      /\ Numeral[8] = "7" /\ Numeral[9] = "8" /\ Numeral[10] = "9"
  BY DEF Numeral
<1>4. 1 \in 1 .. 10 /\ 2 \in 1 .. 10 /\ 3 \in 1 .. 10 /\ 5 \in 1 .. 10 /\ 6 \in 1 .. 10 /\ 8 \in 1 .. 10 /\ 9 \in 1 .. 10 /\ 10 \in 1 .. 10
  OBVIOUS
<1>5. "0" \in Chars /\ "1" \in Chars /\ "2" \in Chars /\ "4" \in Chars /\ "5" \in Chars /\ "7" \in Chars /\ "8" \in Chars /\ "9" \in Chars
  BY <1>2, <1>3, <1>4
<1>6. "-" \in Chars /\ "." \in Chars /\ "+" \in Chars /\ "x" \in Chars
  BY Zenon DEF Chars, Printed
<1> QED BY <1>5, <1>6

\* Texts of these characters are sequences of them.
LEMMA UptoIs ==
    ASSUME NEW S, \A c \in S : c \in Chars, NEW n \in Nat, NEW s \in Upto(S, n)
    PROVE  s \in Seq(Chars)
<1>1. PICK k \in 0 .. n : s \in [1 .. k -> S]
  BY DEF Upto
<1>2. k \in Nat /\ s \in [1 .. k -> Chars]
  BY <1>1
<1> QED BY <1>2

\* The fields of the run are texts.
LEMMA TextsAre == Texts \subseteq Seq(Chars)
<1> DEFINE A == {"-", "+", ".", "0", "9", "x"}
           B == {"0", "1", "2"}
           C == {"0", "2", "4", "5", "7", "8"}
           Signs == {<<>>, <<"-">>}
           T1 == Upto(A, 4)
           T2 == {s \o w \o <<".">> \o f : s \in Signs, w \in Upto(B, 2), f \in Upto(C, 3)}
           T3 == {formatFixed(v) : v \in Fixed}
<1>1. Texts = T1 \cup T2 \cup T3
  BY DEF Texts
<1>2. (\A c \in A : c \in Chars) /\ (\A c \in B : c \in Chars) /\ (\A c \in C : c \in Chars)
  BY CharsAre
<1>3. 4 \in Nat /\ 2 \in Nat /\ 3 \in Nat
  OBVIOUS
<1>7. \A x \in Signs : x \in Seq(Chars)
  <2>1. "-" \in Chars
    BY CharsAre
  <2>2. <<"-">> \in Seq(Chars) /\ <<>> \in Seq(Chars)
    BY <2>1
  <2> DEFINE minus == <<"-">>
             none == <<>>
  <2>3. Signs = {none, minus}
    OBVIOUS
  <2>4. minus \in Seq(Chars) /\ none \in Seq(Chars)
    BY <2>2
  <2> HIDE DEF minus, none, Signs
  <2> QED BY <2>3, <2>4
<1> HIDE DEF A, B, C, Signs
<1>4. ASSUME NEW t \in T1
      PROVE  t \in Seq(Chars)
  BY <1>2, <1>3, <1>4, UptoIs
<1>5. ASSUME NEW t \in T2
      PROVE  t \in Seq(Chars)
  <2>1. PICK s \in Signs, w \in Upto(B, 2), f \in Upto(C, 3) : t = s \o w \o <<".">> \o f
    BY <1>5
  <2>2. w \in Seq(Chars) /\ f \in Seq(Chars)
    BY <1>2, <1>3, UptoIs
  <2>3. "-" \in Chars /\ "." \in Chars
    BY CharsAre
  <2>4. s \in Seq(Chars) /\ <<".">> \in Seq(Chars)
    <3>1. <<"-">> \in Seq(Chars) /\ <<".">> \in Seq(Chars) /\ <<>> \in Seq(Chars)
      BY <2>3
    <3> QED BY <3>1, <1>7
  <2>5. s \o w \in Seq(Chars)
    BY <2>2, <2>4
  <2>6. s \o w \o <<".">> \in Seq(Chars)
    BY <2>4, <2>5
  <2>7. s \o w \o <<".">> \o f \in Seq(Chars)
    BY <2>2, <2>6
  <2> QED BY <2>1, <2>7
<1>6. ASSUME NEW t \in T3
      PROVE  t \in Seq(Chars)
  <2>1. PICK v \in Fixed : t = formatFixed(v)
    BY <1>6
  <2> DEFINE M == IF v < 0 THEN -v ELSE v
  <2>2. M \in Nat /\ M <= negLimit
    BY Limits DEF Fixed
  <2> HIDE DEF M
  <2>3. formatFixed(v) \in Seq(Printed)
    <3>1. M = IF v < 0 THEN -v ELSE v
      BY DEF M
    <3> QED BY <2>2, <3>1, FormatWrites
  <2>4. t \in Seq(Printed)
    BY <2>1, <2>3
  <2>5. Printed \subseteq Chars
    BY Zenon DEF Chars
  <2>6. t \in [1 .. Len(t) -> Chars] /\ Len(t) \in Nat
    BY <2>4, <2>5
  <2> QED BY <2>6
<1> HIDE DEF T1, T2, T3
<1> QED BY <1>1, <1>4, <1>5, <1>6

\* The field is a text.
TextInv == text \in Seq(Chars)

LEMMA TextHolds == MCSpec => []TextInv
<1>1. MCInit => TextInv
  BY DEF MCInit, TextInv
<1>2. TextInv /\ [MCNext]_<<vars, text>> => TextInv'
  <2> SUFFICES ASSUME TextInv, [MCNext]_<<vars, text>>
               PROVE  TextInv'
    OBVIOUS
  <2>1. CASE text' = text
    BY <2>1 DEF TextInv
  <2>2. CASE \E t \in Texts : readFixedAs(t)
    BY <2>2, TextsAre DEF readFixedAs, TextInv
  <2>3. CASE FieldRead
    BY <2>3 DEF FieldRead, TextInv
  <2> QED BY <2>1, <2>2, <2>3 DEF MCNext
<1> QED BY <1>1, <1>2, PTL DEF MCSpec

(***************************************************************************)
(* Every field that is read is parsed exactly.                             *)
(***************************************************************************)
THEOREM TextsParseExactly == MCSpec => []ParsesAsReference
<1>1. TextInv => ParsesAsReference
  BY ParseIsExact DEF TextInv, ParsesAsReference
<1> QED BY <1>1, TextHolds, PTL

(***************************************************************************)
(* And a price that was read is sent as a text that reads as that price.   *)
(***************************************************************************)
THEOREM PricesFormatBack == MCSpec => []FormatParsesBack
<1>1. TextInv => FormatParsesBack
  <2>1. SUFFICES ASSUME TextInv, NEW v \in parseFixed(text)
                 PROVE  parseFixed(formatFixed(v)) = {v}
    BY DEF FormatParsesBack
  <2>2. v \in Fixed
    BY <2>1, ParsedFits DEF TextInv
  <2> QED BY <2>2, FormatIsRead
<1> QED BY <1>1, TextHolds, PTL
=============================================================================
