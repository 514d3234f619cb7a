------------------------ MODULE OrderbookArraysProofs ------------------------
(***************************************************************************)
(* The slot accounting of OrderbookArrays, proved for every number of      *)
(* slots and every capacity of bufferOut.                                  *)
(***************************************************************************)
EXTENDS OrderbookArrays, SequenceTheorems, TLAPS

\* The cells of the ring.
Cells == [slot : Slots, published : BOOLEAN]

USE DEF NoSlot, Stream, Book, Threads

\* What SlotHasOneOwner says about a single slot, with the two threads spelled out.
OwnedOnce(s) ==
    /\ InRing(s) \/ InFlight(s) \/ Holds(Stream, s) \/ Holds(Book, s)
    /\ ~(InRing(s) /\ InFlight(s))
    /\ Holds(Stream, s) => ~InRing(s) /\ ~InFlight(s) /\ ~Holds(Book, s)
    /\ Holds(Book, s) => ~InRing(s) /\ ~InFlight(s)

\* OwnedOnce follows from SlotHasOneOwner ...
LEMMA OwnersOnce == SlotHasOneOwner => \A s \in Slots : OwnedOnce(s)
BY Zenon DEF SlotHasOneOwner, OwnedOnce

\* ... and, for all slots after a step, gives it back but for the two queues.
LEMMA OwnersBuild ==
    ASSUME \A s \in Slots : OwnedOnce(s)'
    PROVE  \A s \in Slots :
             /\ (InRing(s) \/ InFlight(s) \/ \E p \in Threads : Holds(p, s))'
             /\ (~(InRing(s) /\ InFlight(s)))'
             /\ \A p \in Threads : (Holds(p, s) => ~InRing(s) /\ ~InFlight(s))'
             /\ (~(Holds(Stream, s) /\ Holds(Book, s)))'
BY Zenon DEF OwnedOnce

\* The constructor puts every slot into the ring and counts it.
LEMMA InitInv == Init => IInv
<1> SUFFICES ASSUME Init PROVE IInv
  OBVIOUS
<1> DEFINE Cell(i) == [slot |-> i - 1, published |-> TRUE]
<1>1. freeSlots = [i \in 1 .. SLOTS |-> Cell(i)] /\ \A i \in 1 .. SLOTS : Cell(i) \in Cells
  BY SlotsAssumption DEF Init, Slots, Cells
<1>2. freeSlots \in Seq(Cells) /\ Len(freeSlots) = SLOTS
  <2> HIDE DEF Cell
  <2> QED BY <1>1, SlotsAssumption
<1>3. \A i \in 1 .. SLOTS : freeSlots[i].slot = i - 1
  BY <1>1
<1>4. TypeOK
  BY <1>2, SlotsAssumption DEF Init, TypeOK, PCs, Cells
<1>5. Carries /\ FreeCountAccounts
  BY <1>2, SlotsAssumption DEF Init, Carries, FreeCountAccounts, Taking, Uncounted
<1>6. SlotHasOneOwner
  <2>1. \A i, j \in 1 .. Len(freeSlots) : freeSlots[i].slot = freeSlots[j].slot => i = j
    BY <1>2, <1>3, SlotsAssumption
  <2>2. \A s \in Slots : InRing(s)
    <3> SUFFICES ASSUME NEW s \in Slots PROVE InRing(s)
      OBVIOUS
    <3>1. s + 1 \in 1 .. SLOTS /\ (s + 1) - 1 = s
      BY SlotsAssumption DEF Slots
    <3> QED BY <3>1, <1>2, <1>3 DEF InRing
  <2>3. bufferOut = <<>> /\ \A p \in Threads, s \in Slots : ~Holds(p, s)
    BY DEF Init, Holds
  <2> QED BY <2>1, <2>2, <2>3 DEF SlotHasOneOwner, InFlight
<1> QED BY <1>4, <1>5, <1>6 DEF IInv

\* Steps that leave the ring, the events and who holds what as they are.
LEMMA QuietStep ==
    ASSUME IInv, TypeOK', Carries', FreeCountAccounts', UNCHANGED <<freeSlots, bufferOut>>,
           \A p \in Threads, s \in Slots : Holds(p, s)' <=> Holds(p, s)
    PROVE  IInv'
<1>1. \A s \in Slots : (InRing(s)' <=> InRing(s)) /\ (InFlight(s)' <=> InFlight(s))
  BY DEF InRing, InFlight
<1> QED BY <1>1 DEF IInv, SlotHasOneOwner

\* Steps of one thread that only move it on, possibly touching the counter.
LEMMA LocalInv ==
    ASSUME IInv,
           AcquireEmpty \/ AcquireLoad \/ AcquireSub \/ Decode \/ DecodeFails \/ LookedAt
    PROVE  IInv'
<1> USE DEF IInv, Goto, AcquireEmpty, AcquireLoad, AcquireSub, Decode, DecodeFails, LookedAt
<1>1. TypeOK'
  BY DEF TypeOK, FreeCountAccounts, PCs
<1>2. Carries'
  BY DEF Carries, TypeOK
<1>3. FreeCountAccounts'
  <2>1. freeSlots' = freeSlots /\ Len(freeSlots) \in Nat /\ freeCount \in Nat
    BY DEF TypeOK
  <2>2. CASE AcquireSub
    BY <2>1, <2>2 DEF FreeCountAccounts, TypeOK, Taking, Uncounted
  <2>3. CASE AcquireEmpty \/ AcquireLoad
    BY <2>1, <2>3 DEF FreeCountAccounts, TypeOK, Taking, Uncounted
  <2>4. CASE Decode \/ DecodeFails \/ LookedAt
    BY <2>1, <2>4 DEF FreeCountAccounts, TypeOK, Taking, Uncounted
  <2> QED BY <2>2, <2>3, <2>4
<1>4. UNCHANGED <<freeSlots, bufferOut>>
  OBVIOUS
<1>5. \A p \in Threads, s \in Slots : Holds(p, s)' <=> Holds(p, s)
  BY DEF Holds, TypeOK, Carries, Slots
<1> QED BY <1>1, <1>2, <1>3, <1>4, <1>5, QuietStep

\* acquire() moves the oldest free slot from the ring into the decoder's hands.
LEMMA TakeInv == IInv /\ AcquireTake => IInv'
<1> SUFFICES ASSUME IInv, AcquireTake PROVE IInv'
  OBVIOUS
<1> USE DEF IInv, Goto, AcquireTake
<1> DEFINE n == Len(freeSlots)
           h == Head(freeSlots).slot
<1>0. freeSlots \in Seq(Cells) /\ freeSlots # <<>>
  BY DEF TypeOK, Cells
<1>1. /\ freeSlots \in Seq(Cells) /\ freeSlots # <<>> /\ n \in Nat /\ n >= 1
      /\ Head(freeSlots) = freeSlots[1] /\ h \in Slots
  <2>1. n \in Nat /\ n >= 1 /\ Head(freeSlots) = freeSlots[1] /\ freeSlots[1] \in Cells
    BY <1>0
  <2> QED BY <1>0, <2>1 DEF Cells
<1>2. /\ freeSlots' \in Seq(Cells) /\ Len(freeSlots') = n - 1
      /\ \A i \in 1 .. n - 1 : freeSlots'[i] = freeSlots[i + 1]
  BY <1>1
<1>3. TypeOK'
  BY <1>1, <1>2 DEF TypeOK, PCs, Cells
<1>4. Carries'
  BY <1>1 DEF Carries, TypeOK
<1>5. FreeCountAccounts'
  BY <1>1, <1>2 DEF FreeCountAccounts, TypeOK, Taking, Uncounted
<1>6. \A i \in 1 .. n : freeSlots[i].slot = h => i = 1
  BY <1>1 DEF SlotHasOneOwner
<1>7. \A s \in Slots : InRing(s)' <=> InRing(s) /\ s # h
  <2> SUFFICES ASSUME NEW s \in Slots PROVE InRing(s)' <=> InRing(s) /\ s # h
    OBVIOUS
  <2>1. ASSUME InRing(s)' PROVE InRing(s) /\ s # h
    <3>1. PICK i \in 1 .. n - 1 : freeSlots[i + 1].slot = s
      BY <2>1, <1>2 DEF InRing
    <3>2. i + 1 \in 1 .. n /\ i + 1 # 1
      BY <1>1
    <3> QED BY <3>1, <3>2, <1>6 DEF InRing
  <2>2. ASSUME InRing(s), s # h PROVE InRing(s)'
    <3>1. PICK i \in 1 .. n : freeSlots[i].slot = s
      BY <2>2 DEF InRing
    <3>2. i # 1
      BY <3>1, <2>2, <1>1
    <3>3. i - 1 \in 1 .. n - 1 /\ (i - 1) + 1 = i
      BY <3>2, <1>1
    <3> QED BY <3>1, <3>3, <1>2 DEF InRing
  <2> QED BY <2>1, <2>2
<1>8. InRing(h) /\ \A s \in Slots : InFlight(s)' <=> InFlight(s)
  BY <1>1 DEF InRing, InFlight
<1>9. \A s \in Slots : /\ Holds(Book, s)' <=> Holds(Book, s)
                       /\ ~Holds(Stream, s)
                       /\ Holds(Stream, s)' <=> s = h
  BY <1>1 DEF Holds, TypeOK
<1>10. \A i, j \in 1 .. Len(freeSlots') : freeSlots'[i].slot = freeSlots'[j].slot => i = j
  <2> SUFFICES ASSUME NEW i \in 1 .. n - 1, NEW j \in 1 .. n - 1,
                      freeSlots[i + 1].slot = freeSlots[j + 1].slot
               PROVE  i = j
    BY <1>2
  <2>1. i + 1 \in 1 .. n /\ j + 1 \in 1 .. n
    BY <1>1
  <2>2. i + 1 = j + 1
    BY <2>1 DEF SlotHasOneOwner
  <2> QED BY <2>2
<1>11. \A s \in Slots : OwnedOnce(s)'
  <2> SUFFICES ASSUME NEW s \in Slots PROVE OwnedOnce(s)'
    OBVIOUS
  <2>1. OwnedOnce(s)
    BY OwnersOnce
  <2> QED BY <2>1, <1>7, <1>8, <1>9 DEF OwnedOnce
<1>12. SlotHasOneOwner'
  BY <1>10, <1>11, OwnersBuild DEF SlotHasOneOwner
<1> QED BY <1>3, <1>4, <1>5, <1>12

\* A release claims a ticket: the slot moves from the thread's hands into the ring.
LEMMA ClaimInv == ASSUME IInv, NEW p \in Threads, ReleaseClaim(p) PROVE IInv'
<1> USE DEF IInv, Goto, ReleaseClaim
<1> DEFINE n == Len(freeSlots)
           h == slot[p]
           cell == [slot |-> h, published |-> FALSE]
<1>1. /\ freeSlots \in Seq(Cells) /\ n \in Nat /\ h \in Slots /\ cell \in Cells /\ Holds(p, h)
  BY DEF TypeOK, Cells, Carries, Holds
<1>2. /\ freeSlots' \in Seq(Cells) /\ Len(freeSlots') = n + 1
      /\ \A i \in 1 .. n : freeSlots'[i] = freeSlots[i]
      /\ freeSlots'[n + 1] = cell /\ cell.slot = h
  <2> HIDE DEF cell
  <2>1. freeSlots' = Append(freeSlots, cell)
    BY DEF cell
  <2> QED BY <1>1, <2>1 DEF cell
<1>3. TypeOK'
  BY <1>2 DEF TypeOK, PCs, Cells
<1>4. Carries'
  BY DEF Carries, TypeOK
<1>5. FreeCountAccounts'
  BY <1>1, <1>2 DEF FreeCountAccounts, TypeOK, Taking, Uncounted
<1>6. ~InRing(h) /\ ~InFlight(h) /\ \A q \in Threads : q # p => ~Holds(q, h)
  BY <1>1 DEF SlotHasOneOwner
<1>7. \A s \in Slots : InRing(s)' <=> InRing(s) \/ s = h
  <2> SUFFICES ASSUME NEW s \in Slots PROVE InRing(s)' <=> InRing(s) \/ s = h
    OBVIOUS
  <2>1. \A i : i \in 1 .. n + 1 <=> i \in 1 .. n \/ i = n + 1
    BY <1>1
  <2> QED BY <2>1, <1>2 DEF InRing
<1>8. \A s \in Slots : InFlight(s)' <=> InFlight(s)
  BY DEF InFlight
<1>9. \A s \in Slots, q \in Threads : Holds(q, s)' <=> Holds(q, s) /\ q # p
  BY DEF Holds, TypeOK
<1>10. \A s \in Slots : Holds(p, s) => s = h
  BY DEF Holds
<1>11. \A i, j \in 1 .. Len(freeSlots') : freeSlots'[i].slot = freeSlots'[j].slot => i = j
  <2>1. \A i \in 1 .. n : freeSlots[i].slot # h
    BY <1>6 DEF InRing
  <2>2. \A i \in 1 .. n + 1 : i \in 1 .. n \/ i = n + 1
    BY <1>1
  <2> QED BY <1>2, <2>1, <2>2 DEF SlotHasOneOwner
<1>12. \A s \in Slots : OwnedOnce(s)'
  <2> SUFFICES ASSUME NEW s \in Slots PROVE OwnedOnce(s)'
    OBVIOUS
  <2>1. OwnedOnce(s)
    BY OwnersOnce
  <2> QED BY <2>1, <1>1, <1>6, <1>7, <1>8, <1>9, <1>10 DEF OwnedOnce
<1>13. SlotHasOneOwner'
  BY <1>11, <1>12, OwnersBuild DEF SlotHasOneOwner
<1> QED BY <1>3, <1>4, <1>5, <1>13

\* Publishing a cell changes neither its slot nor its place.
LEMMA PublishInv == ASSUME IInv, NEW p \in Threads, ReleasePublish(p) PROVE IInv'
<1> USE DEF IInv, Goto, ReleasePublish
<1>1. PICK k \in 1 .. Len(freeSlots) : freeSlots' = [freeSlots EXCEPT ![k].published = TRUE]
  OBVIOUS
<1>2. freeSlots \in Seq(Cells) /\ freeSlots[k] \in Cells
  <2>1. freeSlots \in Seq(Cells)
    BY DEF TypeOK, Cells
  <2> QED BY <2>1
<1>3. /\ freeSlots' \in Seq(Cells) /\ Len(freeSlots') = Len(freeSlots)
      /\ \A i \in 1 .. Len(freeSlots) : freeSlots'[i].slot = freeSlots[i].slot
  <2>1. freeSlots' = [freeSlots EXCEPT ![k] = [freeSlots[k] EXCEPT !.published = TRUE]]
    BY <1>1
  <2> DEFINE c == [freeSlots[k] EXCEPT !.published = TRUE]
  <2>2. c \in Cells /\ c.slot = freeSlots[k].slot
    BY <1>2 DEF Cells
  <2> HIDE DEF c
  <2>3. freeSlots' = [freeSlots EXCEPT ![k] = c]
    BY <2>1 DEF c
  <2>4. /\ [freeSlots EXCEPT ![k] = c] \in Seq(Cells)
        /\ Len([freeSlots EXCEPT ![k] = c]) = Len(freeSlots)
        /\ \A j \in 1 .. Len(freeSlots) : [freeSlots EXCEPT ![k] = c][j] = IF j = k THEN c ELSE freeSlots[j]
    BY <1>2, <2>2, ExceptSeq
  <2> QED BY <2>2, <2>3, <2>4
<1>4. TypeOK'
  BY <1>3 DEF TypeOK, PCs, Cells
<1>5. Carries'
  BY DEF Carries, TypeOK
<1>6. FreeCountAccounts'
  BY <1>3 DEF FreeCountAccounts, TypeOK, Taking, Uncounted
<1>7. \A s \in Slots : (InRing(s)' <=> InRing(s)) /\ (InFlight(s)' <=> InFlight(s))
  BY <1>3 DEF InRing, InFlight
<1>8. \A s \in Slots, q \in Threads : Holds(q, s)' <=> Holds(q, s)
  BY DEF Holds, TypeOK
<1>9. SlotHasOneOwner'
  BY <1>3, <1>7, <1>8 DEF SlotHasOneOwner
<1> QED BY <1>4, <1>5, <1>6, <1>9

\* Counting the released slot in.
LEMMA CountInv == ASSUME IInv, NEW p \in Threads, ReleaseCount(p) PROVE IInv'
<1> USE DEF IInv, Goto, ReleaseCount
<1>1. TypeOK'
  BY DEF TypeOK, PCs
<1>2. Carries'
  BY DEF Carries, TypeOK
<1>3. FreeCountAccounts'
  <2>1. Len(freeSlots) \in Nat /\ freeCount \in Nat /\ freeSlots' = freeSlots
    BY DEF TypeOK
  <2>2. CASE p = Stream
    BY <2>1, <2>2 DEF FreeCountAccounts, TypeOK, Taking, Uncounted
  <2>3. CASE p = Book
    BY <2>1, <2>3 DEF FreeCountAccounts, TypeOK, Taking, Uncounted
  <2> QED BY <2>2, <2>3
<1>4. \A q \in Threads, s \in Slots : Holds(q, s)' <=> Holds(q, s)
  BY DEF Holds, TypeOK, Slots
<1> QED BY <1>1, <1>2, <1>3, <1>4, QuietStep

\* The stream thread puts the event, dropped or not, at the end of bufferOut.
LEMMA DeliverInv == IInv /\ Deliver => IInv'
<1> SUFFICES ASSUME IInv, Deliver PROVE IInv'
  OBVIOUS
<1> USE DEF IInv, Goto, Deliver
<1> DEFINE n == Len(bufferOut)
           h == slot[Stream]
<1>1. /\ bufferOut \in Seq(Slots \cup {NoSlot}) /\ n \in Nat /\ h \in Slots \cup {NoSlot}
      /\ pc[Stream] = "deliver"
  BY DEF TypeOK
<1>2. /\ bufferOut' \in Seq(Slots \cup {NoSlot}) /\ Len(bufferOut') = n + 1
      /\ \A i \in 1 .. n : bufferOut'[i] = bufferOut[i]
      /\ bufferOut'[n + 1] = h
  BY <1>1
<1>3. TypeOK'
  BY <1>2 DEF TypeOK, PCs
<1>4. Carries'
  BY DEF Carries, TypeOK
<1>5. FreeCountAccounts'
  BY DEF FreeCountAccounts, TypeOK, Taking, Uncounted
<1>6. \A i \in 1 .. n + 1 : i \in 1 .. n \/ i = n + 1
  BY <1>1
<1>7. \A s \in Slots : InFlight(s)' <=> InFlight(s) \/ s = h
  <2>1. \A i : i \in 1 .. n + 1 <=> i \in 1 .. n \/ i = n + 1
    BY <1>1
  <2> QED BY <2>1, <1>2 DEF InFlight
<1>8. \A s \in Slots : InRing(s)' <=> InRing(s)
  BY DEF InRing
<1>9. \A s \in Slots : /\ Holds(Book, s)' <=> Holds(Book, s)
                       /\ ~Holds(Stream, s)'
                       /\ Holds(Stream, s) <=> s = h
  BY <1>1 DEF Holds, TypeOK
<1>10. \A s \in Slots : OwnedOnce(s)'
  <2> SUFFICES ASSUME NEW s \in Slots PROVE OwnedOnce(s)'
    OBVIOUS
  <2>1. OwnedOnce(s)
    BY OwnersOnce
  <2> QED BY <2>1, <1>7, <1>8, <1>9 DEF OwnedOnce
<1>11. \A i, j \in 1 .. Len(bufferOut') : bufferOut'[i] = bufferOut'[j] /\ bufferOut'[i] # NoSlot => i = j
  <2>1. \A i \in 1 .. n : bufferOut[i] = h => h = NoSlot
    <3> SUFFICES ASSUME NEW i \in 1 .. n, bufferOut[i] = h, h \in Slots PROVE FALSE
      BY <1>1
    <3>1. InFlight(h)
      BY DEF InFlight
    <3>2. Holds(Stream, h)
      BY <1>9
    <3>3. OwnedOnce(h)
      BY OwnersOnce
    <3> QED BY <3>1, <3>2, <3>3 DEF OwnedOnce
  <2> QED BY <1>2, <1>6, <2>1 DEF SlotHasOneOwner
<1>12. SlotHasOneOwner'
  BY <1>10, <1>11, OwnersBuild DEF SlotHasOneOwner
<1> QED BY <1>3, <1>4, <1>5, <1>12

\* What taking the oldest event does to the rest of bufferOut.
LEMMA TailInFlight ==
    ASSUME IInv, bufferOut # <<>>, bufferOut' = Tail(bufferOut)
    PROVE  /\ bufferOut' \in Seq(Slots \cup {NoSlot})
           /\ Head(bufferOut) \in Slots \cup {NoSlot}
           /\ Head(bufferOut) # NoSlot => InFlight(Head(bufferOut))
           /\ \A s \in Slots : InFlight(s)' <=> InFlight(s) /\ s # Head(bufferOut)
           /\ \A i, j \in 1 .. Len(bufferOut') : bufferOut'[i] = bufferOut'[j] /\ bufferOut'[i] # NoSlot => i = j
<1> USE DEF IInv
<1> DEFINE n == Len(bufferOut)
           h == Head(bufferOut)
<1>1. bufferOut \in Seq(Slots \cup {NoSlot})
  BY DEF TypeOK
<1>2. n \in Nat /\ n >= 1 /\ h = bufferOut[1] /\ h \in Slots \cup {NoSlot}
  BY <1>1
<1>3. /\ bufferOut' \in Seq(Slots \cup {NoSlot}) /\ Len(bufferOut') = n - 1
      /\ \A i \in 1 .. n - 1 : bufferOut'[i] = bufferOut[i + 1]
  BY <1>1, <1>2
<1>4. \A i \in 1 .. n : bufferOut[i] = h /\ h # NoSlot => i = 1
  BY <1>2 DEF SlotHasOneOwner
<1>5. \A s \in Slots : InFlight(s)' <=> InFlight(s) /\ s # h
  <2> SUFFICES ASSUME NEW s \in Slots PROVE InFlight(s)' <=> InFlight(s) /\ s # h
    OBVIOUS
  <2>0. s # NoSlot
    BY DEF Slots
  <2>1. ASSUME InFlight(s)' PROVE InFlight(s) /\ s # h
    <3>1. PICK i \in 1 .. n - 1 : bufferOut[i + 1] = s
      BY <2>1, <1>3 DEF InFlight
    <3>2. i + 1 \in 1 .. n /\ i + 1 # 1
      BY <1>2
    <3> QED BY <2>0, <3>1, <3>2, <1>4 DEF InFlight
  <2>2. ASSUME InFlight(s), s # h PROVE InFlight(s)'
    <3>1. PICK i \in 1 .. n : bufferOut[i] = s
      BY <2>2 DEF InFlight
    <3>2. i # 1
      BY <3>1, <2>2, <1>2
    <3>3. i - 1 \in 1 .. n - 1 /\ (i - 1) + 1 = i
      BY <3>2, <1>2
    <3> QED BY <3>1, <3>3, <1>3 DEF InFlight
  <2> QED BY <2>1, <2>2
<1>6. \A i, j \in 1 .. Len(bufferOut') : bufferOut'[i] = bufferOut'[j] /\ bufferOut'[i] # NoSlot => i = j
  <2> SUFFICES ASSUME NEW i \in 1 .. n - 1, NEW j \in 1 .. n - 1,
                      bufferOut[i + 1] = bufferOut[j + 1], bufferOut[i + 1] # NoSlot
               PROVE  i = j
    BY <1>3
  <2>1. i + 1 \in 1 .. n /\ j + 1 \in 1 .. n
    BY <1>2
  <2>2. i + 1 = j + 1
    BY <2>1 DEF SlotHasOneOwner
  <2> QED BY <2>2
<1> QED BY <1>2, <1>3, <1>5, <1>6 DEF InFlight

\* The orderbook thread takes an event and its slot.
LEMMA NextUpdateInv == IInv /\ NextUpdate => IInv'
<1> SUFFICES ASSUME IInv, NextUpdate PROVE IInv'
  OBVIOUS
<1> USE DEF IInv, Goto, NextUpdate
<1> DEFINE h == Head(bufferOut)
<1>1. /\ bufferOut' \in Seq(Slots \cup {NoSlot}) /\ h \in Slots /\ InFlight(h)
      /\ \A s \in Slots : InFlight(s)' <=> InFlight(s) /\ s # h
      /\ \A i, j \in 1 .. Len(bufferOut') : bufferOut'[i] = bufferOut'[j] /\ bufferOut'[i] # NoSlot => i = j
  BY TailInFlight
<1>2. TypeOK'
  BY <1>1 DEF TypeOK, PCs
<1>3. Carries'
  BY <1>1 DEF Carries, TypeOK
<1>4. FreeCountAccounts'
  BY DEF FreeCountAccounts, TypeOK, Taking, Uncounted
<1>5. \A s \in Slots : InRing(s)' <=> InRing(s)
  BY DEF InRing
<1>6. \A s \in Slots : /\ Holds(Stream, s)' <=> Holds(Stream, s)
                       /\ ~Holds(Book, s)
                       /\ Holds(Book, s)' <=> s = h
  BY <1>1 DEF Holds, TypeOK
<1>7. \A s \in Slots : OwnedOnce(s)'
  <2> SUFFICES ASSUME NEW s \in Slots PROVE OwnedOnce(s)'
    OBVIOUS
  <2>1. OwnedOnce(s)
    BY OwnersOnce
  <2> QED BY <2>1, <1>1, <1>5, <1>6 DEF OwnedOnce
<1>8. SlotHasOneOwner'
  BY <1>1, <1>7, OwnersBuild DEF SlotHasOneOwner
<1> QED BY <1>2, <1>3, <1>4, <1>8

\* A dropped event takes no slot with it.
LEMMA NextUpdateDroppedInv == IInv /\ NextUpdateDropped => IInv'
<1> SUFFICES ASSUME IInv, NextUpdateDropped PROVE IInv'
  OBVIOUS
<1> USE DEF IInv, NextUpdateDropped
<1>1. /\ bufferOut' \in Seq(Slots \cup {NoSlot})
      /\ \A s \in Slots : InFlight(s)' <=> InFlight(s)
      /\ \A i, j \in 1 .. Len(bufferOut') : bufferOut'[i] = bufferOut'[j] /\ bufferOut'[i] # NoSlot => i = j
  BY TailInFlight DEF Slots
<1>2. TypeOK' /\ Carries' /\ FreeCountAccounts'
  BY <1>1 DEF TypeOK, Carries, FreeCountAccounts, Taking, Uncounted
<1>3. \A s \in Slots : (InRing(s)' <=> InRing(s)) /\ \A p \in Threads : Holds(p, s)' <=> Holds(p, s)
  BY DEF InRing, Holds
<1>4. SlotHasOneOwner'
  BY <1>1, <1>3 DEF SlotHasOneOwner
<1> QED BY <1>2, <1>4

(***************************************************************************)
(* The slots, the counter and the ring agree in every reachable state.     *)
(***************************************************************************)
THEOREM SlotsInvariant == Spec => []IInv
<1>1. IInv /\ [Next]_vars => IInv'
  <2> SUFFICES ASSUME IInv, [Next]_vars PROVE IInv'
    OBVIOUS
  <2>1. CASE UNCHANGED vars
    BY <2>1 DEF vars, IInv, TypeOK, Carries, FreeCountAccounts, SlotHasOneOwner, Taking, Uncounted,
                InRing, InFlight, Holds
  <2>2. CASE StreamStep
    BY <2>2, LocalInv, TakeInv, ClaimInv, PublishInv, CountInv, DeliverInv DEF StreamStep, Release
  <2>3. CASE BookStep
    BY <2>3, LocalInv, ClaimInv, PublishInv, CountInv, NextUpdateInv, NextUpdateDroppedInv DEF BookStep, Release
  <2> QED BY <2>1, <2>2, <2>3 DEF Next
<1> QED BY <1>1, InitInv, PTL DEF Spec

(***************************************************************************)
(* OrderbookArrayHolder never hands out a slot that is in use and never    *)
(* loses one, however acquire, the decoder's own releases and the          *)
(* orderbook's releases interleave, for any number of slots.               *)
(***************************************************************************)
THEOREM SlotsOwned == Spec => []SlotHasOneOwner
BY SlotsInvariant, PTL DEF IInv

(***************************************************************************)
(* acquire() never dequeues from an empty ring, for any number of slots.   *)
(***************************************************************************)
THEOREM SlotsFound == Spec => []AcquireFindsSlot
<1>1. IInv => AcquireFindsSlot
  BY DEF IInv, TypeOK, FreeCountAccounts, Taking, Uncounted, AcquireFindsSlot
<1> QED BY <1>1, SlotsInvariant, PTL

(***************************************************************************)
(* Type correctness; in particular freeCount never becomes negative.       *)
(***************************************************************************)
THEOREM SlotsTypes == Spec => []TypeOK
BY SlotsInvariant, PTL DEF IInv
=============================================================================
