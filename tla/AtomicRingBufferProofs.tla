----------------------- MODULE AtomicRingBufferProofs -----------------------
(***************************************************************************)
(* The inductive invariant IInv of AtomicRingBuffer, proved for every set  *)
(* of threads, every set of values, every SIZE >= 2 and every bound.       *)
(* First arithmetic on tickets and slots, then one lemma for each kind of  *)
(* step (claim, pass the seq test, touch the slot, publish, release,       *)
(* clear), then the theorem, the properties the run checks, and that the   *)
(* ring buffer implements the ticket queue.                                *)
(***************************************************************************)
EXTENDS AtomicRingBuffer, SequenceTheorems, TLAPS

\* Division with remainder by the ring size.
LEMMA DivMod ==
    ASSUME NEW a \in Nat
    PROVE  /\ a \div SIZE \in Nat
           /\ a % SIZE \in 0 .. SIZE - 1
           /\ a = SIZE * (a \div SIZE) + (a % SIZE)
BY SizeAssumption, SMT

\* The slot of a ticket is a slot of the ring.
LEMMA SlotType ==
    ASSUME NEW a \in Nat
    PROVE  Slot(a) \in Slots
BY DivMod DEF Slot, Slots

\* Two tickets of one slot are at least a lap apart.
LEMMA SlotApart ==
    ASSUME NEW a \in Nat, NEW b \in Nat, Slot(a) = Slot(b), a < b
    PROVE  b >= a + SIZE
<1> DEFINE qa == a \div SIZE
           qb == b \div SIZE
           r == a % SIZE
<1>1. /\ qa \in Nat /\ qb \in Nat /\ r \in 0 .. SIZE - 1
      /\ a = SIZE * qa + r
      /\ b = SIZE * qb + r
  <2>1. /\ a \div SIZE \in Nat /\ a % SIZE \in 0 .. SIZE - 1
        /\ a = SIZE * (a \div SIZE) + (a % SIZE)
    BY DivMod
  <2>2. /\ b \div SIZE \in Nat
        /\ b = SIZE * (b \div SIZE) + (b % SIZE)
    BY DivMod
  <2>3. b % SIZE = a % SIZE
    BY DEF Slot
  <2> QED BY <2>1, <2>2, <2>3
<1> HIDE DEF qa, qb, r
<1>2. qa < qb
  <2> SUFFICES ASSUME qb <= qa PROVE FALSE
    BY <1>1
  <2>1. PICK d \in Nat : qa = qb + d
    <3>1. qa - qb \in Nat /\ qa = qb + (qa - qb)
      BY <1>1
    <3> QED BY <3>1
  <2>2. SIZE * qa = SIZE * qb + SIZE * d
    BY <2>1, <1>1, SizeAssumption, Z3
  <2>3. SIZE * d \in Nat /\ SIZE * qb \in Nat
    BY <2>1, <1>1, SizeAssumption
  <2> QED BY <2>2, <2>3, <1>1
<1>3. PICK d \in Nat : qb = qa + 1 + d
  <2>1. qb - qa - 1 \in Nat /\ qb = qa + 1 + (qb - qa - 1)
    BY <1>1, <1>2
  <2> QED BY <2>1
<1>4. SIZE * qb = SIZE * qa + SIZE + SIZE * d
  BY <1>1, <1>3, SizeAssumption, Z3
<1>5. SIZE * d \in Nat /\ SIZE * qa \in Nat
  BY <1>1, <1>3, SizeAssumption
<1> QED BY <1>1, <1>4, <1>5, SizeAssumption

\* The ticket a lap later has the same slot.
LEMMA SlotLap ==
    ASSUME NEW a \in Nat
    PROVE  Slot(a + SIZE) = Slot(a)
<1> DEFINE b == a + SIZE
           qa == a \div SIZE
           qb == b \div SIZE
           ra == a % SIZE
           rb == b % SIZE
<1>1. b \in Nat /\ b = a + SIZE
  BY SizeAssumption
<1>2. qa \in Nat /\ ra \in 0 .. SIZE - 1 /\ a = SIZE * qa + ra
  BY DivMod
<1>3. qb \in Nat /\ rb \in 0 .. SIZE - 1 /\ b = SIZE * qb + rb
  BY <1>1, DivMod
<1> SUFFICES rb = ra
  BY DEF Slot
<1> HIDE DEF b, qa, qb, ra, rb
<1>4. SIZE * (qa + 1) = SIZE * qa + SIZE /\ SIZE * qa \in Nat /\ SIZE * qb \in Nat
  BY <1>2, <1>3, SizeAssumption
<1>5. CASE qb = qa + 1
  BY <1>1, <1>2, <1>3, <1>4, <1>5, SizeAssumption
<1>6. CASE qb < qa + 1
  <2>1. PICK d \in Nat : qa = qb + d
    <3>1. qa - qb \in Nat /\ qa = qb + (qa - qb)
      BY <1>2, <1>3, <1>6
    <3> QED BY <3>1
  <2>2. SIZE * qa = SIZE * qb + SIZE * d /\ SIZE * d \in Nat
    BY <2>1, <1>3, SizeAssumption, Z3
  <2> QED BY <2>2, <1>1, <1>2, <1>3, <1>4, SizeAssumption
<1>7. CASE qb > qa + 1
  <2>1. PICK d \in Nat : qb = qa + 2 + d
    <3>1. qb - qa - 2 \in Nat /\ qb = qa + 2 + (qb - qa - 2)
      BY <1>2, <1>3, <1>7
    <3> QED BY <3>1
  <2>2. SIZE * qb = SIZE * qa + SIZE + SIZE + SIZE * d /\ SIZE * d \in Nat
    BY <2>1, <1>2, SizeAssumption, Z3
  <2> QED BY <2>2, <1>1, <1>2, <1>3, <1>4, SizeAssumption
<1> QED BY <1>2, <1>3, <1>5, <1>6, <1>7

\* A ticket is never smaller than its slot.
LEMMA SlotBelow ==
    ASSUME NEW a \in Nat
    PROVE  Slot(a) <= a
BY SizeAssumption, SMT DEF Slot

-----------------------------------------------------------------------------
\* The constructor establishes the invariant: slot i waits for ticket i.
LEMMA InitInv == Init => IInv
<1> SUFFICES ASSUME Init PROVE IInv
  OBVIOUS
<1> USE SizeAssumption, BoundAssumption DEF Init
<1>1. TypeOK
  BY DEF TypeOK, prepareBuffer, Slots, PCs
<1>2. ClaimsDistinct /\ ClaimsPending /\ TurnHeld /\ DeliversOwnTicket /\ NoTicketLost
  BY DEF ClaimsDistinct, ClaimsPending, TurnHeld, DeliversOwnTicket, NoTicketLost, Writing, Reading
<1>3. UnclaimedUnserved
  <2> SUFFICES ASSUME NEW k \in 0 .. MaxTickets
               PROVE  seq[Slot(k)] <= k
    BY <1>1, SlotType DEF UnclaimedUnserved, Published, Released, TypeOK
  <2> QED BY SlotType, SlotBelow DEF prepareBuffer
<1>4. ValueCarried /\ ValueInSlot
  BY DEF ValueCarried, ValueInSlot
<1> QED BY <1>1, <1>2, <1>3, <1>4 DEF IInv
-----------------------------------------------------------------------------
(***************************************************************************)
(* Steps, grouped by what they do to the tickets.                          *)
(***************************************************************************)

Unclaimed == {"idle", "size_second"} \cup Trying

\* A ticket in service stays in service or is served: nothing is lost by a
\* step that hands out no ticket.
LEMMA KeepTickets ==
    ASSUME TypeOK, NoTicketLost,
           writeTicket' = writeTicket, readTicket' = readTicket,
           \A k \in Nat : (Published(k) => Published(k)') /\ (Released(k) => Released(k)'),
           \A q \in Threads, k \in Nat : pc[q] \in Writing /\ ticket[q] = k =>
               (pc'[q] \in Writing /\ ticket'[q] = k) \/ Published(k)',
           \A q \in Threads, k \in Nat : pc[q] \in Reading /\ ticket[q] = k =>
               (pc'[q] \in Reading /\ ticket'[q] = k) \/ Released(k)'
    PROVE  NoTicketLost'
<1>1. ASSUME NEW k \in 0 .. writeTicket - 1
      PROVE  Published(k)' \/ \E q \in Threads : pc'[q] \in Writing /\ ticket'[q] = k
  <2>1. k \in Nat
    BY DEF TypeOK
  <2>2. CASE Published(k)
    BY <2>1, <2>2
  <2>3. CASE \E q \in Threads : pc[q] \in Writing /\ ticket[q] = k
    BY <2>1, <2>3
  <2> QED BY <2>2, <2>3, <1>1 DEF NoTicketLost
<1>2. ASSUME NEW k \in 0 .. readTicket - 1
      PROVE  Released(k)' \/ \E q \in Threads : pc'[q] \in Reading /\ ticket'[q] = k
  <2>1. k \in Nat
    BY DEF TypeOK
  <2>2. CASE Released(k)
    BY <2>1, <2>2
  <2>3. CASE \E q \in Threads : pc[q] \in Reading /\ ticket[q] = k
    BY <2>1, <2>3
  <2> QED BY <2>2, <2>3, <1>2 DEF NoTicketLost
<1> QED BY <1>1, <1>2 DEF NoTicketLost

\* A step of a thread that holds no ticket, before and after.
LEMMA LocalStep ==
    ASSUME IInv, NEW p \in Threads, NEW c \in Unclaimed,
           NEW t \in 0 .. MaxTickets, NEW v \in Values \cup {NoValue},
           pc[p] \in Unclaimed,
           pc' = [pc EXCEPT ![p] = c],
           ticket' = [ticket EXCEPT ![p] = t],
           val' = [val EXCEPT ![p] = v],
           UNCHANGED <<seq, data, writeTicket, readTicket, out, sent>>,
           c = "tryenq_cas" => seq[Slot(t)] >= t,
           c = "trydeq_cas" => seq[Slot(t)] >= t + 1,
           c \in {"tryenq_load", "tryenq_check", "tryenq_cas"} => v \in Values
    PROVE  IInv'
<1> USE DEF Unclaimed, Trying
<1>0. /\ TypeOK /\ ClaimsDistinct /\ ClaimsPending /\ UnclaimedUnserved /\ TurnHeld
      /\ ValueCarried /\ ValueInSlot /\ DeliversOwnTicket /\ NoTicketLost
  BY DEF IInv
<1>1. TypeOK'
  BY <1>0 DEF TypeOK, PCs
<1>2. ClaimsDistinct'
  BY <1>0 DEF TypeOK, ClaimsDistinct, Writing, Reading
<1>3. ClaimsPending'
  BY <1>0 DEF TypeOK, ClaimsPending, Writing, Reading, Published, Released
<1>4. UnclaimedUnserved'
  BY <1>0 DEF UnclaimedUnserved, Published, Released
<1>5. TurnHeld'
  BY <1>0 DEF TypeOK, TurnHeld
<1>6. ValueCarried'
  BY <1>0 DEF TypeOK, ValueCarried
<1>7. ValueInSlot'
  <2> SUFFICES ASSUME NEW k \in 0 .. writeTicket - 1, seq[Slot(k)] = k + 1,
                      NEW q \in Threads, pc[q] = "deq_release", ticket[q] = k
               PROVE  pc'[q] = "deq_release" /\ ticket'[q] = k
    BY <1>0 DEF ValueInSlot
  <2> QED BY <1>0 DEF TypeOK
<1>8. DeliversOwnTicket'
  BY <1>0 DEF TypeOK, DeliversOwnTicket
<1>9. NoTicketLost'
  <2>1. \A k \in Nat : (Published(k) => Published(k)') /\ (Released(k) => Released(k)')
    BY DEF Published, Released
  <2>2. \A q \in Threads : pc[q] \in Writing \cup Reading =>
           pc'[q] = pc[q] /\ ticket'[q] = ticket[q]
    BY <1>0 DEF TypeOK, Writing, Reading
  <2> QED BY <1>0, <2>1, <2>2, KeepTickets
<1> QED BY <1>1, <1>2, <1>3, <1>4, <1>5, <1>6, <1>7, <1>8, <1>9 DEF IInv

\* A thread takes the next write ticket.
LEMMA ClaimWriteStep ==
    ASSUME IInv, NEW p \in Threads, NEW c \in {"enq_spin", "enq_write"}, NEW v \in Values,
           pc[p] \in Unclaimed,
           pc' = [pc EXCEPT ![p] = c],
           ClaimWrite(p, v),
           c = "enq_write" => seq[Slot(writeTicket)] = writeTicket
    PROVE  IInv'
<1> USE DEF Unclaimed, Trying, ClaimWrite
<1>0. /\ TypeOK /\ ClaimsDistinct /\ ClaimsPending /\ UnclaimedUnserved /\ TurnHeld
      /\ ValueCarried /\ ValueInSlot /\ DeliversOwnTicket /\ NoTicketLost
  BY DEF IInv
<1>a. /\ writeTicket \in Nat /\ writeTicket < MaxTickets /\ MaxTickets \in Nat
      /\ writeTicket \in 0 .. MaxTickets /\ writeTicket + 1 \in 0 .. MaxTickets
  BY <1>0, BoundAssumption DEF TypeOK
<1>b. /\ ticket' = [ticket EXCEPT ![p] = writeTicket]
      /\ val' = [val EXCEPT ![p] = v]
      /\ writeTicket' = writeTicket + 1
      /\ UNCHANGED <<seq, data, readTicket, out>>
  OBVIOUS
<1>c. /\ sent' \in Seq(Values) /\ Len(sent') = writeTicket + 1
      /\ sent'[writeTicket + 1] = v
      /\ \A k \in 0 .. writeTicket - 1 : sent'[k + 1] = sent[k + 1]
  <2>1. sent \in Seq(Values) /\ Len(sent) = writeTicket /\ sent' = Append(sent, v)
    BY <1>0 DEF TypeOK
  <2>2. /\ Append(sent, v) \in Seq(Values)
        /\ Len(Append(sent, v)) = Len(sent) + 1
        /\ \A i \in 1 .. Len(sent) : Append(sent, v)[i] = sent[i]
        /\ Append(sent, v)[Len(sent) + 1] = v
    BY <2>1, AppendProperties
  <2>3. \A k \in 0 .. writeTicket - 1 : k + 1 \in 1 .. Len(sent)
    BY <1>a, <2>1
  <2> QED BY <1>a, <2>1, <2>2, <2>3
<1> HIDE DEF ClaimWrite
<1>1. TypeOK'
  BY <1>0, <1>a, <1>b, <1>c DEF TypeOK, PCs, Writing
<1>2. ClaimsDistinct'
  BY <1>0, <1>a, <1>b DEF TypeOK, ClaimsDistinct, ClaimsPending, Writing, Reading
<1>3. ClaimsPending'
  <2>1. ~Published(writeTicket)
    BY <1>0, <1>a DEF UnclaimedUnserved
  <2> QED BY <1>0, <1>a, <1>b, <2>1 DEF TypeOK, ClaimsPending, Writing, Reading, Published, Released
<1>4. UnclaimedUnserved'
  BY <1>0, <1>a, <1>b DEF UnclaimedUnserved, Published, Released
<1>5. TurnHeld'
  BY <1>0, <1>b DEF TypeOK, TurnHeld
<1>6. ValueCarried'
  <2>1. \A q \in Threads : pc[q] \in Writing => ticket[q] \in 0 .. writeTicket - 1
    BY <1>0, <1>a DEF TypeOK, ClaimsPending
  <2> QED BY <1>0, <1>a, <1>b, <1>c, <2>1 DEF TypeOK, ValueCarried, Writing
<1>7. ValueInSlot'
  <2> SUFFICES ASSUME NEW k \in 0 .. writeTicket, seq[Slot(k)] = k + 1
               PROVE  \/ data[Slot(k)] = sent'[k + 1]
                      \/ \E q \in Threads : pc'[q] = "deq_release" /\ ticket'[q] = k
    BY <1>a, <1>b DEF ValueInSlot
  <2>1. k \in 0 .. writeTicket - 1
    BY <1>0, <1>a DEF UnclaimedUnserved, Published
  <2>2. CASE data[Slot(k)] = sent[k + 1]
    BY <2>1, <2>2, <1>c
  <2>3. ASSUME NEW q \in Threads, pc[q] = "deq_release", ticket[q] = k
        PROVE  pc'[q] = "deq_release" /\ ticket'[q] = k
    BY <1>0, <1>b, <2>3 DEF TypeOK
  <2> QED BY <1>0, <2>1, <2>2, <2>3 DEF ValueInSlot
<1>8. DeliversOwnTicket'
  <2> SUFFICES ASSUME NEW q \in Threads, pc'[q] = "deq_release"
               PROVE  val'[q] = sent'[ticket'[q] + 1]
    BY DEF DeliversOwnTicket
  <2>1. q # p /\ pc[q] = "deq_release" /\ ticket'[q] = ticket[q] /\ val'[q] = val[q]
    BY <1>0, <1>b DEF TypeOK
  <2>2. ticket[q] \in 0 .. writeTicket - 1
    <3>1. ticket[q] \in 0 .. MaxTickets /\ seq[Slot(ticket[q])] = ticket[q] + 1
      BY <1>0, <2>1 DEF TypeOK, TurnHeld
    <3> QED BY <1>0, <1>a, <3>1 DEF UnclaimedUnserved, Published
  <2> QED BY <1>0, <1>c, <2>1, <2>2 DEF DeliversOwnTicket
<1>9. NoTicketLost'
  <2>1. ASSUME NEW k \in 0 .. writeTicket
        PROVE  Published(k)' \/ \E q \in Threads : pc'[q] \in Writing /\ ticket'[q] = k
    <3>1. CASE k = writeTicket
      <4>1. pc'[p] \in Writing /\ ticket'[p] = k
        BY <1>0, <1>b, <3>1 DEF TypeOK, Writing
      <4> QED BY <4>1
    <3>2. CASE k \in 0 .. writeTicket - 1
      <4>1. ASSUME NEW q \in Threads, pc[q] \in Writing, ticket[q] = k
            PROVE  pc'[q] \in Writing /\ ticket'[q] = k
        BY <1>0, <1>b, <4>1 DEF TypeOK, Writing
      <4> QED BY <1>0, <1>b, <3>2, <4>1 DEF NoTicketLost, Published
    <3> QED BY <1>a, <3>1, <3>2
  <2>2. ASSUME NEW k \in 0 .. readTicket - 1
        PROVE  Released(k)' \/ \E q \in Threads : pc'[q] \in Reading /\ ticket'[q] = k
    <3>1. ASSUME NEW q \in Threads, pc[q] \in Reading, ticket[q] = k
          PROVE  pc'[q] \in Reading /\ ticket'[q] = k
      BY <1>0, <1>b, <3>1 DEF TypeOK, Reading
    <3> QED BY <1>0, <1>b, <3>1 DEF NoTicketLost, Released
  <2> QED BY <1>a, <1>b, <2>1, <2>2 DEF NoTicketLost
<1> QED BY <1>1, <1>2, <1>3, <1>4, <1>5, <1>6, <1>7, <1>8, <1>9 DEF IInv

\* A thread takes the next read ticket.
LEMMA ClaimReadStep ==
    ASSUME IInv, NEW p \in Threads, NEW c \in {"deq_spin", "deq_read"},
           pc[p] \in Unclaimed,
           pc' = [pc EXCEPT ![p] = c],
           ClaimRead(p),
           c = "deq_read" => seq[Slot(readTicket)] = readTicket + 1
    PROVE  IInv'
<1> USE DEF Unclaimed, Trying
<1>0. /\ TypeOK /\ ClaimsDistinct /\ ClaimsPending /\ UnclaimedUnserved /\ TurnHeld
      /\ ValueCarried /\ ValueInSlot /\ DeliversOwnTicket /\ NoTicketLost
  BY DEF IInv
<1>a. /\ readTicket \in Nat /\ readTicket < MaxTickets /\ MaxTickets \in Nat
      /\ readTicket \in 0 .. MaxTickets /\ readTicket + 1 \in 0 .. MaxTickets
  BY <1>0, BoundAssumption DEF TypeOK, ClaimRead
<1>b. /\ ticket' = [ticket EXCEPT ![p] = readTicket]
      /\ readTicket' = readTicket + 1
      /\ UNCHANGED <<seq, data, writeTicket, val, out, sent>>
  BY DEF ClaimRead
<1>1. TypeOK'
  BY <1>0, <1>a, <1>b DEF TypeOK, PCs, Reading
<1>2. ClaimsDistinct'
  BY <1>0, <1>a, <1>b DEF TypeOK, ClaimsDistinct, ClaimsPending, Writing, Reading
<1>3. ClaimsPending'
  <2>1. ~Released(readTicket)
    BY <1>0, <1>a DEF UnclaimedUnserved
  <2> QED BY <1>0, <1>a, <1>b, <2>1 DEF TypeOK, ClaimsPending, Writing, Reading, Published, Released
<1>4. UnclaimedUnserved'
  BY <1>0, <1>a, <1>b DEF UnclaimedUnserved, Published, Released
<1>5. TurnHeld'
  BY <1>0, <1>b DEF TypeOK, TurnHeld
<1>6. ValueCarried'
  BY <1>0, <1>b DEF TypeOK, ValueCarried
<1>7. ValueInSlot'
  <2> SUFFICES ASSUME NEW k \in 0 .. writeTicket - 1, seq[Slot(k)] = k + 1,
                      NEW q \in Threads, pc[q] = "deq_release", ticket[q] = k
               PROVE  pc'[q] = "deq_release" /\ ticket'[q] = k
    BY <1>0, <1>b DEF ValueInSlot
  <2> QED BY <1>0, <1>b DEF TypeOK
<1>8. DeliversOwnTicket'
  BY <1>0, <1>b DEF TypeOK, DeliversOwnTicket
<1>9. NoTicketLost'
  <2>1. ASSUME NEW k \in 0 .. readTicket
        PROVE  Released(k)' \/ \E q \in Threads : pc'[q] \in Reading /\ ticket'[q] = k
    <3>1. CASE k = readTicket
      <4>1. pc'[p] \in Reading /\ ticket'[p] = k
        BY <1>0, <1>b, <3>1 DEF TypeOK, Reading
      <4> QED BY <4>1
    <3>2. CASE k \in 0 .. readTicket - 1
      <4>1. ASSUME NEW q \in Threads, pc[q] \in Reading, ticket[q] = k
            PROVE  pc'[q] \in Reading /\ ticket'[q] = k
        BY <1>0, <1>b, <4>1 DEF TypeOK, Reading
      <4> QED BY <1>0, <1>b, <3>2, <4>1 DEF NoTicketLost, Released
    <3> QED BY <1>a, <3>1, <3>2
  <2>2. ASSUME NEW k \in 0 .. writeTicket - 1
        PROVE  Published(k)' \/ \E q \in Threads : pc'[q] \in Writing /\ ticket'[q] = k
    <3>1. ASSUME NEW q \in Threads, pc[q] \in Writing, ticket[q] = k
          PROVE  pc'[q] \in Writing /\ ticket'[q] = k
      BY <1>0, <1>b, <3>1 DEF TypeOK, Writing
    <3> QED BY <1>0, <1>b, <3>1 DEF NoTicketLost, Published
  <2> QED BY <1>a, <1>b, <2>1, <2>2 DEF NoTicketLost
<1> QED BY <1>1, <1>2, <1>3, <1>4, <1>5, <1>6, <1>7, <1>8, <1>9 DEF IInv

\* A waiting thread finds that it is its turn.
LEMMA SpinStep ==
    ASSUME IInv, NEW p \in Threads, EnqueueSpin(p) \/ DequeueSpin(p)
    PROVE  IInv'
<1> USE DEF EnqueueSpin, DequeueSpin, Goto
<1>0. /\ TypeOK /\ ClaimsDistinct /\ ClaimsPending /\ UnclaimedUnserved /\ TurnHeld
      /\ ValueCarried /\ ValueInSlot /\ DeliversOwnTicket /\ NoTicketLost
  BY DEF IInv
<1>1. TypeOK'
  BY <1>0 DEF TypeOK, PCs, Writing, Reading
<1>2. ClaimsDistinct'
  BY <1>0 DEF TypeOK, ClaimsDistinct, Writing, Reading
<1>3. ClaimsPending'
  BY <1>0 DEF TypeOK, ClaimsPending, Writing, Reading, Published, Released
<1>4. UnclaimedUnserved'
  BY <1>0 DEF UnclaimedUnserved, Published, Released
<1>5. TurnHeld'
  BY <1>0 DEF TypeOK, TurnHeld
<1>6. ValueCarried'
  BY <1>0 DEF TypeOK, ValueCarried
<1>7. ValueInSlot'
  <2> SUFFICES ASSUME NEW k \in 0 .. writeTicket - 1, seq[Slot(k)] = k + 1,
                      NEW q \in Threads, pc[q] = "deq_release", ticket[q] = k
               PROVE  pc'[q] = "deq_release" /\ ticket'[q] = k
    BY <1>0 DEF ValueInSlot
  <2> QED BY <1>0 DEF TypeOK
<1>8. DeliversOwnTicket'
  BY <1>0 DEF TypeOK, DeliversOwnTicket
<1>9. NoTicketLost'
  <2>1. \A k \in Nat : (Published(k) => Published(k)') /\ (Released(k) => Released(k)')
    BY DEF Published, Released
  <2>2. \A q \in Threads : /\ ticket'[q] = ticket[q]
                           /\ pc[q] \in Writing => pc'[q] \in Writing
                           /\ pc[q] \in Reading => pc'[q] \in Reading
    BY <1>0 DEF TypeOK, Writing, Reading
  <2>3. writeTicket' = writeTicket /\ readTicket' = readTicket
    OBVIOUS
  <2> QED BY <1>0, <2>1, <2>2, <2>3, KeepTickets
<1> QED BY <1>1, <1>2, <1>3, <1>4, <1>5, <1>6, <1>7, <1>8, <1>9 DEF IInv

\* The two plain accesses to a slot: only the thread whose turn it is makes one.
LEMMA AccessStep ==
    ASSUME IInv, NEW p \in Threads, EnqueueWrite(p) \/ DequeueRead(p)
    PROVE  IInv'
<1> USE DEF EnqueueWrite, DequeueRead, Goto
<1>0. /\ TypeOK /\ ClaimsDistinct /\ ClaimsPending /\ UnclaimedUnserved /\ TurnHeld
      /\ ValueCarried /\ ValueInSlot /\ DeliversOwnTicket /\ NoTicketLost
  BY DEF IInv
<1>a. ticket[p] \in Nat /\ Slot(ticket[p]) \in Slots
  BY <1>0, BoundAssumption, SlotType DEF TypeOK
<1>b. /\ UNCHANGED <<seq, writeTicket, readTicket, ticket, out, sent>>
      /\ \A q \in Threads : q # p => pc'[q] = pc[q] /\ val'[q] = val[q]
  BY <1>0 DEF TypeOK
<1>c. \A i \in Slots : i # Slot(ticket[p]) => data'[i] = data[i]
  BY <1>0 DEF TypeOK
<1>d. \/ pc[p] = "enq_write" /\ pc'[p] = "enq_publish" /\ data'[Slot(ticket[p])] = val[p]
      \/ pc[p] = "deq_read" /\ pc'[p] = "deq_release" /\ val'[p] = data[Slot(ticket[p])]
  BY <1>0, <1>a DEF TypeOK
<1>1. TypeOK'
  BY <1>0, <1>a DEF TypeOK, PCs, Writing, Reading
<1>2. ClaimsDistinct'
  BY <1>0, <1>b, <1>d DEF ClaimsDistinct, Writing, Reading
<1>3. ClaimsPending'
  BY <1>0, <1>b, <1>d DEF ClaimsPending, Writing, Reading, Published, Released
<1>4. UnclaimedUnserved'
  BY <1>0, <1>b DEF UnclaimedUnserved, Published, Released
<1>5. TurnHeld'
  BY <1>0, <1>b, <1>d DEF TurnHeld
<1>e. ASSUME NEW q \in Threads, q # p, pc[q] \in Touching
      PROVE  Slot(ticket[q]) # Slot(ticket[p])
  <2> SUFFICES ASSUME Slot(ticket[q]) = Slot(ticket[p]) PROVE FALSE
    OBVIOUS
  <2>1. ticket[q] \in Nat
    BY <1>0, BoundAssumption DEF TypeOK
  <2>2. ticket[q] # ticket[p] \/ seq[Slot(ticket[q])] # seq[Slot(ticket[p])]
    BY <1>0, <1>d, <1>e, <1>a, <2>1 DEF ClaimsDistinct, TurnHeld, Writing, Reading, Touching
  <2>3. ticket[q] # ticket[p]
    BY <2>2
  <2>4. ticket[q] + SIZE <= ticket[p] \/ ticket[p] + SIZE <= ticket[q]
    BY <1>a, <2>1, <2>3, SlotApart
  <2>5. /\ seq[Slot(ticket[q])] \in {ticket[q], ticket[q] + 1}
        /\ seq[Slot(ticket[p])] \in {ticket[p], ticket[p] + 1}
    BY <1>0, <1>d, <1>e DEF TurnHeld, Touching
  <2> QED BY <1>a, <2>1, <2>4, <2>5, SizeAssumption
<1>6. ValueCarried'
  <2> SUFFICES ASSUME NEW q \in Threads
               PROVE  /\ pc'[q] \in {"enq_spin", "enq_write"} => val'[q] = sent[ticket[q] + 1]
                      /\ pc'[q] = "enq_publish" => data'[Slot(ticket[q])] = sent[ticket[q] + 1]
                      /\ pc'[q] \in {"tryenq_load", "tryenq_check", "tryenq_cas"} => val'[q] \in Values
    BY <1>b DEF ValueCarried
  <2>1. CASE q = p
    BY <1>0, <1>d, <2>1 DEF ValueCarried
  <2>2. CASE q # p
    <3>1. pc'[q] = pc[q] /\ val'[q] = val[q]
      BY <1>b, <2>2
    <3>2. ticket[q] \in Nat /\ Slot(ticket[q]) \in Slots
      BY <1>0, BoundAssumption, SlotType DEF TypeOK
    <3>3. pc[q] = "enq_publish" => data'[Slot(ticket[q])] = data[Slot(ticket[q])]
      BY <1>c, <1>e, <2>2, <3>2 DEF Touching
    <3> QED BY <1>0, <3>1, <3>3 DEF ValueCarried
  <2> QED BY <2>1, <2>2
<1>7. ValueInSlot'
  <2> SUFFICES ASSUME NEW k \in 0 .. writeTicket - 1, seq[Slot(k)] = k + 1
               PROVE  \/ data'[Slot(k)] = sent[k + 1]
                      \/ \E q \in Threads : pc'[q] = "deq_release" /\ ticket[q] = k
    BY <1>b DEF ValueInSlot
  <2>0. k \in Nat /\ Slot(k) \in Slots
    BY <1>0, BoundAssumption, SlotType DEF TypeOK
  <2>1. ASSUME NEW q \in Threads, pc[q] = "deq_release", ticket[q] = k
        PROVE  pc'[q] = "deq_release"
    BY <1>b, <1>d, <2>1
  <2>2. CASE data[Slot(k)] = sent[k + 1] /\ Slot(k) # Slot(ticket[p])
    BY <1>c, <2>0, <2>2
  <2>3. CASE Slot(k) = Slot(ticket[p]) /\ pc[p] = "deq_read"
    <3>1. ticket[p] = k
      BY <1>0, <1>a, <2>0, <2>3 DEF TurnHeld
    <3> QED BY <1>d, <2>3, <3>1
  <2>4. CASE Slot(k) = Slot(ticket[p]) /\ pc[p] = "enq_write"
    <3>1. k + 1 = ticket[p]
      BY <1>0, <1>a, <2>0, <2>4 DEF TurnHeld
    <3>2. k < ticket[p]
      BY <3>1, <2>0, <1>a
    <3>3. ticket[p] >= k + SIZE
      BY <3>2, <2>0, <1>a, <2>4, SlotApart
    <3> QED BY <3>1, <3>3, <1>a, <2>0, SizeAssumption
  <2> QED BY <1>0, <1>d, <2>1, <2>2, <2>3, <2>4 DEF ValueInSlot
<1>8. DeliversOwnTicket'
  <2> SUFFICES ASSUME NEW q \in Threads, pc'[q] = "deq_release"
               PROVE  val'[q] = sent[ticket[q] + 1]
    BY <1>b DEF DeliversOwnTicket
  <2>1. CASE q # p
    BY <1>0, <1>b, <2>1 DEF DeliversOwnTicket
  <2>2. CASE q = p
    <3>1. pc[p] = "deq_read" /\ val'[p] = data[Slot(ticket[p])]
      BY <1>d, <2>2
    <3>2. seq[Slot(ticket[p])] = ticket[p] + 1 /\ ticket[p] \in 0 .. MaxTickets
      BY <1>0, <3>1 DEF TurnHeld, TypeOK
    <3>3. ticket[p] \in 0 .. writeTicket - 1
      BY <1>0, <3>2, BoundAssumption DEF UnclaimedUnserved, Published, TypeOK
    <3>4. \A r \in Threads : ~(pc[r] = "deq_release" /\ ticket[r] = ticket[p])
      BY <1>0, <3>1 DEF ClaimsDistinct, Reading
    <3> QED BY <1>0, <2>2, <3>1, <3>2, <3>3, <3>4 DEF ValueInSlot
  <2> QED BY <2>1, <2>2
<1>9. NoTicketLost'
  <2>1. \A k \in Nat : (Published(k) => Published(k)') /\ (Released(k) => Released(k)')
    BY <1>b DEF Published, Released
  <2>2. \A q \in Threads : /\ ticket'[q] = ticket[q]
                           /\ pc[q] \in Writing => pc'[q] \in Writing
                           /\ pc[q] \in Reading => pc'[q] \in Reading
    BY <1>b, <1>d DEF Writing, Reading
  <2>3. writeTicket' = writeTicket /\ readTicket' = readTicket
    BY <1>b
  <2> QED BY <1>0, <2>1, <2>2, <2>3, KeepTickets
<1> QED BY <1>1, <1>2, <1>3, <1>4, <1>5, <1>6, <1>7, <1>8, <1>9 DEF IInv

\* Publishing serves exactly the write ticket of the thread that does it...
LEMMA PublishEffect ==
    ASSUME IInv, NEW p \in Threads, EnqueuePublish(p), NEW k \in Nat
    PROVE  /\ Published(k)' <=> Published(k) \/ k = ticket[p]
           /\ Released(k)' <=> Released(k)
           /\ k # ticket[p] => (seq'[Slot(k)] = k + 1 <=> seq[Slot(k)] = k + 1)
<1> DEFINE t == ticket[p]
<1>1. /\ t \in Nat /\ Slot(t) \in Slots /\ Slot(k) \in Slots
      /\ seq \in [Slots -> Nat] /\ seq[Slot(t)] = t
      /\ seq' = [seq EXCEPT ![Slot(t)] = t + 1]
  BY BoundAssumption, SlotType DEF IInv, TypeOK, TurnHeld, EnqueuePublish, Goto
<1> HIDE DEF t
<1>2. CASE Slot(k) # Slot(t)
  BY <1>1, <1>2 DEF Published, Released, t
<1>3. CASE k = t
  BY <1>1, <1>3 DEF Published, Released, t
<1>4. CASE Slot(k) = Slot(t) /\ k < t
  <2>1. k + SIZE <= t
    BY <1>1, <1>4, SlotApart
  <2> QED BY <1>1, <1>4, <2>1, SizeAssumption DEF Published, Released, t
<1>5. CASE Slot(k) = Slot(t) /\ k > t
  <2>1. t + SIZE <= k
    BY <1>1, <1>5, SlotApart
  <2> QED BY <1>1, <1>5, <2>1, SizeAssumption DEF Published, Released, t
<1> QED BY <1>1, <1>2, <1>3, <1>4, <1>5

\* ... and releasing exactly its read ticket.
LEMMA ReleaseEffect ==
    ASSUME IInv, NEW p \in Threads, DequeueRelease(p), NEW k \in Nat
    PROVE  /\ Published(k)' <=> Published(k)
           /\ Released(k)' <=> Released(k) \/ k = ticket[p]
           /\ seq'[Slot(k)] = k + 1 => seq[Slot(k)] = k + 1 /\ k # ticket[p]
<1> DEFINE t == ticket[p]
<1>1. /\ t \in Nat /\ Slot(t) \in Slots /\ Slot(k) \in Slots
      /\ seq \in [Slots -> Nat] /\ seq[Slot(t)] = t + 1
      /\ seq' = [seq EXCEPT ![Slot(t)] = t + SIZE]
  BY BoundAssumption, SlotType DEF IInv, TypeOK, TurnHeld, DequeueRelease, Goto
<1> HIDE DEF t
<1>2. CASE Slot(k) # Slot(t)
  BY <1>1, <1>2 DEF Published, Released, t
<1>3. CASE k = t
  BY <1>1, <1>3, SizeAssumption DEF Published, Released, t
<1>4. CASE Slot(k) = Slot(t) /\ k < t
  <2>1. k + SIZE <= t
    BY <1>1, <1>4, SlotApart
  <2> QED BY <1>1, <1>4, <2>1, SizeAssumption DEF Published, Released, t
<1>5. CASE Slot(k) = Slot(t) /\ k > t
  <2>1. t + SIZE <= k
    BY <1>1, <1>5, SlotApart
  <2> QED BY <1>1, <1>5, <2>1, SizeAssumption DEF Published, Released, t
<1> QED BY <1>1, <1>2, <1>3, <1>4, <1>5

\* Publishing a value (lines 49, 59, 96 and 179) preserves the invariant.
LEMMA PublishStep ==
    ASSUME IInv, NEW p \in Threads, EnqueuePublish(p)
    PROVE  IInv'
<1>0. /\ TypeOK /\ ClaimsDistinct /\ ClaimsPending /\ UnclaimedUnserved /\ TurnHeld
      /\ ValueCarried /\ ValueInSlot /\ DeliversOwnTicket /\ NoTicketLost
  BY DEF IInv
<1> DEFINE t == ticket[p]
<1>a. /\ t \in Nat /\ Slot(t) \in Slots /\ t < writeTicket
      /\ pc[p] = "enq_publish" /\ seq[Slot(t)] = t
      /\ data[Slot(t)] = sent[t + 1]
  BY <1>0, BoundAssumption, SlotType DEF TypeOK, ClaimsPending, TurnHeld, ValueCarried, Writing, EnqueuePublish, Goto
<1>b. /\ pc' = [pc EXCEPT ![p] = "idle"]
      /\ ticket' = [ticket EXCEPT ![p] = 0]
      /\ val' = [val EXCEPT ![p] = NoValue]
      /\ seq' = [seq EXCEPT ![Slot(t)] = t + 1]
      /\ UNCHANGED <<data, writeTicket, readTicket, out, sent>>
  BY DEF EnqueuePublish, Goto, Return
<1>c. \A k \in Nat : /\ Published(k)' <=> Published(k) \/ k = t
                     /\ Released(k)' <=> Released(k)
                     /\ k # t => (seq'[Slot(k)] = k + 1 <=> seq[Slot(k)] = k + 1)
  BY PublishEffect
<1>d. /\ pc'[p] = "idle"
      /\ \A q \in Threads : q # p => pc'[q] = pc[q] /\ ticket'[q] = ticket[q] /\ val'[q] = val[q]
  BY <1>0, <1>b DEF TypeOK
<1>e. \A q \in Threads : ticket[q] \in Nat /\ Slot(ticket[q]) \in Slots
  BY <1>0, BoundAssumption, SlotType DEF TypeOK
<1> HIDE DEF t
<1>1. TypeOK'
  BY <1>0, <1>a, <1>b, BoundAssumption DEF TypeOK, PCs
<1>2. ClaimsDistinct'
  BY <1>0, <1>d DEF ClaimsDistinct, Writing, Reading
<1>3. ClaimsPending'
  <2> SUFFICES ASSUME NEW q \in Threads, q # p
               PROVE  /\ pc[q] \in Writing => ticket[q] < writeTicket /\ ~(seq'[Slot(ticket[q])] > ticket[q])
                      /\ pc[q] \in Reading => ticket[q] < readTicket /\ ~(seq'[Slot(ticket[q])] > ticket[q] + 1)
    BY <1>b, <1>d DEF ClaimsPending, Writing, Reading, Published, Released
  <2>1. pc[q] \in Writing => ticket[q] # t
    BY <1>0, <1>a DEF ClaimsDistinct, Writing, t
  <2> QED BY <1>0, <1>c, <1>e, <2>1 DEF ClaimsPending, Published, Released
<1>4. UnclaimedUnserved'
  <2> SUFFICES ASSUME NEW k \in 0 .. MaxTickets
               PROVE  /\ k >= writeTicket => ~Published(k)'
                      /\ k >= readTicket => ~Released(k)'
    BY <1>b DEF UnclaimedUnserved
  <2>1. k \in Nat /\ (k >= writeTicket => k # t)
    BY <1>0, <1>a, BoundAssumption DEF TypeOK
  <2> QED BY <1>0, <1>c, <2>1 DEF UnclaimedUnserved
<1>5. TurnHeld'
  <2> SUFFICES ASSUME NEW q \in Threads, q # p
               PROVE  /\ pc[q] \in {"enq_write", "enq_publish"} => seq'[Slot(ticket[q])] = ticket[q]
                      /\ pc[q] \in {"deq_read", "deq_release"} => seq'[Slot(ticket[q])] = ticket[q] + 1
                      /\ pc[q] = "tryenq_cas" => seq'[Slot(ticket[q])] >= ticket[q]
                      /\ pc[q] = "trydeq_cas" => seq'[Slot(ticket[q])] >= ticket[q] + 1
    BY <1>d DEF TurnHeld
  <2>1. CASE Slot(ticket[q]) # Slot(t)
    <3>1. seq'[Slot(ticket[q])] = seq[Slot(ticket[q])]
      BY <1>0, <1>b, <1>e, <2>1 DEF TypeOK
    <3> QED BY <1>0, <3>1 DEF TurnHeld
  <2>2. CASE Slot(ticket[q]) = Slot(t)
    <3>1. seq'[Slot(ticket[q])] = t + 1 /\ seq[Slot(ticket[q])] = t
      BY <1>0, <1>a, <1>b, <2>2 DEF TypeOK
    <3>2. pc[q] \in {"enq_write", "enq_publish"} => FALSE
      BY <1>0, <1>a, <3>1 DEF TurnHeld, ClaimsDistinct, Writing, t
    <3>3. pc[q] \in {"deq_read", "deq_release"} => FALSE
      <4> SUFFICES ASSUME t = ticket[q] + 1 PROVE FALSE
        BY <1>0, <3>1 DEF TurnHeld
      <4>1. t >= ticket[q] + SIZE
        BY <1>a, <1>e, <2>2, SlotApart
      <4> QED BY <1>a, <1>e, <4>1, SizeAssumption
    <3> QED BY <1>0, <1>a, <1>e, <3>1, <3>2, <3>3 DEF TurnHeld
  <2> QED BY <2>1, <2>2
<1>6. ValueCarried'
  BY <1>0, <1>b, <1>d DEF ValueCarried
<1>7. ValueInSlot'
  <2> SUFFICES ASSUME NEW k \in 0 .. writeTicket - 1, seq'[Slot(k)] = k + 1
               PROVE  \/ data[Slot(k)] = sent[k + 1]
                      \/ \E q \in Threads : pc'[q] = "deq_release" /\ ticket'[q] = k
    BY <1>b DEF ValueInSlot
  <2>1. CASE k = t
    BY <1>a, <2>1
  <2>2. CASE k # t
    <3>1. seq[Slot(k)] = k + 1
      BY <1>0, <1>c, <2>2, BoundAssumption DEF TypeOK
    <3>2. ASSUME NEW q \in Threads, pc[q] = "deq_release", ticket[q] = k
          PROVE  pc'[q] = "deq_release" /\ ticket'[q] = k
      BY <1>a, <1>d, <3>2
    <3> QED BY <1>0, <3>1, <3>2 DEF ValueInSlot
  <2> QED BY <2>1, <2>2
<1>8. DeliversOwnTicket'
  BY <1>0, <1>b, <1>d DEF DeliversOwnTicket
<1>9. NoTicketLost'
  <2>1. \A q \in Threads, k \in Nat : pc[q] \in Writing /\ ticket[q] = k =>
           (pc'[q] \in Writing /\ ticket'[q] = k) \/ Published(k)'
    BY <1>c, <1>d DEF t
  <2>2. \A q \in Threads, k \in Nat : pc[q] \in Reading /\ ticket[q] = k =>
           (pc'[q] \in Reading /\ ticket'[q] = k) \/ Released(k)'
    BY <1>a, <1>d DEF Reading
  <2> QED BY <1>0, <1>b, <1>c, <2>1, <2>2, KeepTickets
<1> QED BY <1>1, <1>2, <1>3, <1>4, <1>5, <1>6, <1>7, <1>8, <1>9 DEF IInv

\* Handing a slot to the next lap (lines 70, 121 and 141) preserves the invariant.
LEMMA ReleaseStep ==
    ASSUME IInv, NEW p \in Threads, DequeueRelease(p)
    PROVE  IInv'
<1>0. /\ TypeOK /\ ClaimsDistinct /\ ClaimsPending /\ UnclaimedUnserved /\ TurnHeld
      /\ ValueCarried /\ ValueInSlot /\ DeliversOwnTicket /\ NoTicketLost
  BY DEF IInv
<1> DEFINE t == ticket[p]
<1>a. /\ t \in Nat /\ Slot(t) \in Slots /\ t < readTicket
      /\ pc[p] = "deq_release" /\ seq[Slot(t)] = t + 1
  BY <1>0, BoundAssumption, SlotType DEF TypeOK, ClaimsPending, TurnHeld, Reading, DequeueRelease, Goto
<1>b. /\ pc' = [pc EXCEPT ![p] = "idle"]
      /\ ticket' = [ticket EXCEPT ![p] = 0]
      /\ val' = [val EXCEPT ![p] = NoValue]
      /\ out' = [out EXCEPT ![p] = val[p]]
      /\ seq' = [seq EXCEPT ![Slot(t)] = t + SIZE]
      /\ UNCHANGED <<data, writeTicket, readTicket, sent>>
  BY DEF DequeueRelease, Goto, Return
<1>c. \A k \in Nat : /\ Published(k)' <=> Published(k)
                     /\ Released(k)' <=> Released(k) \/ k = t
                     /\ seq'[Slot(k)] = k + 1 => seq[Slot(k)] = k + 1 /\ k # t
  BY ReleaseEffect
<1>d. /\ pc'[p] = "idle"
      /\ \A q \in Threads : q # p => pc'[q] = pc[q] /\ ticket'[q] = ticket[q] /\ val'[q] = val[q]
  BY <1>0, <1>b DEF TypeOK
<1>e. \A q \in Threads : ticket[q] \in Nat /\ Slot(ticket[q]) \in Slots
  BY <1>0, BoundAssumption, SlotType DEF TypeOK
<1> HIDE DEF t
<1>1. TypeOK'
  <2>1. t + SIZE \in Nat
    BY <1>a, SizeAssumption
  <2> QED BY <1>0, <1>a, <1>b, <2>1, BoundAssumption DEF TypeOK, PCs
<1>2. ClaimsDistinct'
  BY <1>0, <1>d DEF ClaimsDistinct, Writing, Reading
<1>3. ClaimsPending'
  <2> SUFFICES ASSUME NEW q \in Threads, q # p
               PROVE  /\ pc[q] \in Writing => ticket[q] < writeTicket /\ ~(seq'[Slot(ticket[q])] > ticket[q])
                      /\ pc[q] \in Reading => ticket[q] < readTicket /\ ~(seq'[Slot(ticket[q])] > ticket[q] + 1)
    BY <1>b, <1>d DEF ClaimsPending, Writing, Reading, Published, Released
  <2>1. pc[q] \in Reading => ticket[q] # t
    BY <1>0, <1>a DEF ClaimsDistinct, Reading, t
  <2> QED BY <1>0, <1>c, <1>e, <2>1 DEF ClaimsPending, Published, Released
<1>4. UnclaimedUnserved'
  <2> SUFFICES ASSUME NEW k \in 0 .. MaxTickets
               PROVE  /\ k >= writeTicket => ~Published(k)'
                      /\ k >= readTicket => ~Released(k)'
    BY <1>b DEF UnclaimedUnserved
  <2> QED BY <1>0, <1>a, <1>c, BoundAssumption DEF UnclaimedUnserved, TypeOK
<1>5. TurnHeld'
  <2> SUFFICES ASSUME NEW q \in Threads, q # p
               PROVE  /\ pc[q] \in {"enq_write", "enq_publish"} => seq'[Slot(ticket[q])] = ticket[q]
                      /\ pc[q] \in {"deq_read", "deq_release"} => seq'[Slot(ticket[q])] = ticket[q] + 1
                      /\ pc[q] = "tryenq_cas" => seq'[Slot(ticket[q])] >= ticket[q]
                      /\ pc[q] = "trydeq_cas" => seq'[Slot(ticket[q])] >= ticket[q] + 1
    BY <1>d DEF TurnHeld
  <2>1. CASE Slot(ticket[q]) # Slot(t)
    <3>1. seq'[Slot(ticket[q])] = seq[Slot(ticket[q])]
      BY <1>0, <1>b, <1>e, <2>1 DEF TypeOK
    <3> QED BY <1>0, <3>1 DEF TurnHeld
  <2>2. CASE Slot(ticket[q]) = Slot(t)
    <3>1. seq'[Slot(ticket[q])] = t + SIZE /\ seq[Slot(ticket[q])] = t + 1
      BY <1>0, <1>a, <1>b, <2>2 DEF TypeOK
    <3>2. pc[q] \in {"deq_read", "deq_release"} => FALSE
      BY <1>0, <1>a, <1>e, <3>1 DEF TurnHeld, ClaimsDistinct, Reading, t
    <3>3. pc[q] \in {"enq_write", "enq_publish"} => FALSE
      <4> SUFFICES ASSUME t + 1 = ticket[q] PROVE FALSE
        BY <1>0, <3>1 DEF TurnHeld
      <4>1. ticket[q] >= t + SIZE
        BY <1>a, <1>e, <2>2, SlotApart
      <4> QED BY <1>a, <1>e, <4>1, SizeAssumption
    <3>4. /\ pc[q] = "tryenq_cas" => t + 1 >= ticket[q]
          /\ pc[q] = "trydeq_cas" => t + 1 >= ticket[q] + 1
      BY <1>0, <3>1 DEF TurnHeld
    <3>5. t + SIZE >= t + 1
      BY <1>a, SizeAssumption
    <3>6. /\ pc[q] = "tryenq_cas" => t + SIZE >= ticket[q]
          /\ pc[q] = "trydeq_cas" => t + SIZE >= ticket[q] + 1
      BY <1>a, <1>e, <3>4, <3>5, SizeAssumption
    <3> QED BY <3>1, <3>2, <3>3, <3>6
  <2> QED BY <2>1, <2>2
<1>6. ValueCarried'
  BY <1>0, <1>b, <1>d DEF ValueCarried
<1>7. ValueInSlot'
  <2> SUFFICES ASSUME NEW k \in 0 .. writeTicket - 1, seq'[Slot(k)] = k + 1
               PROVE  \/ data[Slot(k)] = sent[k + 1]
                      \/ \E q \in Threads : pc'[q] = "deq_release" /\ ticket'[q] = k
    BY <1>b DEF ValueInSlot
  <2>1. seq[Slot(k)] = k + 1 /\ k # t
    BY <1>0, <1>c, BoundAssumption DEF TypeOK
  <2>2. ASSUME NEW q \in Threads, pc[q] = "deq_release", ticket[q] = k
        PROVE  pc'[q] = "deq_release" /\ ticket'[q] = k
    BY <1>d, <2>1, <2>2 DEF t
  <2> QED BY <1>0, <2>1, <2>2 DEF ValueInSlot
<1>8. DeliversOwnTicket'
  BY <1>0, <1>b, <1>d DEF DeliversOwnTicket
<1>9. NoTicketLost'
  <2>1. \A q \in Threads, k \in Nat : pc[q] \in Writing /\ ticket[q] = k =>
           (pc'[q] \in Writing /\ ticket'[q] = k) \/ Published(k)'
    BY <1>a, <1>d DEF Writing
  <2>2. \A q \in Threads, k \in Nat : pc[q] \in Reading /\ ticket[q] = k =>
           (pc'[q] \in Reading /\ ticket'[q] = k) \/ Released(k)'
    BY <1>c, <1>d DEF t
  <2> QED BY <1>0, <1>b, <1>c, <2>1, <2>2, KeepTickets
<1> QED BY <1>1, <1>2, <1>3, <1>4, <1>5, <1>6, <1>7, <1>8, <1>9 DEF IInv

\* clearBuffer with no operation in progress preserves the invariant.
LEMMA ClearStep == IInv /\ ClearBuffer => IInv'
<1> SUFFICES ASSUME IInv, ClearBuffer PROVE IInv'
  OBVIOUS
<1>0. /\ TypeOK /\ pc' = pc /\ \A q \in Threads : pc'[q] = "idle"
  BY DEF IInv, ClearBuffer
<1>1. TypeOK'
  BY <1>0, BoundAssumption, SizeAssumption DEF TypeOK, ClearBuffer, prepareBuffer, Slots
<1>2. ClaimsDistinct' /\ ClaimsPending' /\ TurnHeld' /\ ValueCarried' /\ DeliversOwnTicket'
  BY <1>0 DEF ClaimsDistinct, ClaimsPending, TurnHeld, ValueCarried, DeliversOwnTicket, Writing, Reading
<1>3. ValueInSlot' /\ NoTicketLost'
  BY DEF ValueInSlot, NoTicketLost, ClearBuffer
<1>4. UnclaimedUnserved'
  <2> SUFFICES ASSUME NEW k \in 0 .. MaxTickets
               PROVE  ~Published(k)' /\ ~Released(k)'
    BY DEF UnclaimedUnserved
  <2>1. k \in Nat /\ Slot(k) \in Slots /\ Slot(k) <= k /\ Slot(k) \in Nat
    BY BoundAssumption, SizeAssumption, SlotType, SlotBelow DEF Slots
  <2>2. seq'[Slot(k)] = Slot(k)
    BY <2>1 DEF ClearBuffer, prepareBuffer
  <2> QED BY <2>1, <2>2 DEF Published, Released
<1> QED BY <1>1, <1>2, <1>3, <1>4 DEF IInv

-----------------------------------------------------------------------------
(* Every action of the specification is one of the steps above. *)
LEMMA BeginInv ==
    ASSUME IInv, NEW p \in Threads, Begin(p)
    PROVE  IInv'
<1>0. TypeOK /\ IInv
  BY DEF IInv
<1>1. ASSUME NEW v \in Values, EnqueueClaim(p, v) PROVE IInv'
  <2>1. pc[p] \in Unclaimed /\ pc' = [pc EXCEPT ![p] = "enq_spin"] /\ ClaimWrite(p, v)
    BY <1>1 DEF EnqueueClaim, Goto, Unclaimed
  <2> QED BY <2>1, ClaimWriteStep
<1>2. ASSUME NEW v \in Values, TryEnqueueCall(p, v) PROVE IInv'
  <2>1. /\ pc[p] \in Unclaimed /\ pc' = [pc EXCEPT ![p] = "tryenq_load"]
        /\ ticket' = [ticket EXCEPT ![p] = ticket[p]] /\ ticket[p] \in 0 .. MaxTickets
        /\ val' = [val EXCEPT ![p] = v]
        /\ UNCHANGED <<seq, data, writeTicket, readTicket, out, sent>>
    BY <1>0, <1>2 DEF TypeOK, TryEnqueueCall, Goto, Unclaimed
  <2> QED BY <2>1, LocalStep DEF Unclaimed, Trying
<1>3. CASE DequeueClaim(p)
  <2>1. pc[p] \in Unclaimed /\ pc' = [pc EXCEPT ![p] = "deq_spin"] /\ ClaimRead(p)
    BY <1>3 DEF DequeueClaim, Goto, Unclaimed
  <2> QED BY <2>1, ClaimReadStep
<1>4. CASE TryDequeueCall(p)
  <2>1. /\ pc[p] \in Unclaimed /\ pc' = [pc EXCEPT ![p] = "trydeq_load"]
        /\ ticket' = [ticket EXCEPT ![p] = ticket[p]] /\ ticket[p] \in 0 .. MaxTickets
        /\ val' = [val EXCEPT ![p] = val[p]] /\ val[p] \in Values \cup {NoValue}
        /\ UNCHANGED <<seq, data, writeTicket, readTicket, out, sent>>
    BY <1>0, <1>4 DEF TypeOK, TryDequeueCall, Goto, Unclaimed
  <2> QED BY <2>1, LocalStep DEF Unclaimed, Trying
<1>5. CASE ApproxSizeFirst(p)
  <2>1. /\ pc[p] \in Unclaimed /\ pc' = [pc EXCEPT ![p] = "size_second"]
        /\ ticket' = [ticket EXCEPT ![p] = readTicket] /\ readTicket \in 0 .. MaxTickets
        /\ val' = [val EXCEPT ![p] = val[p]] /\ val[p] \in Values \cup {NoValue}
        /\ UNCHANGED <<seq, data, writeTicket, readTicket, out, sent>>
    BY <1>0, <1>5 DEF TypeOK, ApproxSizeFirst, Goto, Unclaimed
  <2> QED BY <2>1, LocalStep DEF Unclaimed, Trying
<1> QED BY <1>1, <1>2, <1>3, <1>4, <1>5 DEF Begin

\* Every step inside an operation preserves the invariant.
LEMMA ContinueInv ==
    ASSUME IInv, NEW p \in Threads, Continue(p)
    PROVE  IInv'
<1>0. TypeOK /\ TurnHeld /\ UnclaimedUnserved /\ ValueCarried /\ IInv
  BY DEF IInv
<1>a. /\ ticket[p] \in 0 .. MaxTickets /\ ticket[p] \in Nat /\ 0 \in 0 .. MaxTickets
      /\ val[p] \in Values \cup {NoValue}
      /\ ticket = [ticket EXCEPT ![p] = ticket[p]]
      /\ val = [val EXCEPT ![p] = val[p]]
      /\ writeTicket \in 0 .. MaxTickets /\ readTicket \in 0 .. MaxTickets
      /\ Slot(ticket[p]) \in Slots /\ seq[Slot(ticket[p])] \in Nat
  BY <1>0, BoundAssumption, SlotType DEF TypeOK
<1>1. CASE EnqueueSpin(p) \/ DequeueSpin(p)
  BY <1>1, SpinStep
<1>2. CASE EnqueueWrite(p) \/ DequeueRead(p)
  BY <1>2, AccessStep
<1>3. CASE EnqueuePublish(p)
  BY <1>3, PublishStep
<1>4. CASE DequeueRelease(p)
  BY <1>4, ReleaseStep
<1>5. CASE TryEnqueueLoad(p)
  <2>1. PICK t \in 0 .. writeTicket : ticket' = [ticket EXCEPT ![p] = t]
    BY <1>5 DEF TryEnqueueLoad
  <2>2. /\ pc[p] \in Unclaimed /\ pc' = [pc EXCEPT ![p] = "tryenq_check"]
        /\ val' = [val EXCEPT ![p] = val[p]] /\ val[p] \in Values
        /\ t \in 0 .. MaxTickets
        /\ UNCHANGED <<seq, data, writeTicket, readTicket, out, sent>>
    BY <1>0, <1>5, <1>a, BoundAssumption DEF TryEnqueueLoad, Goto, Unclaimed, Trying, ValueCarried
  <2> QED BY <2>1, <2>2, LocalStep DEF Unclaimed, Trying
<1>6. CASE TryEnqueueTurn(p) \/ TryEnqueueStale(p) \/ TryEnqueueCasFails(p)
  <2>1. PICK c \in {"tryenq_cas", "tryenq_load"} :
           /\ pc[p] \in Unclaimed /\ pc' = [pc EXCEPT ![p] = c]
           /\ c = "tryenq_cas" => seq[Slot(ticket[p])] >= ticket[p]
    BY <1>6, <1>a DEF TryEnqueueTurn, TryEnqueueStale, TryEnqueueCasFails, Goto, Unclaimed, Trying
  <2>2. /\ ticket' = [ticket EXCEPT ![p] = ticket[p]]
        /\ val' = [val EXCEPT ![p] = val[p]] /\ val[p] \in Values
        /\ UNCHANGED <<seq, data, writeTicket, readTicket, out, sent>>
    BY <1>0, <1>6, <1>a DEF TryEnqueueTurn, TryEnqueueStale, TryEnqueueCasFails, Goto, ValueCarried
  <2>3. c \in Unclaimed /\ c # "trydeq_cas"
    BY DEF Unclaimed, Trying
  <2> QED BY <1>a, <2>1, <2>2, <2>3, LocalStep
<1>7. CASE TryEnqueueFull(p) \/ TryDequeueEmpty(p)
  <2>1. /\ pc[p] \in Unclaimed /\ pc' = [pc EXCEPT ![p] = "idle"]
        /\ ticket' = [ticket EXCEPT ![p] = 0]
        /\ val' = [val EXCEPT ![p] = NoValue]
        /\ UNCHANGED <<seq, data, writeTicket, readTicket, out, sent>>
    BY <1>7 DEF TryEnqueueFull, TryDequeueEmpty, Return, Goto, Unclaimed, Trying
  <2> QED BY <1>a, <2>1, LocalStep DEF Unclaimed, Trying
<1>8. CASE TryEnqueueCas(p)
  <2>1. /\ pc[p] = "tryenq_cas" /\ pc' = [pc EXCEPT ![p] = "enq_write"]
        /\ writeTicket = ticket[p] /\ ClaimWrite(p, val[p]) /\ val[p] \in Values
    BY <1>0, <1>8 DEF TryEnqueueCas, Goto, ValueCarried
  <2>2. seq[Slot(writeTicket)] = writeTicket
    BY <1>0, <1>a, <2>1 DEF TurnHeld, UnclaimedUnserved, Published
  <2> QED BY <2>1, <2>2, ClaimWriteStep DEF Unclaimed, Trying
<1>9. CASE TryDequeueLoad(p)
  <2>1. PICK t \in 0 .. readTicket : ticket' = [ticket EXCEPT ![p] = t]
    BY <1>9 DEF TryDequeueLoad
  <2>2. /\ pc[p] \in Unclaimed /\ pc' = [pc EXCEPT ![p] = "trydeq_check"]
        /\ val' = [val EXCEPT ![p] = val[p]]
        /\ t \in 0 .. MaxTickets
        /\ UNCHANGED <<seq, data, writeTicket, readTicket, out, sent>>
    BY <1>0, <1>9, <1>a, BoundAssumption DEF TryDequeueLoad, Goto, Unclaimed, Trying
  <2> QED BY <1>a, <2>1, <2>2, LocalStep DEF Unclaimed, Trying
<1>10. CASE TryDequeueTurn(p) \/ TryDequeueStale(p) \/ TryDequeueCasFails(p)
  <2>1. PICK c \in {"trydeq_cas", "trydeq_load"} :
           /\ pc[p] \in Unclaimed /\ pc' = [pc EXCEPT ![p] = c]
           /\ c = "trydeq_cas" => seq[Slot(ticket[p])] >= ticket[p] + 1
    BY <1>10, <1>a DEF TryDequeueTurn, TryDequeueStale, TryDequeueCasFails, Goto, Unclaimed, Trying
  <2>2. /\ ticket' = [ticket EXCEPT ![p] = ticket[p]]
        /\ val' = [val EXCEPT ![p] = val[p]]
        /\ UNCHANGED <<seq, data, writeTicket, readTicket, out, sent>>
    BY <1>10, <1>a DEF TryDequeueTurn, TryDequeueStale, TryDequeueCasFails, Goto
  <2>3. /\ c \in Unclaimed /\ c # "tryenq_cas"
        /\ c \notin {"tryenq_load", "tryenq_check", "tryenq_cas"}
    BY DEF Unclaimed, Trying
  <2> QED BY <1>a, <2>1, <2>2, <2>3, LocalStep
<1>11. CASE TryDequeueCas(p)
  <2>1. /\ pc[p] = "trydeq_cas" /\ pc' = [pc EXCEPT ![p] = "deq_read"]
        /\ readTicket = ticket[p] /\ ClaimRead(p)
    BY <1>11 DEF TryDequeueCas, Goto
  <2>2. seq[Slot(readTicket)] = readTicket + 1
    BY <1>0, <1>a, <2>1 DEF TurnHeld, UnclaimedUnserved, Released
  <2> QED BY <2>1, <2>2, ClaimReadStep DEF Unclaimed, Trying
<1>12. CASE ApproxSizeSecond(p)
  <2>1. /\ pc[p] \in Unclaimed /\ pc' = [pc EXCEPT ![p] = "idle"]
        /\ ticket' = [ticket EXCEPT ![p] = ApproxSize(ticket[p], writeTicket)]
        /\ val' = [val EXCEPT ![p] = val[p]]
        /\ UNCHANGED <<seq, data, writeTicket, readTicket, out, sent>>
    BY <1>12, <1>a DEF ApproxSizeSecond, Goto, Unclaimed
  <2>2. ApproxSize(ticket[p], writeTicket) \in 0 .. MaxTickets
    BY <1>a, BoundAssumption, SizeAssumption DEF ApproxSize
  <2> QED BY <1>a, <2>1, <2>2, LocalStep DEF Unclaimed, Trying
<1> QED BY <1>1, <1>2, <1>3, <1>4, <1>5, <1>6, <1>7, <1>8, <1>9, <1>10, <1>11, <1>12 DEF Continue

\* The invariant is inductive.
LEMMA StepInv == IInv /\ [Next]_vars => IInv'
<1> SUFFICES ASSUME IInv, [Next]_vars PROVE IInv'
  OBVIOUS
<1>1. CASE UNCHANGED vars
  BY <1>1 DEF vars, IInv, TypeOK, ClaimsDistinct, ClaimsPending, UnclaimedUnserved, TurnHeld,
              ValueCarried, ValueInSlot, DeliversOwnTicket, NoTicketLost, Published, Released
<1>2. ASSUME NEW p \in Threads, Begin(p) PROVE IInv'
  BY <1>2, BeginInv
<1>3. ASSUME NEW p \in Threads, Continue(p) PROVE IInv'
  BY <1>3, ContinueInv
<1>4. CASE ClearBuffer
  BY <1>4, ClearStep
<1> QED BY <1>1, <1>2, <1>3, <1>4 DEF Next

(***************************************************************************)
(* For any number of threads, slots, payloads and tickets: the inductive   *)
(* invariant holds in every reachable state.                               *)
(***************************************************************************)
THEOREM RingInvariant == Spec => []IInv
<1> QED BY InitInv, StepInv, PTL DEF Spec

(***************************************************************************)
(* What the inductive invariant gives: the properties the runs check, and  *)
(* that the ring buffer implements the ticket queue.                       *)
(***************************************************************************)

\* A slot index is its own slot.
LEMMA SlotOfSlot ==
    ASSUME NEW i \in Slots
    PROVE  Slot(i) = i
<1>1. i \in Nat /\ i < SIZE
  BY SizeAssumption DEF Slots
<1> QED BY <1>1, SizeAssumption, SMT DEF Slot

\* Which thread a step belongs to: all others stay where they are.
LEMMA StepOf ==
    ASSUME TypeOK, Next
    PROVE  \/ \E p \in Threads : (Begin(p) \/ Continue(p)) /\ \A q \in Threads : q # p => pc'[q] = pc[q] /\ ticket'[q] = ticket[q]
           \/ ClearBuffer
<1>1. ASSUME NEW p \in Threads, Begin(p)
      PROVE  \A q \in Threads : q # p => pc'[q] = pc[q] /\ ticket'[q] = ticket[q]
  BY <1>1 DEF TypeOK, Begin, EnqueueClaim, ClaimWrite, TryEnqueueCall, DequeueClaim, ClaimRead,
              TryDequeueCall, ApproxSizeFirst, Goto
<1>2. ASSUME NEW p \in Threads, Continue(p)
      PROVE  \A q \in Threads : q # p => pc'[q] = pc[q] /\ ticket'[q] = ticket[q]
  <2> USE DEF TypeOK, Goto
  <2>1. CASE EnqueueSpin(p) \/ EnqueueWrite(p) \/ EnqueuePublish(p)
    BY <2>1 DEF EnqueueSpin, EnqueueWrite, EnqueuePublish, Return
  <2>2. CASE DequeueSpin(p) \/ DequeueRead(p) \/ DequeueRelease(p)
    BY <2>2 DEF DequeueSpin, DequeueRead, DequeueRelease, Return
  <2>3. CASE TryEnqueueTurn(p) \/ TryEnqueueFull(p) \/ TryEnqueueStale(p) \/ TryEnqueueCas(p) \/ TryEnqueueCasFails(p)
    BY <2>3 DEF TryEnqueueTurn, TryEnqueueFull, TryEnqueueStale, TryEnqueueCas, TryEnqueueCasFails, Return, ClaimWrite
  <2>4. CASE TryDequeueTurn(p) \/ TryDequeueEmpty(p) \/ TryDequeueStale(p) \/ TryDequeueCas(p) \/ TryDequeueCasFails(p)
    BY <2>4 DEF TryDequeueTurn, TryDequeueEmpty, TryDequeueStale, TryDequeueCas, TryDequeueCasFails, Return, ClaimRead
  <2>5. CASE TryEnqueueLoad(p)
    BY <2>5 DEF TryEnqueueLoad
  <2>6. CASE TryDequeueLoad(p)
    BY <2>6 DEF TryDequeueLoad
  <2>7. CASE ApproxSizeSecond(p)
    BY <2>7 DEF ApproxSizeSecond
  <2> QED BY <1>2, <2>1, <2>2, <2>3, <2>4, <2>5, <2>6, <2>7 DEF Continue
<1> QED BY <1>1, <1>2 DEF Next

-----------------------------------------------------------------------------
LoadInv == LoadedBehind /\ SeqShape

\* No ticket has been loaded in the initial state.
LEMMA LoadInit == Init => LoadInv
<1> SUFFICES ASSUME Init PROVE LoadInv
  OBVIOUS
<1>1. LoadedBehind
  BY DEF Init, LoadedBehind
<1>2. SeqShape
  BY SlotOfSlot DEF Init, SeqShape, prepareBuffer
<1> QED BY <1>1, <1>2 DEF LoadInv

\* Counters only grow while a try operation holds a loaded ticket.
LEMMA LoadStep == IInv /\ LoadInv /\ [Next]_vars => LoadInv'
<1> SUFFICES ASSUME IInv, LoadInv, [Next]_vars PROVE LoadInv'
  OBVIOUS
<1>0. TypeOK /\ LoadedBehind /\ SeqShape /\ TurnHeld
  BY DEF IInv, LoadInv
<1>t. /\ writeTicket \in Nat /\ readTicket \in Nat
      /\ \A q \in Threads : ticket[q] \in Nat
  BY <1>0, BoundAssumption DEF TypeOK
<1>1. CASE UNCHANGED vars
  BY <1>0, <1>1 DEF LoadInv, LoadedBehind, SeqShape, vars
<1>2. CASE ClearBuffer
  <2>1. LoadedBehind'
    BY <1>2 DEF ClearBuffer, LoadedBehind
  <2>2. SeqShape'
    BY <1>2, SlotOfSlot DEF ClearBuffer, SeqShape, prepareBuffer
  <2> QED BY <2>1, <2>2 DEF LoadInv
<1>3. ASSUME NEW p \in Threads, Begin(p) \/ Continue(p),
             \A q \in Threads : q # p => pc'[q] = pc[q] /\ ticket'[q] = ticket[q]
      PROVE  LoadInv'
  <2>1. writeTicket' >= writeTicket /\ readTicket' >= readTicket /\ writeTicket' \in Nat /\ readTicket' \in Nat
    <3>1. CASE Begin(p)
      BY <1>t, <3>1 DEF Begin, EnqueueClaim, ClaimWrite, TryEnqueueCall, DequeueClaim, ClaimRead,
                 TryDequeueCall, ApproxSizeFirst
    <3>2. CASE Continue(p)
      BY <1>t, <3>2 DEF Continue, EnqueueSpin, EnqueueWrite, EnqueuePublish, DequeueSpin, DequeueRead,
                 DequeueRelease, TryEnqueueLoad, TryEnqueueTurn, TryEnqueueFull, TryEnqueueStale,
                 TryEnqueueCas, TryEnqueueCasFails, TryDequeueLoad, TryDequeueTurn, TryDequeueEmpty,
                 TryDequeueStale, TryDequeueCas, TryDequeueCasFails, ApproxSizeSecond, ClaimWrite, ClaimRead
    <3> QED BY <1>3, <3>1, <3>2
  <2>2. /\ pc'[p] \in {"tryenq_check", "tryenq_cas"} => ticket'[p] <= writeTicket
        /\ pc'[p] \in {"trydeq_check", "trydeq_cas", "size_second"} => ticket'[p] <= readTicket
    <3>1. CASE Begin(p)
      BY <1>0, <1>t, <3>1 DEF TypeOK, Goto, Begin, EnqueueClaim, ClaimWrite, TryEnqueueCall, DequeueClaim,
                 ClaimRead, TryDequeueCall, ApproxSizeFirst
    <3>2. CASE TryEnqueueLoad(p)
      BY <1>0, <1>t, <3>2 DEF TypeOK, Goto, TryEnqueueLoad
    <3>3. CASE TryDequeueLoad(p)
      BY <1>0, <1>t, <3>3 DEF TypeOK, Goto, TryDequeueLoad
    <3>4. CASE TryEnqueueTurn(p) \/ TryDequeueTurn(p)
      BY <1>0, <3>4 DEF TypeOK, Goto, TryEnqueueTurn, TryDequeueTurn, LoadedBehind
    <3>5. CASE \/ EnqueueSpin(p) \/ EnqueueWrite(p) \/ EnqueuePublish(p)
               \/ DequeueSpin(p) \/ DequeueRead(p) \/ DequeueRelease(p)
               \/ TryEnqueueFull(p) \/ TryEnqueueStale(p) \/ TryEnqueueCas(p) \/ TryEnqueueCasFails(p)
               \/ TryDequeueEmpty(p) \/ TryDequeueStale(p) \/ TryDequeueCas(p) \/ TryDequeueCasFails(p)
               \/ ApproxSizeSecond(p)
      BY <1>0, <3>5 DEF TypeOK, Goto, EnqueueSpin, EnqueueWrite, EnqueuePublish, DequeueSpin, DequeueRead,
                 DequeueRelease, TryEnqueueFull, TryEnqueueStale, TryEnqueueCas, TryEnqueueCasFails,
                 TryDequeueEmpty, TryDequeueStale, TryDequeueCas, TryDequeueCasFails, ApproxSizeSecond
    <3> QED BY <1>3, <3>1, <3>2, <3>3, <3>4, <3>5 DEF Continue
  <2>p. pc'[p] \in PCs /\ ticket'[p] \in Nat
    BY StepInv, BoundAssumption DEF IInv, TypeOK
  <2>3. LoadedBehind'
    <3> SUFFICES ASSUME NEW q \in Threads
                 PROVE  /\ pc'[q] \in {"tryenq_check", "tryenq_cas"} => ticket'[q] <= writeTicket'
                        /\ pc'[q] \in {"trydeq_check", "trydeq_cas", "size_second"} => ticket'[q] <= readTicket'
      BY DEF LoadedBehind
    <3>1. CASE q = p
      BY <1>t, <2>1, <2>2, <2>p, <3>1
    <3>2. CASE q # p
      BY <1>0, <1>t, <1>3, <2>1, <3>2 DEF LoadedBehind
    <3> QED BY <3>1, <3>2
  <2>4. SeqShape'
    <3>1. CASE EnqueuePublish(p)
      <4>1. /\ Slot(ticket[p]) \in Slots /\ ticket[p] + 1 > 0 /\ (ticket[p] + 1) - 1 = ticket[p]
            /\ seq' = [seq EXCEPT ![Slot(ticket[p])] = ticket[p] + 1]
        BY <1>t, <3>1, SlotType DEF EnqueuePublish
      <4> QED BY <1>0, <4>1 DEF SeqShape, TypeOK
    <3>2. CASE DequeueRelease(p)
      <4>1. /\ Slot(ticket[p]) \in Slots /\ Slot(ticket[p] + SIZE) = Slot(ticket[p])
            /\ seq' = [seq EXCEPT ![Slot(ticket[p])] = ticket[p] + SIZE]
        BY <1>t, <3>2, SlotType, SlotLap DEF DequeueRelease
      <4> QED BY <1>0, <4>1 DEF SeqShape, TypeOK
    <3>3. CASE ~EnqueuePublish(p) /\ ~DequeueRelease(p)
      <4>1. seq' = seq
        BY <1>3, <3>3 DEF Begin, EnqueueClaim, TryEnqueueCall, DequeueClaim, TryDequeueCall, ApproxSizeFirst,
                   Continue, EnqueueSpin, EnqueueWrite, DequeueSpin, DequeueRead,
                   TryEnqueueLoad, TryEnqueueTurn, TryEnqueueFull, TryEnqueueStale, TryEnqueueCas,
                   TryEnqueueCasFails, TryDequeueLoad, TryDequeueTurn, TryDequeueEmpty, TryDequeueStale,
                   TryDequeueCas, TryDequeueCasFails, ApproxSizeSecond, ClaimWrite, ClaimRead
      <4> QED BY <1>0, <4>1 DEF SeqShape
    <3> QED BY <3>1, <3>2, <3>3
  <2> QED BY <2>3, <2>4 DEF LoadInv
<1> QED BY <1>0, <1>1, <1>2, <1>3, StepOf

\* Both invariants hold in every reachable state.
LEMMA RingLoads == Spec => [](IInv /\ LoadInv)
<1> QED BY RingInvariant, LoadInit, LoadStep, PTL DEF Spec

-----------------------------------------------------------------------------
(***************************************************************************)
(* Type correctness, for any number of threads, slots and tickets.         *)
(***************************************************************************)
THEOREM RingTypes == Spec => []TypeOK
<1>1. IInv => TypeOK
  BY DEF IInv
<1> QED BY <1>1, RingInvariant, PTL

(***************************************************************************)
(* No two threads ever touch the payload of the same slot (atomicRing-     *)
(* Buffer.hpp lines 48, 58, 68, 89-94, 119, 142, 179): two writers or two  *)
(* readers of one slot would hold the same ticket, and a writer and a      *)
(* reader would need tickets one apart in a slot whose tickets are SIZE    *)
(* apart.  This is where SIZE >= 2 is needed.                              *)
(***************************************************************************)
THEOREM RingExclusive == Spec => []SlotExclusive
<1>1. IInv => SlotExclusive
  <2> SUFFICES ASSUME IInv, NEW p \in Threads, NEW q \in Threads, p # q,
                      pc[p] \in Touching, pc[q] \in Touching,
                      Slot(ticket[p]) = Slot(ticket[q])
               PROVE  FALSE
    BY DEF SlotExclusive
  <2>1. ticket[p] \in Nat /\ ticket[q] \in Nat
    BY BoundAssumption DEF IInv, TypeOK
  <2>2. /\ seq[Slot(ticket[p])] \in {ticket[p], ticket[p] + 1}
        /\ seq[Slot(ticket[q])] \in {ticket[q], ticket[q] + 1}
    BY DEF IInv, TurnHeld, Touching
  <2>3. ticket[p] # ticket[q]
    BY <2>1 DEF IInv, ClaimsDistinct, TurnHeld, Touching, Writing, Reading
  <2>4. ticket[p] + SIZE <= ticket[q] \/ ticket[q] + SIZE <= ticket[p]
    BY <2>1, <2>3, SlotApart
  <2> QED BY <2>1, <2>2, <2>4, SizeAssumption
<1> QED BY <1>1, RingInvariant, PTL

(***************************************************************************)
(* dequeue and tryDequeue return the value enqueued with their own ticket. *)
(***************************************************************************)
THEOREM RingDelivers == Spec => []DeliversOwnTicket
<1>1. IInv => DeliversOwnTicket
  BY DEF IInv
<1> QED BY <1>1, RingInvariant, PTL

(***************************************************************************)
(* No claimed ticket is ever dropped.                                      *)
(***************************************************************************)
THEOREM RingLosesNoTicket == Spec => []NoTicketLost
<1>1. IInv => NoTicketLost
  BY DEF IInv
<1> QED BY <1>1, RingInvariant, PTL

(***************************************************************************)
(* Tickets are honoured: each claimed one is served, with the value that   *)
(* was enqueued under it.                                                  *)
(***************************************************************************)
THEOREM RingHonoursTickets == Spec => []TicketsHonoured
<1>1. DeliversOwnTicket /\ NoTicketLost => TicketsHonoured
  BY DEF TicketsHonoured
<1> QED BY <1>1, RingDelivers, RingLosesNoTicket, PTL

-----------------------------------------------------------------------------
\* What a full slot seen by tryEnqueue says about the buffer as a whole.
LEMMA FullAnswer ==
    ASSUME IInv, LoadInv, NEW p \in Threads, TryEnqueueFull(p)
    PROVE  \E k \in 0 .. MaxTickets : k + SIZE <= writeTicket /\ ~Released(k)
<1> DEFINE t == ticket[p]
           i == Slot(t)
<1>1. /\ t \in 0 .. MaxTickets /\ t \in Nat /\ i \in Slots /\ seq[i] \in Nat
      /\ seq[i] < t /\ t <= writeTicket /\ writeTicket \in Nat
  BY BoundAssumption, SlotType DEF IInv, TypeOK, LoadInv, LoadedBehind, TryEnqueueFull, Goto
<1>2. PICK k \in Nat : Slot(k) = i /\ (seq[i] = k \/ seq[i] = k + 1)
  <2>1. CASE Slot(seq[i]) = i
    BY <1>1, <2>1
  <2>2. CASE seq[i] > 0 /\ Slot(seq[i] - 1) = i
    <3>1. seq[i] - 1 \in Nat /\ seq[i] = (seq[i] - 1) + 1
      BY <1>1, <2>2
    <3> QED BY <2>2, <3>1
  <2> QED BY <1>1, <2>1, <2>2 DEF LoadInv, SeqShape
<1> HIDE DEF t
<1>3. k + SIZE <= t
  BY <1>1, <1>2, SlotApart
<1>4. k \in 0 .. MaxTickets /\ k + SIZE <= writeTicket
  BY <1>1, <1>3, SizeAssumption, BoundAssumption
<1>5. ~Released(k)
  BY <1>1, <1>2 DEF Released
<1> QED BY <1>4, <1>5

\* The only way from inside a try or a size query back to idle.
LEMMA AnswerOf ==
    ASSUME TypeOK, [Next]_vars, NEW p \in Threads, pc'[p] = "idle"
    PROVE  /\ pc[p] = "tryenq_check" => TryEnqueueFull(p)
           /\ pc[p] = "trydeq_check" => TryDequeueEmpty(p)
           /\ pc[p] = "size_second" => ApproxSizeSecond(p)
<1> SUFFICES ASSUME pc[p] \in {"tryenq_check", "trydeq_check", "size_second"}
             PROVE  /\ pc[p] = "tryenq_check" => TryEnqueueFull(p)
                    /\ pc[p] = "trydeq_check" => TryDequeueEmpty(p)
                    /\ pc[p] = "size_second" => ApproxSizeSecond(p)
  OBVIOUS
<1>1. ~UNCHANGED vars /\ ~ClearBuffer
  BY DEF vars, ClearBuffer
<1>2. PICK q \in Threads : /\ Begin(q) \/ Continue(q)
                           /\ \A r \in Threads : r # q => pc'[r] = pc[r] /\ ticket'[r] = ticket[r]
  BY <1>1, StepOf
<1>3. q = p
  BY <1>2
<1>4. ~Begin(p)
  BY DEF Begin, EnqueueClaim, TryEnqueueCall, DequeueClaim, TryDequeueCall, ApproxSizeFirst, Goto
<1>5. Continue(p)
  BY <1>2, <1>3, <1>4
<1> QED BY <1>5 DEF TypeOK, Continue, Goto, EnqueueSpin, EnqueueWrite, EnqueuePublish, DequeueSpin, DequeueRead,
             DequeueRelease, TryEnqueueLoad, TryEnqueueTurn, TryEnqueueStale, TryEnqueueCas, TryEnqueueCasFails,
             TryDequeueLoad, TryDequeueTurn, TryDequeueStale, TryDequeueCas, TryDequeueCasFails,
             TryEnqueueFull, TryDequeueEmpty, ApproxSizeSecond

(***************************************************************************)
(* tryEnqueue reports a full buffer only when it is full.                  *)
(***************************************************************************)
THEOREM TryEnqueueHonest == Spec => TryEnqueueFailsOnlyWhenFull
<1> DEFINE A == \A p \in Threads :
                  pc[p] = "tryenq_check" /\ pc'[p] = "idle"
                  => \E k \in 0 .. MaxTickets : k + SIZE <= writeTicket /\ ~Released(k)
<1>1. IInv /\ LoadInv /\ [Next]_vars => A
  BY AnswerOf, FullAnswer DEF IInv
<1>2. Spec => [][A]_vars
  BY <1>1, RingLoads, PTL DEF Spec
<1> QED BY <1>2 DEF TryEnqueueFailsOnlyWhenFull

(***************************************************************************)
(* tryDequeue reports an empty buffer only when it is empty for it.        *)
(***************************************************************************)
THEOREM TryDequeueHonest == Spec => TryDequeueFailsOnlyWhenEmpty
<1> DEFINE A == \A p \in Threads :
                  pc[p] = "trydeq_check" /\ pc'[p] = "idle"
                  => \E k \in 0 .. readTicket : ~Published(k)
<1>1. IInv /\ LoadInv /\ [Next]_vars => A
  <2> SUFFICES ASSUME IInv, LoadInv, [Next]_vars, NEW p \in Threads,
                      pc[p] = "trydeq_check", pc'[p] = "idle"
               PROVE  \E k \in 0 .. readTicket : ~Published(k)
    OBVIOUS
  <2>1. TryDequeueEmpty(p)
    BY AnswerOf DEF IInv
  <2>2. /\ ticket[p] \in Nat /\ readTicket \in Nat /\ ticket[p] <= readTicket
        /\ Slot(ticket[p]) \in Slots /\ seq[Slot(ticket[p])] \in Nat
    BY BoundAssumption, SlotType DEF IInv, TypeOK, LoadInv, LoadedBehind
  <2>3. ticket[p] \in 0 .. readTicket /\ ~Published(ticket[p])
    BY <2>1, <2>2 DEF TryDequeueEmpty, Published
  <2> QED BY <2>3
<1>2. Spec => [][A]_vars
  BY <1>1, RingLoads, PTL DEF Spec
<1> QED BY <1>2 DEF TryDequeueFailsOnlyWhenEmpty

(***************************************************************************)
(* A try that fails tells the truth, whichever of the two it is.           *)
(***************************************************************************)
THEOREM TriesHonest == Spec => TriesAreHonest
BY TryEnqueueHonest, TryDequeueHonest DEF TriesAreHonest

(***************************************************************************)
(* approxSize never understates the number of queued values.               *)
(***************************************************************************)
THEOREM ApproxSizeHonest == Spec => ApproxSizeNotUnderstated
<1> DEFINE A == \A p \in Threads :
                  pc[p] = "size_second" /\ pc'[p] = "idle"
                  => ticket'[p] >= writeTicket - readTicket \/ ticket'[p] = SIZE
<1>1. IInv /\ LoadInv /\ [Next]_vars => A
  <2> SUFFICES ASSUME IInv, LoadInv, [Next]_vars, NEW p \in Threads,
                      pc[p] = "size_second", pc'[p] = "idle"
               PROVE  ticket'[p] >= writeTicket - readTicket \/ ticket'[p] = SIZE
    OBVIOUS
  <2>1. ApproxSizeSecond(p)
    BY AnswerOf DEF IInv
  <2>2. /\ ticket[p] \in Nat /\ readTicket \in Nat /\ writeTicket \in Nat /\ ticket[p] <= readTicket
        /\ ticket'[p] = ApproxSize(ticket[p], writeTicket)
    BY <2>1, BoundAssumption DEF IInv, TypeOK, LoadInv, LoadedBehind, ApproxSizeSecond
  <2> QED BY <2>2, SizeAssumption DEF ApproxSize
<1>2. Spec => [][A]_vars
  BY <1>1, RingLoads, PTL DEF Spec
<1> QED BY <1>2 DEF ApproxSizeNotUnderstated

-----------------------------------------------------------------------------
(***************************************************************************)
(* The refinement.  Claiming a ticket is Offer or Demand, publishing is    *)
(* Place, releasing is Take; every other step leaves the queue alone.      *)
(***************************************************************************)
placedBar == {k \in 0 .. MaxTickets : Published(k)}
takenBar  == {k \in 0 .. MaxTickets : Released(k)}

\* The empty ring is the empty ticket queue.
LEMMA RefInit == Init => Queue!AbsInit
<1> SUFFICES ASSUME Init PROVE Queue!AbsInit
  OBVIOUS
<1>1. UnclaimedUnserved
  BY InitInv DEF IInv
<1>2. placedBar = {} /\ takenBar = {}
  BY <1>1, BoundAssumption DEF Init, UnclaimedUnserved, placedBar, takenBar
<1> QED BY <1>2 DEF Init, Queue!AbsInit, placedBar, takenBar

\* A step that leaves seq, sent, readTicket and out alone is not a step of the queue.
LEMMA RefStutter ==
    ASSUME UNCHANGED <<seq, sent, readTicket, out>>
    PROVE  UNCHANGED Queue!absVars
BY DEF Queue!absVars, Published, Released

\* Claiming a write ticket is an offer.
LEMMA RefOffer ==
    ASSUME IInv, NEW p \in Threads, NEW v \in Values, ClaimWrite(p, v)
    PROVE  Queue!AbsNext
<1>1. Queue!Offer(v)
  BY DEF ClaimWrite, Queue!Offer, Published, Released
<1> QED BY <1>1 DEF Queue!AbsNext

\* Claiming a read ticket is a demand.
LEMMA RefDemand ==
    ASSUME IInv, NEW p \in Threads, ClaimRead(p)
    PROVE  Queue!AbsNext
<1>1. Queue!Demand
  BY DEF ClaimRead, Queue!Demand, Published, Released
<1> QED BY <1>1 DEF Queue!AbsNext

\* Publishing places the value; the value a lap before has been taken.
LEMMA RefPlace ==
    ASSUME IInv, NEW p \in Threads, EnqueuePublish(p)
    PROVE  Queue!AbsNext
<1> DEFINE t == ticket[p]
<1>1. /\ t \in 0 .. MaxTickets /\ t \in Nat /\ t < writeTicket /\ writeTicket \in 0 .. MaxTickets
      /\ Len(sent) = writeTicket /\ seq[Slot(t)] = t /\ Slot(t) \in Slots
      /\ ~Published(t)
      /\ UNCHANGED <<sent, readTicket, out>>
  BY BoundAssumption, SlotType
     DEF IInv, TypeOK, ClaimsPending, TurnHeld, Writing, EnqueuePublish, Goto
<1>2. \A k \in Nat : (Published(k)' <=> Published(k) \/ k = t) /\ (Released(k)' <=> Released(k))
  BY PublishEffect
<1> HIDE DEF t
<1>3. placedBar' = placedBar \cup {t} /\ takenBar' = takenBar /\ t \notin placedBar
  <2>1. \A k \in 0 .. MaxTickets : k \in Nat
    BY BoundAssumption
  <2>2. placedBar' = {k \in 0 .. MaxTickets : Published(k)'} /\ takenBar' = {k \in 0 .. MaxTickets : Released(k)'}
    BY DEF placedBar, takenBar
  <2> QED BY <1>1, <1>2, <2>1, <2>2 DEF placedBar, takenBar
<1>4. t >= SIZE => t - SIZE \in takenBar
  <2> SUFFICES ASSUME t >= SIZE PROVE t - SIZE \in takenBar
    OBVIOUS
  <2>1. t - SIZE \in Nat /\ t - SIZE \in 0 .. MaxTickets /\ (t - SIZE) + SIZE = t
    BY <1>1, SizeAssumption, BoundAssumption
  <2>2. Slot(t - SIZE) = Slot(t)
    BY <2>1, SlotLap
  <2>3. Released(t - SIZE)
    BY <1>1, <2>1, <2>2, SizeAssumption DEF Released
  <2> QED BY <2>1, <2>3 DEF takenBar
<1>5. Queue!Place(t)
  BY <1>1, <1>3, <1>4 DEF Queue!Place, placedBar, takenBar
<1>6. t \in 0 .. Len(sent) - 1
  BY <1>1
<1> QED BY <1>5, <1>6 DEF Queue!AbsNext

\* Releasing a slot takes the value out and hands it to the consumer.
LEMMA RefTake ==
    ASSUME IInv, NEW p \in Threads, DequeueRelease(p)
    PROVE  Queue!AbsNext
<1> DEFINE t == ticket[p]
<1>1. /\ t \in 0 .. MaxTickets /\ t \in Nat /\ t < readTicket /\ readTicket \in Nat
      /\ seq[Slot(t)] = t + 1 /\ Slot(t) \in Slots
      /\ out' = [out EXCEPT ![p] = val[p]] /\ val[p] = sent[t + 1]
      /\ UNCHANGED <<sent, readTicket>>
  BY BoundAssumption, SlotType
     DEF IInv, TypeOK, ClaimsPending, TurnHeld, DeliversOwnTicket, Reading, DequeueRelease, Goto
<1>2. \A k \in Nat : (Published(k)' <=> Published(k)) /\ (Released(k)' <=> Released(k) \/ k = t)
  BY ReleaseEffect
<1> HIDE DEF t
<1>3. placedBar' = placedBar /\ takenBar' = takenBar \cup {t} /\ t \in placedBar \ takenBar
  <2>1. \A k \in 0 .. MaxTickets : k \in Nat
    BY BoundAssumption
  <2>2. placedBar' = {k \in 0 .. MaxTickets : Published(k)'} /\ takenBar' = {k \in 0 .. MaxTickets : Released(k)'}
    BY DEF placedBar, takenBar
  <2>3. Published(t) /\ ~Released(t)
    BY <1>1 DEF Published, Released
  <2> QED BY <1>1, <1>2, <2>1, <2>2, <2>3 DEF placedBar, takenBar
<1>4. Queue!Take(p, t)
  BY <1>1, <1>3 DEF Queue!Take, placedBar, takenBar
<1>5. t \in 0 .. readTicket - 1
  BY <1>1
<1> QED BY <1>4, <1>5 DEF Queue!AbsNext

\* clearBuffer empties the queue.
LEMMA RefClear ==
    ASSUME IInv, ClearBuffer
    PROVE  Queue!AbsNext
<1>1. UnclaimedUnserved' /\ writeTicket' = 0 /\ readTicket' = 0
  BY ClearStep DEF IInv, ClearBuffer
<1>2. placedBar' = {} /\ takenBar' = {}
  <2>1. ASSUME NEW k \in 0 .. MaxTickets PROVE ~Published(k)' /\ ~Released(k)'
    BY <1>1, BoundAssumption DEF UnclaimedUnserved
  <2>2. placedBar' = {k \in 0 .. MaxTickets : Published(k)'} /\ takenBar' = {k \in 0 .. MaxTickets : Released(k)'}
    BY DEF placedBar, takenBar
  <2> QED BY <2>1, <2>2
<1>3. Queue!Clear
  BY <1>2 DEF ClearBuffer, Queue!Clear, placedBar, takenBar
<1> QED BY <1>3 DEF Queue!AbsNext

\* Every step of the ring is a step of the queue or leaves it alone.
LEMMA RefStep == IInv /\ [Next]_vars => [Queue!AbsNext]_Queue!absVars
<1> SUFFICES ASSUME IInv, [Next]_vars
             PROVE  Queue!AbsNext \/ UNCHANGED Queue!absVars
  OBVIOUS
<1>1. CASE UNCHANGED vars
  BY <1>1, RefStutter DEF vars
<1>2. CASE ClearBuffer
  BY <1>2, RefClear
<1>3. ASSUME NEW p \in Threads, Begin(p)
      PROVE  Queue!AbsNext \/ UNCHANGED Queue!absVars
  <2>1. ASSUME NEW v \in Values, EnqueueClaim(p, v) PROVE Queue!AbsNext
    BY <2>1, RefOffer DEF EnqueueClaim
  <2>2. CASE DequeueClaim(p)
    BY <2>2, RefDemand DEF DequeueClaim
  <2>3. ASSUME NEW v \in Values, TryEnqueueCall(p, v) PROVE UNCHANGED Queue!absVars
    BY <2>3, RefStutter DEF TryEnqueueCall
  <2>4. CASE TryDequeueCall(p) \/ ApproxSizeFirst(p)
    BY <2>4, RefStutter DEF TryDequeueCall, ApproxSizeFirst
  <2> QED BY <1>3, <2>1, <2>2, <2>3, <2>4 DEF Begin
<1>4. ASSUME NEW p \in Threads, Continue(p)
      PROVE  Queue!AbsNext \/ UNCHANGED Queue!absVars
  <2>1. CASE EnqueuePublish(p)
    BY <2>1, RefPlace
  <2>2. CASE DequeueRelease(p)
    BY <2>2, RefTake
  <2>3. CASE TryEnqueueCas(p)
    <3>1. val[p] \in Values /\ ClaimWrite(p, val[p])
      BY <2>3 DEF IInv, ValueCarried, TryEnqueueCas, Goto
    <3> QED BY <3>1, RefOffer
  <2>4. CASE TryDequeueCas(p)
    BY <2>4, RefDemand DEF TryDequeueCas
  <2>5. CASE \/ EnqueueSpin(p) \/ EnqueueWrite(p) \/ DequeueSpin(p) \/ DequeueRead(p)
             \/ TryEnqueueLoad(p) \/ TryEnqueueTurn(p) \/ TryEnqueueFull(p) \/ TryEnqueueStale(p)
             \/ TryEnqueueCasFails(p)
             \/ TryDequeueLoad(p) \/ TryDequeueTurn(p) \/ TryDequeueEmpty(p) \/ TryDequeueStale(p)
             \/ TryDequeueCasFails(p) \/ ApproxSizeSecond(p)
    BY <2>5, RefStutter DEF EnqueueSpin, EnqueueWrite, DequeueSpin, DequeueRead, TryEnqueueLoad, TryEnqueueTurn,
         TryEnqueueFull, TryEnqueueStale, TryEnqueueCasFails, TryDequeueLoad, TryDequeueTurn, TryDequeueEmpty,
         TryDequeueStale, TryDequeueCasFails, ApproxSizeSecond
  <2> QED BY <1>4, <2>1, <2>2, <2>3, <2>4, <2>5 DEF Continue
<1> QED BY <1>1, <1>2, <1>3, <1>4 DEF Next

(***************************************************************************)
(* The ring buffer implements the ticket queue, for any number of threads, *)
(* slots and tickets.                                                      *)
(***************************************************************************)
THEOREM RingRefinesQueue == Spec => ImplementsTicketQueue
<1>1. Spec => Queue!AbsSpec
  BY RingInvariant, RefInit, RefStep, PTL DEF Spec, Queue!AbsSpec
<1> QED BY <1>1 DEF ImplementsTicketQueue
=============================================================================
