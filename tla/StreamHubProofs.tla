--------------------------- MODULE StreamHubProofs ---------------------------
(***************************************************************************)
(* The parser is used by one stream at a time, and the counter of a stream *)
(* never drifts from its queue, whatever the streams, their pollers and    *)
(* the size of their buffers.                                              *)
(***************************************************************************)
EXTENDS StreamHub, FiniteSetTheorems, TLAPS

\* The initial state: no loop has the parser and nothing is queued.
LEMMA InitHub == Init => TypeOK /\ ParserUsedAlone
BY HubAssumption DEF Init, TypeOK, ParserUsedAlone, HasParser

\* The steps of one loop and of its consumer, for the types and the parser.
LEMMA StepHub ==
    ASSUME TypeOK, ParserUsedAlone, [Next]_vars
    PROVE  TypeOK' /\ ParserUsedAlone'
<1> USE HubAssumption DEF TypeOK, ParserUsedAlone, HasParser, Goto
<1>1. CASE UNCHANGED vars
  BY <1>1 DEF vars
<1>2. CASE Next
  <2> SUFFICES ASSUME NEW s \in Streams,
                      \/ LoopStep(s) \/ MessageArrives(s) \/ StreamGivesUp(s)
                      \/ \E c \in Pollers : PollStep(s, c)
                      \/ ConsumerStalls(s) \/ Destroy(s)
               PROVE  TypeOK' /\ ParserUsedAlone'
    BY <1>2 DEF Next
  <2>1. CASE LoopReads(s) \/ LoopEnds(s) \/ MessageArrives(s)
    BY <2>1 DEF LoopReads, LoopEnds, MessageArrives
  <2>2. CASE StreamGivesUp(s)
    BY <2>2 DEF StreamGivesUp
  <2>3. CASE LockParser(s)
    BY <2>3 DEF LockParser
  <2>4. CASE Parse(s)
    BY <2>4 DEF Parse
  <2>5. CASE ParseThrows(s)
    BY <2>5 DEF ParseThrows
  <2>6. CASE Enqueue(s)
    BY <2>6 DEF Enqueue
  <2>7. CASE Count(s)
    BY <2>7 DEF Count
  <2>8. CASE \E c \in Pollers : PollStep(s, c)
    <3> SUFFICES ASSUME NEW c \in Pollers, PollStep(s, c)
                 PROVE  TypeOK' /\ ParserUsedAlone'
      BY <2>8
    <3>1. CASE PollCounts(s, c)
      BY <3>1 DEF PollCounts, PollGoto
    <3>2. CASE PollSubtracts(s, c)
      BY <3>2 DEF PollSubtracts, PollGoto
    <3>3. CASE PollDequeues(s, c)
      BY <3>3 DEF PollDequeues, PollGoto
    <3> QED BY <3>1, <3>2, <3>3 DEF PollStep
  <2>9. CASE ConsumerStalls(s) \/ Destroy(s)
    BY <2>9 DEF ConsumerStalls, Destroy
  <2> QED BY <2>1, <2>2, <2>3, <2>4, <2>5, <2>6, <2>7, <2>8, <2>9 DEF LoopStep
<1> QED BY <1>1, <1>2

(***************************************************************************)
(* The shared parser is locked by exactly the loop that is between taking  *)
(* it and the end of its body, for any number of streams.                  *)
(***************************************************************************)
THEOREM HubParser == Spec => [](TypeOK /\ ParserUsedAlone)
<1>1. TypeOK /\ ParserUsedAlone /\ [Next]_vars => (TypeOK /\ ParserUsedAlone)'
  BY StepHub
<1> QED BY InitHub, <1>1, PTL DEF Spec

-----------------------------------------------------------------------------
\* The number of pollers of a stream that are in dequeue.
Takers(s) == Cardinality(Taking(s))

\* Pollers are finitely many, so those that dequeue can be counted.
LEMMA TakersCounted ==
    ASSUME NEW s \in Streams
    PROVE  IsFiniteSet(Taking(s)) /\ Takers(s) \in Nat
<1>1. IsFiniteSet(Taking(s))
  BY HubAssumption, FS_Subset DEF Taking
<1> QED BY <1>1, FS_CardinalityType DEF Takers

\* A poller that begins or ends a dequeue is one more or one less; of other streams nothing changes.
LEMMA PollerMoves ==
    ASSUME TypeOK, NEW s \in Streams, NEW c \in Pollers, NEW from, NEW to \in {"idle", "sub", "dequeue"},
           PollGoto(s, c, from, to)
    PROVE  /\ \A r \in Streams \ {s} : Takers(r)' = Takers(r)
           /\ from # "dequeue" /\ to = "dequeue" => Takers(s)' = Takers(s) + 1
           /\ from = "dequeue" /\ to # "dequeue" => Takers(s)' = Takers(s) - 1
           /\ from # "dequeue" /\ to # "dequeue" => Takers(s)' = Takers(s)
<1>1. /\ \A r \in Streams \ {s} : Taking(r)' = Taking(r)
      /\ to = "dequeue" => Taking(s)' = Taking(s) \cup {c}
      /\ to # "dequeue" => Taking(s)' = Taking(s) \ {c}
      /\ from = "dequeue" <=> c \in Taking(s)
  BY DEF TypeOK, PollGoto, Taking
<1>2. IsFiniteSet(Taking(s))
  BY TakersCounted
<1>3. CASE from # "dequeue" /\ to = "dequeue"
  BY <1>1, <1>2, <1>3, FS_AddElement DEF Takers
<1>4. CASE from = "dequeue" /\ to # "dequeue"
  BY <1>1, <1>2, <1>4, FS_RemoveElement DEF Takers
<1>5. CASE from # "dequeue" /\ to # "dequeue"
  <2>1. Taking(s)' = Taking(s)
    BY <1>1, <1>5
  <2> QED BY <1>1, <1>5, <2>1 DEF Takers
<1>6. \A r \in Streams \ {s} : Takers(r)' = Takers(r)
  BY <1>1 DEF Takers
<1> QED BY <1>3, <1>4, <1>5, <1>6

\* A step keeps the counter in line with the queue.
LEMMA StepCounter ==
    ASSUME TypeOK, CounterIsExact, [Next]_vars
    PROVE  CounterIsExact'
<1> DEFINE Exact == \A s \in Streams : bufferOut[s] = controlVariable[s] + Uncounted(s) + Takers(s)
<1>a. CounterIsExact = Exact /\ CounterIsExact' = Exact'
  BY DEF CounterIsExact, Takers
<1>b. Exact
  BY <1>a
<1>c. \A r \in Streams : Takers(r) \in Nat
  BY TakersCounted
<1>d. poll' = poll => \A r \in Streams : Takers(r)' = Takers(r)
  BY DEF Taking, Takers
<1> SUFFICES Exact'
  BY <1>a
<1> USE <1>b, <1>c, HubAssumption DEF TypeOK, Uncounted, Goto
<1>1. CASE UNCHANGED vars
  BY <1>1, <1>d DEF vars
<1>2. CASE Next
  <2> SUFFICES ASSUME NEW s \in Streams,
                      \/ LoopStep(s) \/ MessageArrives(s) \/ StreamGivesUp(s)
                      \/ \E c \in Pollers : PollStep(s, c)
                      \/ ConsumerStalls(s) \/ Destroy(s)
               PROVE  Exact'
    BY <1>2 DEF Next
  <2>1. CASE \/ LoopReads(s) \/ LoopEnds(s) \/ MessageArrives(s) \/ StreamGivesUp(s)
             \/ LockParser(s) \/ Parse(s) \/ ParseThrows(s) \/ ConsumerStalls(s) \/ Destroy(s)
    BY <1>d, <2>1
    DEF LoopReads, LoopEnds, MessageArrives, StreamGivesUp, LockParser, Parse, ParseThrows, ConsumerStalls, Destroy
  <2>2. CASE Enqueue(s)
    BY <1>d, <2>2 DEF Enqueue
  <2>3. CASE Count(s)
    BY <1>d, <2>3 DEF Count
  <2>4. ASSUME NEW c \in Pollers, PollStep(s, c)
        PROVE  Exact'
    <3>0. /\ bufferOut[s] \in Int /\ controlVariable[s] \in Int /\ Takers(s) \in Int /\ Uncounted(s) \in Int
          /\ bufferOut[s] = controlVariable[s] + Uncounted(s) + Takers(s)
          /\ pc' = pc => Uncounted(s)' = Uncounted(s)
      OBVIOUS
    <3>1. CASE PollCounts(s, c)
      <4>1. \A r \in Streams : Takers(r)' = Takers(r)
        BY <3>1, PollerMoves DEF PollCounts
      <4> QED BY <3>1, <4>1 DEF PollCounts
    <3>2. CASE PollSubtracts(s, c)
      <4>1. Takers(s)' = Takers(s) + 1 /\ \A r \in Streams \ {s} : Takers(r)' = Takers(r)
        BY <3>2, PollerMoves DEF PollSubtracts
      <4>2. /\ controlVariable'[s] = controlVariable[s] - 1 /\ bufferOut' = bufferOut /\ pc' = pc
            /\ \A r \in Streams \ {s} : controlVariable'[r] = controlVariable[r]
        BY <3>2 DEF PollSubtracts
      <4> HIDE DEF Uncounted
      <4>3. bufferOut'[s] = controlVariable'[s] + Uncounted(s)' + Takers(s)'
        BY <3>0, <4>1, <4>2
      <4>4. \A r \in Streams \ {s} : bufferOut'[r] = controlVariable'[r] + Uncounted(r)' + Takers(r)'
        BY <4>1, <4>2 DEF Uncounted
      <4> QED BY <4>3, <4>4
    <3>3. CASE PollDequeues(s, c)
      <4>1. Takers(s)' = Takers(s) - 1 /\ \A r \in Streams \ {s} : Takers(r)' = Takers(r)
        BY <3>3, PollerMoves DEF PollDequeues
      <4>2. /\ bufferOut'[s] = bufferOut[s] - 1 /\ controlVariable' = controlVariable /\ pc' = pc
            /\ \A r \in Streams \ {s} : bufferOut'[r] = bufferOut[r]
        BY <3>3 DEF PollDequeues
      <4> HIDE DEF Uncounted
      <4>3. bufferOut'[s] = controlVariable'[s] + Uncounted(s)' + Takers(s)'
        BY <3>0, <4>1, <4>2
      <4>4. \A r \in Streams \ {s} : bufferOut'[r] = controlVariable'[r] + Uncounted(r)' + Takers(r)'
        BY <4>1, <4>2 DEF Uncounted
      <4> QED BY <4>3, <4>4
    <3> QED BY <2>4, <3>1, <3>2, <3>3 DEF PollStep
  <2> QED BY <2>1, <2>2, <2>3, <2>4 DEF LoopStep
<1> QED BY <1>1, <1>2

(***************************************************************************)
(* controlVariable is exactly what is queued, but for the operations in    *)
(* progress, for any finite set of pollers and any buffer: the race of two *)
(* pollers for one message may make one of them wait, and never loses or   *)
(* invents a count.                                                        *)
(***************************************************************************)
THEOREM HubCounterIsExact == Spec => []CounterIsExact
<1>1. Init => CounterIsExact
  <2> SUFFICES ASSUME Init, NEW s \in Streams
               PROVE  bufferOut[s] = controlVariable[s] + Uncounted(s) + Cardinality(Taking(s))
    BY DEF CounterIsExact
  <2>1. Taking(s) = {}
    BY DEF Init, Taking
  <2> QED BY <2>1, FS_EmptySet DEF Init, Uncounted
<1>2. TypeOK /\ CounterIsExact /\ [Next]_vars => CounterIsExact'
  BY StepCounter
<1> QED BY <1>1, <1>2, HubParser, PTL DEF Spec
=============================================================================
