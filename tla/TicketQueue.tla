---------------------------- MODULE TicketQueue ----------------------------
(***************************************************************************)
(* What AstraLib's AtomicRingBuffer promises its callers, without slots,   *)
(* sequence numbers or spinning.  Producers are queued in the order of     *)
(* their write tickets and consumers in the order of their read tickets;   *)
(* the consumer with ticket k is handed the value of the producer with     *)
(* ticket k and nobody else is.  A producer's value is placed in the       *)
(* buffer only once the value SIZE tickets before it has been taken out,   *)
(* which is what bounds the buffer.                                        *)
(***************************************************************************)
EXTENDS Naturals, Sequences, FiniteSets

CONSTANTS
    Consumers,      \* the threads that take values out
    Values,         \* the payloads
    SIZE,           \* the number of slots
    NoValue         \* the result of a consumer that has not taken anything

VARIABLES
    offers,         \* the values offered so far, in ticket order
    demanded,       \* the number of read tickets handed out
    placed,         \* the tickets whose value has been placed in the buffer
    taken,          \* the tickets whose value has been taken out again
    result          \* what each consumer took last

absVars == <<offers, demanded, placed, taken, result>>

AbsInit ==
    /\ offers = <<>>
    /\ demanded = 0
    /\ placed = {}
    /\ taken = {}
    /\ result = [c \in Consumers |-> NoValue]

(* A producer joins the queue with its value. *)
Offer(v) ==
    /\ offers' = Append(offers, v)
    /\ UNCHANGED <<demanded, placed, taken, result>>

(* A consumer joins the queue of consumers. *)
Demand ==
    /\ demanded' = demanded + 1
    /\ UNCHANGED <<offers, placed, taken, result>>

(* The value of ticket k becomes available. *)
Place(k) ==
    /\ k \notin placed
    /\ k >= SIZE => k - SIZE \in taken
    /\ placed' = placed \cup {k}
    /\ UNCHANGED <<offers, demanded, taken, result>>

(* The consumer with ticket k leaves with the value of ticket k. *)
Take(c, k) ==
    /\ k \in placed \ taken
    /\ taken' = taken \cup {k}
    /\ result' = [result EXCEPT ![c] = offers[k + 1]]
    /\ UNCHANGED <<offers, demanded, placed>>

(* The owner empties the buffer. *)
Clear ==
    /\ offers' = <<>>
    /\ demanded' = 0
    /\ placed' = {}
    /\ taken' = {}
    /\ UNCHANGED result

AbsNext ==
    \/ \E v \in Values : Offer(v)
    \/ Demand
    \/ \E k \in 0 .. Len(offers) - 1 : Place(k)
    \/ \E c \in Consumers, k \in 0 .. demanded - 1 : Take(c, k)
    \/ Clear

AbsSpec == AbsInit /\ [][AbsNext]_absVars
=============================================================================
