------------------------------ MODULE MCStreams ------------------------------
(***************************************************************************)
(* What connects, each on its own: a holder that its owner closes and      *)
(* re-establishes at any time, the same holder behind a market stream, or  *)
(* a user stream with its REST connection.  Which of them a behavior is    *)
(* about is chosen at the start.                                           *)
(***************************************************************************)
EXTENDS UserFuturesStream

VARIABLE subject

mcVars == <<userVars, subject>>

NoRest == RestInit /\ connectionStatus = "FAIL" /\ listenKeyPresent = FALSE

MCInit ==
    \/ subject = "holder" /\ StreamStart("none") /\ NoRest
    \/ subject = "market" /\ StreamInit /\ NoRest
    \/ subject = "user" /\ UserInit

BareStep(A)   == subject = "holder" /\ A /\ UNCHANGED <<streamVars, restVars, listenKeyPresent, subject>>
MarketStep(A) == subject = "market" /\ A /\ UNCHANGED <<restVars, listenKeyPresent, subject>>
UserStep(A)   == subject = "user" /\ A /\ UNCHANGED subject

\* A step of the holder behind the subjects named.
HolderOf(subjects, A) ==
    /\ subject \in subjects /\ HasHolder
    /\ A
    /\ UNCHANGED <<streamVars, restVars, listenKeyPresent, subject>>

Holders == {"holder", "market", "user"}
Behind  == {"market", "user"}

MCNext == BareStep(Next) \/ MarketStep(StreamNext) \/ UserStep(UserNext)

\* What the loop thread and the owner's thread have to do; a sleep ends by itself only behind a stream.
LoopThread == HolderOf(Holders, LoopStep) \/ HolderOf(Behind, BackoffTimeout(Loop))

OwnerThread ==
    \/ HolderOf(Holders, OwnerStep) \/ HolderOf(Behind, BackoffTimeout(Owner))
    \/ MarketStep(Constructor) \/ UserStep(UserConstructor)
    \/ UserStep(ClientStep(Owner) /\ UNCHANGED <<allVars, listenKeyPresent>>)

(***************************************************************************)
(* The fairness of WebsocketStreamHolder, where no sleep needs to end.  A  *)
(* constructor has nobody to interrupt the loop's backoff: its sleeps end, *)
(* and its request is answered or the connection dropped.                  *)
(***************************************************************************)
FairMCSpec ==
    /\ MCInit /\ [][MCNext]_mcVars
    /\ WF_mcVars(LoopThread) /\ SF_mcVars(HolderOf(Holders, LoopTakesParser))
    /\ WF_mcVars(OwnerThread)
    /\ SF_mcVars(HolderOf(Holders, \E p \in Callers : GetStatus(p)))
=============================================================================
