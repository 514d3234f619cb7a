----------------------------- MODULE MCAPIManager -----------------------------
(***************************************************************************)
(* The two parsers that one APIManager shares out: the streams' and the    *)
(* REST functions'.  They have nothing to do with each other, so a         *)
(* behavior is about one of them, chosen at the start.                     *)
(***************************************************************************)
EXTENDS StreamHub, FuturesAPI

VARIABLE subject

mcVars == <<vars, fetchVars, subject>>

MCInit ==
    /\ Init /\ APIInit
    /\ \/ subject = "streams" /\ connectionStatus = "FAIL" /\ \A c \in Clients : what[c] = "raw"
       \/ subject = "rest"

HubStep(A) == subject = "streams" /\ A /\ UNCHANGED <<fetchVars, subject>>
APIStep(A) == subject = "rest" /\ A /\ UNCHANGED <<vars, subject>>

MCNext == HubStep(Next) \/ APIStep(APINext)

(***************************************************************************)
(* The fairness of StreamHub; somebody takes from a ring that is being     *)
(* filled, and the exchange answers a request or drops the connection.     *)
(***************************************************************************)
FairMCSpec ==
    /\ MCInit /\ [][MCNext]_mcVars
    /\ \A s \in Streams :
          /\ WF_mcVars(HubStep(LoopStep(s)))
          /\ SF_mcVars(HubStep(LockParser(s)))
          /\ \A c \in Pollers : WF_mcVars(HubStep(PollStep(s, c)))
    /\ \A c \in Clients : WF_mcVars(APIStep(FetchStep(c))) /\ WF_mcVars(APIStep(Take(c)))
=============================================================================
