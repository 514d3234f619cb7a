--------------------------- MODULE TradeEventStream ---------------------------
(***************************************************************************)
(* How a market stream comes up: the constructor of TradeEventStream, and  *)
(* that of MarkPriceStream, which is the same, on top of the holder it has *)
(* just created.  The holder's loop thread is connecting meanwhile.        *)
(*                                                                         *)
(* The constructor is the holder's owner: its calls are the owner's        *)
(* operations of WebsocketStreamHolder, one after the other.  Nobody else  *)
(* has the holder yet, so no thread polls it.                              *)
(***************************************************************************)
EXTENDS WebsocketStreamHolder

VARIABLES
    ctor,           \* where the constructor is; "none" if no stream is constructed
    firstErr,       \* err, the reason given by the first getStatus
    connected,
    initialising,   \* connecting of TradeEventStream
    lastStatus,
    reason          \* lastError of TradeEventStream

streamVars == <<ctor, firstErr, connected, initialising, lastStatus, reason>>
allVars == <<vars, streamVars>>

StreamStart(first) ==
    /\ Init
    /\ ctor = first
    /\ firstErr = "null"
    /\ connected = FALSE
    /\ initialising = TRUE
    /\ lastStatus = "FAIL"
    /\ reason = "none"

StreamInit == StreamStart("new")

CtorGoto(from, to) ==
    /\ ctor = from
    /\ pc[Owner] = "idle"
    /\ ctor' = to

\* getStatus of the holder; the result is looked at in the next step.
CtorGetStatus ==
    /\ CtorGoto("new", "first") \/ CtorGoto("failed_again", "second")
    /\ GetStatusCall(Owner)
    /\ firstErr' = err[Owner]
    /\ UNCHANGED <<connected, initialising, lastStatus, reason>>

CtorConnected ==
    /\ CtorGoto("first", "finish") \/ CtorGoto("again", "finish")
    /\ status[Owner] = "SUCCESS"
    /\ connected' = TRUE
    /\ UNCHANGED <<vars, firstErr, initialising, lastStatus, reason>>

CtorFinishes ==
    /\ CtorGoto("finish", "ready")
    /\ initialising' = FALSE
    /\ UNCHANGED <<vars, firstErr, connected, lastStatus, reason>>

\* Copies the reason out of the holder, if there is one.
Adopt(src) == reason' = IF src = "null" THEN reason ELSE src

CtorClosed ==
    /\ CtorGoto("first", "ready")
    /\ status[Owner] = "CLOSED"
    /\ lastStatus' = "CLOSED"
    /\ Adopt(err[Owner])
    /\ initialising' = FALSE
    /\ UNCHANGED <<vars, firstErr, connected>>

CtorReEstablishes ==
    /\ CtorGoto("first", "again")
    /\ status[Owner] = "FAIL"
    /\ ReEstablishCall
    /\ UNCHANGED <<firstErr, connected, initialising, lastStatus, reason>>

CtorFailsAgain ==
    /\ CtorGoto("again", "failed_again")
    /\ status[Owner] # "SUCCESS"
    /\ UNCHANGED <<vars, firstErr, connected, initialising, lastStatus, reason>>

\* Mutation: the reason of the first failure is preferred.
CtorGivesUp_FirstReason ==
    /\ CtorGoto("second", "ready")
    /\ lastStatus' = status[Owner]
    /\ Adopt(IF firstErr # "null" THEN firstErr ELSE err[Owner])
    /\ initialising' = FALSE
    /\ UNCHANGED <<vars, firstErr, connected>>

CtorGivesUp ==
    /\ CtorGoto("second", "ready")
    /\ lastStatus' = status[Owner]
    /\ Adopt(IF err[Owner] # "null" THEN err[Owner] ELSE firstErr)
    /\ initialising' = FALSE
    /\ UNCHANGED <<vars, firstErr, connected>>

Constructor ==
    \/ CtorGetStatus \/ CtorConnected \/ CtorFinishes \/ CtorClosed
    \/ CtorReEstablishes \/ CtorFailsAgain \/ CtorGivesUp

\* Once it is up, the owner only destroys it.
HolderStep ==
    /\ \/ LoopStep \/ OwnerStep \/ GetStatus(Owner) \/ Timeout
       \/ ctor = "ready" /\ Destroy
       \/ OthersTakeParser \/ OthersGiveParser
       \/ ctor = "ready" /\ ~Destroyed /\ getLatestData
    /\ UNCHANGED streamVars

StreamNext == Constructor \/ HolderStep

StreamSpec == StreamInit /\ [][StreamNext]_allVars

-----------------------------------------------------------------------------
\* Type correctness: the holder is well typed, and the constructor is in one of its places.
StreamTypeOK ==
    /\ TypeOK
    /\ ctor \in {"none", "new", "first", "again", "failed_again", "second", "finish", "ready",
                 "fetch", "key", "keyless", "deleting", "gone"}     \* of a user stream only
    /\ firstErr \in {"null", "live", "freed"}
    /\ connected \in BOOLEAN /\ initialising \in BOOLEAN
    /\ lastStatus \in {"SUCCESS", "FAIL", "CLOSED"}
    /\ reason \in {"none", "live", "freed"}

(***************************************************************************)
(* A stream that comes up CLOSED has the reason of its last attempt,       *)
(* copied before anything could reset it.                                  *)
(***************************************************************************)
ClosedHasReason == ctor = "ready" /\ lastStatus = "CLOSED" => reason = "live"

(***************************************************************************)
(* Behind a stream whose holder is running there is a loop thread, be it   *)
(* the first or the one that reEstablishExecution started in its place.    *)
(***************************************************************************)
ConnectedIsServed == ctor \in {"ready", "deleting"} /\ running => pc[Loop] # "done"

(***************************************************************************)
(* What the constructor leaves behind is true of the holder, through a     *)
(* close and a second loop: the reason of a stream that came up CLOSED is  *)
(* its own copy, and a running holder has a loop.                          *)
(***************************************************************************)
OutcomeIsTrue == StreamTypeOK /\ ClosedHasReason /\ ConnectedIsServed

(***************************************************************************)
(* Whoever waits in getStatus for the constructor's outcome gets it, on    *)
(* every path through the constructor, unless its reEstablishExecution     *)
(* joins a loop that stays stuck.                                          *)
(***************************************************************************)
OutcomeIsReported ==
    initialising /\ ctor # "none" ~> ~initialising \/ [](Stuck /\ pc[Owner] = "re_join")
=============================================================================
