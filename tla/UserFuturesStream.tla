-------------------------- MODULE UserFuturesStream --------------------------
(***************************************************************************)
(* A user data stream (APIManager::User::FuturesStream): it fetches a      *)
(* listen key over a REST connection of its own, then comes up as a market *)
(* stream does, and deletes the key over the same connection before its    *)
(* holder is destroyed.  Only its owner uses that connection.              *)
(*                                                                         *)
(* connected is its connectionAlive, initialising its connecting.          *)
(***************************************************************************)
EXTENDS TradeEventStream, StreamHolder

ASSUME OwnerAssumption == Owner \in Clients /\ MaxRequests >= 2

VARIABLE listenKeyPresent

userVars == <<allVars, restVars, listenKeyPresent>>

UserInit ==
    /\ StreamStart("fetch")
    /\ RestInit
    /\ listenKeyPresent = FALSE

-----------------------------------------------------------------------------
(* getListenKey and what the constructor makes of it *)

getListenKey ==
    /\ CtorGoto("fetch", "key")
    /\ sendRequest(Owner)
    /\ UNCHANGED <<vars, firstErr, connected, initialising, lastStatus, reason, listenKeyPresent>>

\* Mutation: without a key nobody is told that the constructor is done.
Keyless_KeepsInitialising ==
    /\ CtorGoto("key", "keyless")
    /\ reason' = "live"
    /\ UNCHANGED <<vars, restVars, firstErr, connected, initialising, lastStatus>>

Keyless ==
    /\ CtorGoto("key", "keyless")
    /\ reason' = "live"
    /\ initialising' = FALSE
    /\ UNCHANGED <<vars, restVars, firstErr, connected, lastStatus>>

\* No response, or one that does not parse or is an error.
KeyFails ==
    /\ at[Owner] = "idle"
    /\ Keyless
    /\ UNCHANGED listenKeyPresent

\* A response without the field counts as a key, an empty one.
KeyEmpty ==
    /\ at[Owner] = "idle" /\ outcome[Owner] = "SUCCESS"
    /\ Keyless
    /\ listenKeyPresent' = TRUE

KeyFetched ==
    /\ at[Owner] = "idle" /\ outcome[Owner] = "SUCCESS"
    /\ CtorGoto("key", "new")
    /\ listenKeyPresent' = TRUE
    /\ UNCHANGED <<vars, restVars, firstErr, connected, initialising, lastStatus, reason>>

-----------------------------------------------------------------------------
(* The rest of the constructor is a market stream's, but for one case. *)

\* reEstablishExecution succeeds, and connectionAlive stays false.
ReEstablished ==
    /\ CtorGoto("again", "finish")
    /\ status[Owner] = "SUCCESS"
    /\ UNCHANGED <<vars, firstErr, connected, initialising, lastStatus, reason>>

UserConstructor ==
    \/ getListenKey \/ KeyFails \/ KeyEmpty \/ KeyFetched
    \/ /\ \/ CtorGetStatus \/ (ctor = "first" /\ CtorConnected) \/ ReEstablished \/ CtorFinishes
          \/ CtorClosed \/ CtorReEstablishes \/ CtorFailsAgain \/ CtorGivesUp
       /\ UNCHANGED <<restVars, listenKeyPresent>>

\* The destructor's body; the members go after it.
deleteListenKey ==
    /\ CtorGoto("ready", "deleting") \/ CtorGoto("keyless", "gone")
    /\ sendRequest(Owner)
    /\ UNCHANGED <<vars, firstErr, connected, initialising, lastStatus, reason, listenKeyPresent>>

\* There is a holder only once there is a key.
HasHolder == ctor \notin {"fetch", "key", "keyless", "gone"}

UserHolderStep ==
    /\ HasHolder
    /\ \/ LoopStep \/ OwnerStep \/ GetStatus(Owner) \/ Timeout
       \/ ctor = "deleting" /\ at[Owner] = "idle" /\ Destroy
       \/ OthersTakeParser \/ OthersGiveParser
       \/ ctor = "ready" /\ ~Destroyed /\ getLatestData
    /\ UNCHANGED <<streamVars, restVars, listenKeyPresent>>

UserRestStep ==
    /\ ClientStep(Owner) \/ PeerDrops
    /\ UNCHANGED <<allVars, listenKeyPresent>>

UserNext == UserConstructor \/ deleteListenKey \/ UserHolderStep \/ UserRestStep

UserSpec == UserInit /\ [][UserNext]_userVars
=============================================================================
