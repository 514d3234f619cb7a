------------------------------ MODULE PriceMap ------------------------------
(***************************************************************************)
(* What one side of the order book promises, without blocks, windows or    *)
(* slots: a map from ticks to entries.  An update sets or removes the      *)
(* entry of its tick; it is refused, and changes nothing, exactly when the *)
(* level is new and there is no room for it.                               *)
(***************************************************************************)
EXTENDS Integers, FiniteSets, Functions

CONSTANTS
    Prices, Volumes,    \* what an update may carry; volume 0 removes
    tickSize,
    TICKS,              \* consecutive ticks that share a block
    MAX_LEVELS, MAX_BLOCKS

VARIABLES
    book,               \* tick -> entry
    accepted            \* what the last update returned

mapVars == <<book, accepted>>

\* Prices between ticks belong to the nearest one.
Tick(price) == (price + tickSize \div 2) \div tickSize

Room(tick) ==
    LET used == {t \div TICKS : t \in DOMAIN book}
    IN  /\ Cardinality(DOMAIN book) < MAX_LEVELS
        /\ tick \div TICKS \in used \/ Cardinality(used) < MAX_BLOCKS

MapInit ==
    /\ book = <<>>
    /\ accepted = TRUE

Remove(price) ==
    /\ book' = Restrict(book, DOMAIN book \ {Tick(price)})
    /\ accepted' = TRUE

Set(price, volume) ==
    /\ Tick(price) \in DOMAIN book \/ Room(Tick(price))
    /\ book' = [t \in DOMAIN book \cup {Tick(price)} |->
                   IF t = Tick(price) THEN [price |-> price, volume |-> volume] ELSE book[t]]
    /\ accepted' = TRUE

Refuse(price) ==
    /\ Tick(price) \notin DOMAIN book
    /\ ~Room(Tick(price))
    /\ accepted' = FALSE
    /\ UNCHANGED book

Empty ==
    /\ book' = <<>>
    /\ UNCHANGED accepted

MapNext ==
    \/ \E price \in Prices : Remove(price) \/ Refuse(price)
    \/ \E price \in Prices, volume \in Volumes \ {0} : Set(price, volume)
    \/ Empty

MapSpec == MapInit /\ [][MapNext]_mapVars
=============================================================================
