---------------------------- MODULE MCSortedBook ----------------------------
(***************************************************************************)
(* One side of the order book, and the decimal texts its numbers come      *)
(* from.  The two share no state: a text is read while a book is as it was *)
(* built, rather than once more in each of its states.                     *)
(***************************************************************************)
EXTENDS SortedBook, FixedPoint

VARIABLE text       \* the field that is being read

\* Texts of any shape, short; well-formed ones up to beyond both ends of the range.
Upto(S, n) == UNION {[1 .. k -> S] : k \in 0 .. n}
Texts ==
    Upto({"-", "+", ".", "0", "9", "x"}, 4)
    \cup {s \o w \o <<".">> \o f : s \in {<<>>, <<"-">>}, w \in Upto({"0", "1", "2"}, 2),
                                   f \in Upto({"0", "2", "4", "5", "7", "8"}, 3)}
    \cup {formatFixed(v) : v \in Fixed}

readFixedAs(t) ==
    /\ text = <<>> /\ Init /\ isBid
    /\ text' = t
    /\ UNCHANGED vars

FieldRead == text' = <<>> /\ UNCHANGED vars

MCInit == Init /\ text = <<>>
MCNext ==
    \/ text = <<>> /\ Next /\ UNCHANGED text
    \/ \E t \in Texts : readFixedAs(t)
    \/ FieldRead
MCSpec == MCInit /\ [][MCNext]_<<vars, text>>

(***************************************************************************)
(* parseFixed agrees with exact arithmetic on every text: malformed ones   *)
(* are refused, the range ends where it should on both sides, and the      *)
(* digits beyond the last place round half away from zero.                 *)
(***************************************************************************)
ParsesAsReference == ParsesTo(text)

(***************************************************************************)
(* formatFixed is the inverse of parseFixed: a price that was read is sent *)
(* in an order as a text that is read as the same price, whatever the text *)
(* it came from.                                                           *)
(***************************************************************************)
FormatParsesBack == \A v \in parseFixed(text) : parseFixed(formatFixed(v)) = {v}
=============================================================================
