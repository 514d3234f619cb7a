----------------------------- MODULE FixedPoint -----------------------------
(***************************************************************************)
(* parseFixed and formatFixed: decimal texts to and from integer counts of *)
(* 10^-FIXED_DIGITS, in two's complement of Width bits.  A text is a       *)
(* sequence of characters; the accumulator is an unsigned integer of the   *)
(* same width, which wraps.                                                *)
(***************************************************************************)
EXTENDS Integers, Sequences, SequencesExt, Functions

CONSTANTS FIXED_DIGITS, Width

ASSUME FixedAssumption == FIXED_DIGITS \in Nat /\ Width \in Nat /\ Width > 4

\* b to the power n.
Power(b, n) ==
    LET p[k \in 0 .. n] == IF k = 0 THEN 1 ELSE b * p[k - 1]
    IN  p[n]

negLimit    == Power(2, Width - 1)
FIXED_SCALE == Power(10, FIXED_DIGITS)
Fixed       == -negLimit .. negLimit - 1

\* Arithmetic of Width bits: modulo 2^Width, and read as two's complement.
Unsigned(x) == x % (2 * negLimit)
Signed(u)   == IF u >= negLimit THEN u - 2 * negLimit ELSE u

Numeral     == <<"0", "1", "2", "3", "4", "5", "6", "7", "8", "9">>
IsDigit(c)  == c \in Range(Numeral)
DigitOf(c)  == (CHOOSE i \in DOMAIN Numeral : Numeral[i] = c) - 1
IsSign(c)   == c \in {"-", "+"}

-----------------------------------------------------------------------------
\* decimals is -1 before the point.
Start == [ok |-> TRUE, value |-> 0, decimals |-> -1, anyDigit |-> FALSE, roundUp |-> FALSE]

\* Mutation: the limit is compared after the multiplication has wrapped.
TakeDigit_LateCheck(p, d) ==
    LET next == Unsigned(p.value * 10 + d)
    IN  [p EXCEPT !.anyDigit = TRUE, !.ok = next <= negLimit, !.value = next,
                  !.decimals = IF @ >= 0 THEN @ + 1 ELSE @]

TakeDigit(p, d) ==
    [p EXCEPT !.anyDigit = TRUE,
              !.ok       = p.value <= (negLimit - d) \div 10,
              !.value    = Unsigned(p.value * 10 + d),
              !.decimals = IF @ >= 0 THEN @ + 1 ELSE @]

\* Only the first digit that does not fit decides the rounding.
DropDigit(p, d) ==
    [p EXCEPT !.anyDigit = TRUE,
              !.roundUp  = IF p.decimals = FIXED_DIGITS THEN d >= 5 ELSE @,
              !.decimals = @ + 1]

Scan(p, c) ==
    CASE ~p.ok                                       -> p
      [] p.ok /\ c = "." /\ p.decimals < 0           -> [p EXCEPT !.decimals = 0]
      [] p.ok /\ IsDigit(c) /\ p.decimals >= FIXED_DIGITS -> DropDigit(p, DigitOf(c))
      [] p.ok /\ IsDigit(c) /\ p.decimals < FIXED_DIGITS  -> TakeDigit(p, DigitOf(c))
      [] OTHER                                       -> [p EXCEPT !.ok = FALSE]

\* The loop over the characters after the sign.
Scanned(body) ==
    LET scan[n \in 0 .. Len(body)] == IF n = 0 THEN Start ELSE Scan(scan[n - 1], body[n])
    IN  scan[Len(body)]

\* The decimals the text does not have.
Times10(p) == [p EXCEPT !.ok = @ /\ p.value <= negLimit \div 10, !.value = Unsigned(@ * 10)]
Pad(p) ==
    LET missing == CASE p.decimals < 0                 -> FIXED_DIGITS
                     [] p.decimals \in 0 .. FIXED_DIGITS -> FIXED_DIGITS - p.decimals
                     [] p.decimals > FIXED_DIGITS      -> 0
        pad[k \in 0 .. missing] == IF k = 0 THEN p ELSE Times10(pad[k - 1])
    IN  pad[missing]

RoundUp(p) ==
    IF p.roundUp THEN [p EXCEPT !.ok = @ /\ p.value < negLimit, !.value = Unsigned(@ + 1)] ELSE p

\* The set with the value, or empty where the code returns false.
parseFixed(t) ==
    LET signed   == t # <<>> /\ IsSign(t[1])
        negative == signed /\ t[1] = "-"
        p        == RoundUp(Pad(Scanned(IF signed THEN Tail(t) ELSE t)))
    IN  IF /\ p.ok /\ p.anyDigit
           /\ p.value <= negLimit /\ (p.value = negLimit => negative)
        THEN {Signed(IF negative THEN Unsigned(0 - p.value) ELSE p.value)}
        ELSE {}

Digits(n, count) == [i \in 1 .. count |-> Numeral[((n \div Power(10, count - i)) % 10) + 1]]

\* Mutation: the zeros after the point are dropped as well.
Fraction_Bare(f) == SelectSeq(Digits(f, FIXED_DIGITS), LAMBDA c : c # "0")

\* The decimals without the zeros they end in.
Fraction(f) ==
    LET all == Digits(f, FIXED_DIGITS)
        len == CHOOSE n \in 1 .. FIXED_DIGITS : all[n] # "0" /\ \A k \in n + 1 .. FIXED_DIGITS : all[k] = "0"
    IN  SubSeq(all, 1, len)

formatFixed(v) ==
    LET magnitude == IF v < 0 THEN Unsigned(0 - Unsigned(v)) ELSE Unsigned(v)
        whole     == magnitude \div FIXED_SCALE
        fraction  == magnitude % FIXED_SCALE
        count     == CHOOSE n \in 1 .. Width : whole < Power(10, n) /\ (n > 1 => whole >= Power(10, n - 1))
    IN  (IF v < 0 THEN <<"-">> ELSE <<>>)
        \o Digits(whole, count)
        \o (IF fraction = 0 THEN <<>> ELSE <<".">> \o Fraction(fraction))

-----------------------------------------------------------------------------
(* The reference: what a text denotes, as an exact fraction. *)

Unsign(t) == IF t # <<>> /\ IsSign(t[1]) THEN Tail(t) ELSE t

WellFormed(t) ==
    LET body == Unsign(t)
    IN  /\ \A i \in DOMAIN body : IsDigit(body[i]) \/ body[i] = "."
        /\ \E i \in DOMAIN body : IsDigit(body[i])
        /\ \A i, j \in DOMAIN body : body[i] = "." /\ body[j] = "." => i = j

\* The digits without the point are numerator, the places after it the power of ten.
Numerator(t) ==
    LET body == Unsign(t)
        num[n \in 0 .. Len(body)] ==
            IF n = 0 THEN 0
            ELSE IF IsDigit(body[n]) THEN num[n - 1] * 10 + DigitOf(body[n]) ELSE num[n - 1]
    IN  num[Len(body)]
Places(t) ==
    LET body == Unsign(t)
    IN  IF \E i \in DOMAIN body : body[i] = "."
        THEN Len(body) - (CHOOSE i \in DOMAIN body : body[i] = ".") ELSE 0

\* numerator * FIXED_SCALE / 10^places to the nearest integer, half away from zero.
Nearest(t) ==
    LET unit == Power(10, Places(t))
        magnitude == (2 * Numerator(t) * FIXED_SCALE + unit) \div (2 * unit)
    IN  IF t[1] = "-" THEN -magnitude ELSE magnitude

\* The nearest multiple if the text denotes a number and it fits, or else nothing.
ParsesTo(t) ==
    parseFixed(t) = IF WellFormed(t) /\ Nearest(t) \in Fixed THEN {Nearest(t)} ELSE {}
=============================================================================
