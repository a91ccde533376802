------------------------------- MODULE Utils -------------------------------
(***************************************************************************)
(* utils.c: numbers to text and elapsed time; ModbusCrc has the CRC.  A    *)
(* text is a sequence of characters.                                       *)
(***************************************************************************)
EXTENDS Integers, Sequences

CONSTANT Ticks      \* 2^32 in the code: what the tick counts up to

ASSUME TicksAssumption == Ticks \in Nat \ {0}

(* Utils_IsElapsed                                                         *)

IsElapsed(now, start, ms) == (now - start) % Ticks >= ms
-----------------------------------------------------------------------------
(* Text of integers                                                        *)

Chr(digit) == <<"0", "1", "2", "3", "4", "5", "6", "7", "8", "9">>[digit + 1]
Figures == {Chr(digit) : digit \in 0 .. 9}

\* The loops over tmp: the digits are found from the last to the first.
Digits[n \in Nat] == IF n < 10 THEN <<Chr(n)>> ELSE Append(Digits[n \div 10], Chr(n % 10))

Uint16ToStr(val) == Digits[val]

ToUint16(n) == n % 65536
ToInt16(n) == LET u == ToUint16(n) IN IF u < 32768 THEN u ELSE u - 65536

\* -32768 is its own negation, and 32768 as an unsigned number.
Int16ToStr(val) ==
    IF val < 0 THEN <<"-">> \o Uint16ToStr(ToUint16(-val)) ELSE Uint16ToStr(val)
-----------------------------------------------------------------------------
(* Text of floats.  The float m / 2^e has a mantissa m of at most 24 bits, *)
(* and each operation rounds to the nearest, to an even mantissa if two    *)
(* are.  e is negative where the float is a multiple of 2^-e.              *)

Two[e \in Nat] == IF e = 0 THEN 1 ELSE 2 * Two[e - 1]    \* 2^e

MantissaEnd == 16777216     \* 2^24

\* Above a mantissa no power of two makes a difference.
Pow2(e) == Two[IF e < 25 THEN e ELSE 25]

Nearest(q, rest, unit) ==
    IF 2 * rest > unit \/ (2 * rest = unit /\ q % 2 = 1) THEN q + 1 ELSE q

\* The smallest unit in which n, of 32 bits at most, is a mantissa
Unit(n) ==
    CHOOSE i \in 0 .. 8 :
        n < MantissaEnd * Two[i] /\ (i = 0 \/ 2 * n >= MantissaEnd * Two[i])

\* (float)n
Float(n) ==
    LET k == Unit(n) IN [m |-> Nearest(n \div Two[k], n % Two[k], Two[k]), e |-> -k]

\* What is known of n / d after each round of long division: q / 2^e, and the rest.
LongDivision(n, d) ==
    LET after[e \in Nat] ==
            IF e = 0 THEN [q |-> n \div d, rest |-> n % d]
            ELSE LET last == after[e - 1]
                 IN  [q |-> 2 * last.q + (2 * last.rest) \div d, rest |-> (2 * last.rest) % d]
    IN  after

FillsMantissa(q) == 2 * q >= MantissaEnd /\ q < MantissaEnd

\* f / (float)d, of an integer f
Quotient(f, d) ==
    LET after == LongDivision(f.m, d)
        e == CHOOSE i \in 0 .. 39 : FillsMantissa(after[i].q)
    IN  IF f.m = 0 THEN f
        ELSE [m |-> Nearest(after[e].q, after[e].rest, d), e |-> f.e + e]

\* (int)f and f - (float)(int)f
Whole(f) == IF f.e < 0 THEN f.m * Two[-f.e] ELSE f.m \div Pow2(f.e)
Fraction(f) == [m |-> IF f.e < 0 THEN 0 ELSE f.m % Pow2(f.e), e |-> f.e]

\* f *= 10.0f, of a fraction
TimesTen(f) == LET product == Float(10 * f.m) IN [m |-> product.m, e |-> f.e + product.e]

\* One round of the loop over decimals, the digit cut off and not rounded.
Decimal(f) == Whole(TimesTen(Fraction(f)))

\* Utils_FloatToStr of n / d with the one decimal that every caller asks for
FloatToStr(n, d) ==
    LET f == Quotient(Float(IF n < 0 THEN -n ELSE n), d) IN
    (IF n < 0 THEN <<"-">> ELSE <<>>) \o Digits[Whole(f)] \o <<".", Chr(Decimal(f))>>
=============================================================================
