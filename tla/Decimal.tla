------------------------------- MODULE Decimal -------------------------------
(***************************************************************************)
(* pkg/util/decimal.go: fixed-point numbers.  A Decimal is its coefficient *)
(* and its exponent, [v, e] for v * 10^e, with v unbounded (big.Int).      *)
(* Texts are what the printer and the parser see of a number: a sign, an   *)
(* integer part, a fraction of len digits and a scientific exponent.       *)
(***************************************************************************)
EXTENDS Integers, Sequences

CONSTANT DivisionPrecision  \* digits after the point of Div, 16 in the code

\* big.Int.Exp of ten and five, big.Int.Lsh of one.
Ten[n \in Nat]  == IF n = 0 THEN 1 ELSE 10 * Ten[n - 1]
Five[n \in Nat] == IF n = 0 THEN 1 ELSE 5 * Five[n - 1]
Two[n \in Nat]  == IF n = 0 THEN 1 ELSE 2 * Two[n - 1]

Dec(v, e) == [v |-> v, e |-> e]
Magnitude(n) == IF n < 0 THEN -n ELSE n
Sign(d) == IF d.v < 0 THEN -1 ELSE IF d.v = 0 THEN 0 ELSE 1
Lower(x, y) == IF x >= y THEN y ELSE x

\* big.Int.Quo: division truncated towards zero.
Quo(a, b) ==
    LET q == Magnitude(a) \div Magnitude(b) IN IF (a < 0) = (b < 0) THEN q ELSE -q

rescale(d, exp) ==
    Dec(IF exp > d.e THEN Quo(d.v, Ten[exp - d.e]) ELSE d.v * Ten[d.e - exp], exp)

Abs(d) == Dec(Magnitude(d.v), d.e)
Neg(d) == Dec(-d.v, d.e)
Shift(d, shift) == Dec(d.v, d.e + shift)
Mul(d, d2) == Dec(d.v * d2.v, d.e + d2.e)

\* Fault: the sum keeps the scale of the first operand.
Add_FirstScale(d, d2) == Dec(d.v + rescale(d2, d.e).v, d.e)

Add(d, d2) ==
    LET base == Lower(d.e, d2.e) IN Dec(rescale(d, base).v + rescale(d2, base).v, base)

Sub(d, d2) ==
    LET base == Lower(d.e, d2.e) IN Dec(rescale(d, base).v - rescale(d2, base).v, base)

Cmp(d, d2) ==
    LET base == Lower(d.e, d2.e) IN Sign(Dec(rescale(d, base).v - rescale(d2, base).v, base))

\* The quotient in multiples of 10^-precision and what it leaves over.
QuoRem(d, d2, precision) ==
    LET e  == d.e - d2.e + precision
        aa == IF e < 0 THEN d.v ELSE d.v * Ten[e]
        bb == IF e < 0 THEN d2.v * Ten[-e] ELSE d2.v
        q  == Quo(aa, bb)
    IN [q |-> Dec(q, -precision),
        r |-> Dec(aa - q * bb, IF e < 0 THEN d.e ELSE d2.e - precision)]

\* Fault: a tie is rounded towards zero.
DivRound_TiesDown(d, d2, precision) ==
    LET qr == QuoRem(d, d2, precision)
        r2 == Dec(2 * Magnitude(qr.r.v), qr.r.e + precision)
        one == Dec(Sign(d) * Sign(d2), -precision)
    IN IF Cmp(r2, Abs(d2)) <= 0 THEN qr.q ELSE Add(qr.q, one)

DivRound(d, d2, precision) ==
    LET qr == QuoRem(d, d2, precision)
        r2 == Dec(2 * Magnitude(qr.r.v), qr.r.e + precision)
    IN IF Cmp(r2, Abs(d2)) < 0 THEN qr.q
       ELSE IF Sign(d) * Sign(d2) < 0 THEN Sub(qr.q, Dec(1, -precision))
       ELSE Add(qr.q, Dec(1, -precision))

Div(d, d2) == DivRound(d, d2, DivisionPrecision)

Truncate(d, precision) ==
    IF precision >= 0 /\ -precision > d.e THEN rescale(d, -precision) ELSE d

Mod(d, d2) == Sub(d, Mul(d2, Truncate(Div(d, d2), 0)))

\* Square and multiply; the exponent is halved and its integer part counts.
Pow(d, n) ==
    LET P[k \in -Magnitude(n) .. Magnitude(n)] ==
            IF k = 0 THEN Dec(1, 0)
            ELSE LET t == P[Quo(k, 2)] IN
                 IF k % 2 = 0 THEN Mul(t, t)
                 ELSE IF k > 0 THEN Mul(Mul(t, t), d) ELSE Div(Mul(t, t), d)
    IN P[n]

\* One digit more than asked for, five away from zero, and the last digit off:
\* DivMod floors, a negative number that had a remainder is moved back up.
Round(d, places) ==
    LET ret == rescale(d, -places - 1)
        half == IF ret.v < 0 THEN ret.v - 5 ELSE ret.v + 5
        z == half \div 10
    IN Dec(IF z < 0 /\ half % 10 # 0 THEN z + 1 ELSE z, -places)

RoundBank(d, places) ==
    LET round == Round(d, places)
        tie == Cmp(Abs(Sub(d, round)), Dec(5, -places - 1)) = 0
    IN IF ~tie \/ round.v % 2 = 0 THEN round
       ELSE Dec(IF round.v < 0 THEN round.v + 1 ELSE round.v - 1, round.e)

\* The coins of a unit.
iVal(interval) == CASE interval = 5 -> 20 [] interval \in {10, 15} -> 10
                    [] interval = 25 -> 4 [] interval = 50 -> 2 [] interval = 100 -> 1

\* Go's 10 ^ n: the bits of 2 and of 8 are flipped.
XorTen(n) == n + (IF (n \div 2) % 2 = 0 THEN 2 ELSE -2) + (IF (n \div 8) % 2 = 0 THEN 8 ELSE -8)

\* Interval 15 takes New(10^-int64(orgExp), orgExp) off a coefficient that is
\* divisible by five; ^ is Go's exclusive or.
RoundCash(d, interval) ==
    LET coins == Dec(iVal(interval), 0)
        dOne == Dec(XorTen(-d.e), d.e)
        lowered == /\ interval = 15 /\ d.e < 0
                   /\ Cmp(Mod(Dec(d.v, 0), Dec(5, 0)), Dec(0, 1)) = 0
        dd == IF lowered THEN Sub(d, dOne) ELSE d
    IN Truncate(Div(Round(Mul(dd, coins), 0), coins), 2)

Floor(d) == IF d.e >= 0 THEN d ELSE Dec(d.v \div Ten[-d.e], 0)

Ceil(d) ==
    IF d.e >= 0 THEN d
    ELSE LET exp == Ten[-d.e]
         IN Dec((d.v \div exp) + (IF d.v % exp # 0 THEN 1 ELSE 0), 0)

\* Loops over the rest of the arguments.
SmallestOf(first, rest) ==
    LET ans[i \in 0 .. Len(rest)] ==
            IF i = 0 THEN first ELSE IF Cmp(rest[i], ans[i - 1]) < 0 THEN rest[i] ELSE ans[i - 1]
    IN ans[Len(rest)]

LargestOf(first, rest) ==
    LET ans[i \in 0 .. Len(rest)] ==
            IF i = 0 THEN first ELSE IF Cmp(rest[i], ans[i - 1]) > 0 THEN rest[i] ELSE ans[i - 1]
    IN ans[Len(rest)]

Sum(first, rest) ==
    LET total[i \in 0 .. Len(rest)] == IF i = 0 THEN first ELSE Add(total[i - 1], rest[i])
    IN total[Len(rest)]

Avg(first, rest) == Div(Sum(first, rest), Dec(Len(rest) + 1, 0))

halfDown(temp) == temp \div 2

\* A float64 is mant * 2^exp2 with mant odd.  The number of decimal digits is
\* capped by what the binary fraction needs.
NewFromFloatWithExponent(neg, mant, exp2, exp) ==
    LET ex == IF exp < 0 /\ exp < exp2 THEN IF exp2 < 0 THEN exp2 ELSE 0 ELSE exp
        shift == exp2 - ex
        temp == (IF ex > 0 THEN Five[ex] ELSE 1) * (IF shift < 0 THEN Two[-shift] ELSE 1)
        dMant == mant * (IF ex < 0 THEN Five[-ex] ELSE 1) * (IF shift > 0 THEN Two[shift] ELSE 1)
        m == IF ex > 0 \/ shift < 0 THEN (dMant + halfDown(temp)) \div temp ELSE dMant
    IN IF mant = 0 THEN Dec(0, 0) ELSE Dec(IF neg THEN -m ELSE m, ex)

\* strings.TrimRight(fraction, "0") and the loop of string(true).
TrimZeros(t) ==
    LET m == CHOOSE m \in 0 .. t.len :
                /\ t.frac % Ten[t.len - m] = 0
                /\ \A k \in 0 .. m - 1 : t.frac % Ten[t.len - k] # 0
    IN [t EXCEPT !.len = m, !.frac = t.frac \div Ten[t.len - m]]

\* string(trimTrailingZeros)
ToText(d, trim) ==
    IF d.e >= 0 THEN [neg |-> d.v < 0, int |-> Magnitude(d.v) * Ten[d.e],
                      len |-> 0, frac |-> 0, sci |-> 0]
    ELSE LET t == [neg |-> d.v < 0, int |-> Magnitude(d.v) \div Ten[-d.e],
                   len |-> -d.e, frac |-> Magnitude(d.v) % Ten[-d.e], sci |-> 0]
         IN IF trim THEN TrimZeros(t) ELSE t

StringFixed(d, places) == ToText(Round(d, places), FALSE)

NewFromString(text) ==
    LET t == TrimZeros(text)
        v == t.int * Ten[t.len] + t.frac
    IN Dec(IF t.neg THEN -v ELSE v, t.sci - t.len)
=============================================================================
