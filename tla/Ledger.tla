------------------------------- MODULE Ledger --------------------------------
(***************************************************************************)
(* A balance kept with pkg/util/decimal.go: amounts of different scales    *)
(* are added and taken off, the sign is turned, the point moved.  Beside   *)
(* it runs the exact value, an integer number of 10^-Scale.                *)
(***************************************************************************)
EXTENDS Decimal

CONSTANTS Amounts,   \* the decimals a caller works with
          Scale,     \* the exact values are multiples of 10^-Scale
          MaxUnits   \* bound of the model: the balance stays below

\* Everything a caller works with, and what is computed from it to two places more,
\* is a multiple of 10^-Scale.
LedgerAssumption ==
    /\ DivisionPrecision \in Nat /\ DivisionPrecision >= 2 /\ MaxUnits \in Nat
    /\ Scale \in Nat /\ Scale >= DivisionPrecision + 2
    /\ \A a \in Amounts : a = Dec(a.v, a.e) /\ a.v \in Int /\ a.e \in Int /\ a.e + Scale >= 2

VARIABLES balance, exact

vars == <<balance, exact>>

Units(d) == d.v * Ten[d.e + Scale]

Init == balance = Dec(0, 1) /\ exact = 0

Keep(d, n) ==
    /\ Magnitude(n) <= MaxUnits
    /\ balance' = d
    /\ exact' = n

Deposit(a) == Keep(Add(balance, a), exact + Units(a))
Withdraw(a) == Keep(Sub(balance, a), exact - Units(a))
Negate == Keep(Neg(balance), -exact)
MovePoint == balance.e < 0 /\ Keep(Shift(balance, 1), 10 * exact)
Scan == Keep(NewFromString(ToText(balance, TRUE)), exact)

Next ==
    \/ \E a \in Amounts : Deposit(a) \/ Withdraw(a)
    \/ Negate \/ MovePoint \/ Scan

Spec == Init /\ [][Next]_vars

-----------------------------------------------------------------------------
(* Properties                                                              *)

Places == -1 .. 2

\* r is a multiple of 10^-p at most half a step from the number d.
Nearest(d, p, r, tie) ==
    LET err == Magnitude(Units(r) - Units(d))
        step == Ten[Scale - p]
    IN r.e = -p /\ 2 * err <= step /\ (2 * err = step => tie)

\* No sequence of sums, differences, changes of sign and round trips through
\* the database's text loses or gains anything, whatever the scales involved.
Exact == Units(balance) = exact

\* Round and RoundBank go to the nearest multiple of 10^-places; a tie goes away
\* from zero in Round and to the even neighbour in RoundBank.
Rounds ==
    \A p \in Places :
        LET r == Round(balance, p)
            b == RoundBank(balance, p)
        IN /\ Nearest(balance, p, r, Magnitude(Units(r)) > Magnitude(exact))
           /\ Nearest(balance, p, b, b.v % 2 = 0)

\* QuoRem's contract: d = d2 * q + r, with r smaller than one step of the
\* quotient and of d's sign; DivRound goes to the nearest step, ties away from 0.
Divides ==
    \A d2 \in {a \in Amounts : a.v # 0}, p \in 0 .. 2 :
        LET qr == QuoRem(balance, d2, p)
            back == Add(Mul(d2, qr.q), qr.r)
            q == DivRound(balance, d2, p)
            err == 2 * Magnitude(Units(Sub(balance, Mul(d2, q))))
            step == Units(Mul(Abs(d2), Dec(1, -p)))
        IN /\ Cmp(back, balance) = 0
           /\ Magnitude(Units(qr.r)) < step
           /\ qr.r.v # 0 => Sign(qr.r) = Sign(balance)
           /\ err <= step
           /\ err = step => Magnitude(Units(Mul(d2, q))) > Magnitude(exact)

\* Floor and Ceil are the integers on either side, Truncate the one nearer to
\* zero; Mod is what truncation leaves when Div need not round.
Integral ==
    /\ Units(Floor(balance)) <= exact /\ exact < Units(Floor(balance)) + Ten[Scale]
    /\ Units(Ceil(balance)) - Ten[Scale] < exact /\ exact <= Units(Ceil(balance))
    /\ LET t == Truncate(balance, 0)
       IN IF exact < 0 THEN Units(t) = Units(Ceil(balance)) ELSE Units(t) = Units(Floor(balance))
    /\ LET m == Mod(balance, Dec(2, 0))
       IN Magnitude(Units(m)) < 2 * Ten[Scale] /\ (Units(m) - exact) % (2 * Ten[Scale]) = 0

\* A printed number parses to the same number, and StringFixed prints exactly
\* the digits asked for.
TextFaithful ==
    /\ Cmp(NewFromString(ToText(balance, TRUE)), balance) = 0
    /\ \A p \in 0 .. 2 : StringFixed(balance, p).len = p
                         /\ Cmp(NewFromString(StringFixed(balance, p)), Round(balance, p)) = 0

\* Cash rounding gives the nearest multiple of the smallest coin, ties up.
CashNearest ==
    \A i \in {5, 10, 25, 50, 100} :
        LET r == RoundCash(balance, i)
            coin == i * Ten[Scale - 2]
            err == Magnitude(Units(r) - exact)
        IN /\ Units(r) % coin = 0
           /\ 2 * err <= coin
           /\ 2 * err = coin => Magnitude(Units(r)) > Magnitude(exact)

\* "15: 10 cent rounding 3.45 => 3.40 (5 gets rounded down)": the nearest
\* multiple of ten cents; of an amount that is one already, the amount itself.
CashFifteen ==
    LET r == RoundCash(balance, 15)
        coin == 10 * Ten[Scale - 2]
    IN exact >= 0 => Units(r) % coin = 0 /\ 2 * Magnitude(Units(r) - exact) <= coin

\* A float mant * 2^exp2 becomes the nearest decimal of the exponent asked for.
FloatsNearest ==
    \A exp2 \in -2 .. 2, exp \in -2 .. 1, neg \in BOOLEAN :
        LET mant == 2 * (Magnitude(balance.v) % 100) + 1
            r == NewFromFloatWithExponent(neg, mant, exp2, exp)
            err == Magnitude(4 * Magnitude(Units(r)) - mant * Two[exp2 + 2] * Ten[Scale])
        IN r.e >= exp /\ err <= 2 * Ten[Scale + exp] /\ (neg => r.v <= 0)

\* The average of a list lies between its smallest and its largest element when none
\* of them has more digits than Div keeps, and squaring and multiplying computes the
\* power.
ListsAndPowers ==
    /\ \A a, b \in Amounts :
          LET mean == Avg(balance, <<a, b>>)
          IN (\A d \in {balance, a, b} : d.e + DivisionPrecision >= 0) =>
             /\ Cmp(SmallestOf(balance, <<a, b>>), mean) <= 0
             /\ Cmp(mean, LargestOf(balance, <<a, b>>)) <= 0
    /\ balance.e >= -1 /\ Magnitude(balance.v) < 20 =>
          LET times[n \in 0 .. 5] == IF n = 0 THEN Dec(1, 0) ELSE Mul(times[n - 1], balance)
          IN \A n \in 0 .. 5 : Cmp(Pow(balance, n), times[n]) = 0
=============================================================================
