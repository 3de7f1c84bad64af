---------------------------- MODULE DecimalProofs ----------------------------
(***************************************************************************)
(* Decimals of any size and scale.  Powers of ten are a recursive function *)
(* whose laws are proved by induction; the induction is the least element  *)
(* of the set of counterexamples.                                          *)
(***************************************************************************)
EXTENDS Library, Sequences, WellFoundedInduction, TLAPS

-----------------------------------------------------------------------------
(* Powers of ten                                                           *)

LEMMA Induct ==
    ASSUME NEW A, 0 \in A, \A n \in Nat : n \in A => n + 1 \in A
    PROVE  \A n \in Nat : n \in A
<1> DEFINE B == Nat \ A
<1> SUFFICES ASSUME B # {} PROVE FALSE
  OBVIOUS
<1>1. PICK x \in B : \A y \in B : ~ (<<y, x>> \in OpToRel(<, Nat))
  <2>1. B \subseteq Nat
    OBVIOUS
  <2>. HIDE DEF B
  <2>. QED BY <2>1, NatLessThanWellFounded, WFMin
<1>2. \A y \in B : ~(y < x)
  BY <1>1 DEF OpToRel
<1>3. x - 1 \in Nat /\ x - 1 < x /\ x = (x - 1) + 1
  OBVIOUS
<1>. QED BY <1>2, <1>3

\* The first powers of b, as a table.
Table(b, n) == {g \in [0 .. n -> Nat] : g[0] = 1 /\ \A i \in 1 .. n : g[i] = b * g[i - 1]}

LEMMA TableExists == ASSUME NEW b \in Nat PROVE \A n \in Nat : Table(b, n) # {}
<1> DEFINE A == {n \in Nat : Table(b, n) # {}}
<1>1. 0 \in A
  <2>1. [i \in 0 .. 0 |-> 1] \in Table(b, 0)
    BY DEF Table
  <2>. QED BY <2>1
<1>2. ASSUME NEW n \in Nat, n \in A PROVE n + 1 \in A
  <2>1. PICK g : g \in Table(b, n)
    BY <1>2
  <2>2. g \in [0 .. n -> Nat] /\ g[0] = 1 /\ \A i \in 1 .. n : g[i] = b * g[i - 1]
    BY <2>1 DEF Table
  <2>3. PICK c \in Nat : c = b * g[n]
    <3>1. g[n] \in Nat
      BY <2>2
    <3>. QED BY <3>1
  <2> DEFINE h == [i \in 0 .. n + 1 |-> IF i <= n THEN g[i] ELSE c]
  <2>4. h \in [0 .. n + 1 -> Nat] /\ h[0] = 1
    BY <2>2
  <2>5. ASSUME NEW i \in 1 .. n + 1 PROVE h[i] = b * h[i - 1]
    <3>1. CASE i \in 1 .. n
      <4>1. h[i] = g[i] /\ h[i - 1] = g[i - 1] /\ g[i] = b * g[i - 1]
        BY <2>2, <3>1
      <4>. QED BY <4>1, Zenon
    <3>2. CASE i = n + 1
      <4>1. h[i] = c /\ h[i - 1] = g[n]
        BY <3>2
      <4>. QED BY <2>3, <4>1, Zenon
    <3>. QED BY <3>1, <3>2
  <2>6. h \in Table(b, n + 1)
    BY <2>4, <2>5, Zenon DEF Table
  <2>. QED BY <2>6
<1> HIDE DEF A
<1>3. \A n \in Nat : n \in A
  BY <1>1, <1>2, Induct
<1>. QED BY <1>3 DEF A

LEMMA TableUnique ==
    ASSUME NEW b \in Nat, NEW m \in Nat, NEW n \in Nat, NEW g \in Table(b, m), NEW h \in Table(b, n)
    PROVE  \A i \in Nat : i <= m /\ i <= n => g[i] = h[i]
<1> DEFINE A == {i \in Nat : i <= m /\ i <= n => g[i] = h[i]}
<1>1. 0 \in A
  BY DEF Table
<1>2. ASSUME NEW i \in Nat, i \in A PROVE i + 1 \in A
  <2> SUFFICES ASSUME i + 1 <= m, i + 1 <= n PROVE g[i + 1] = h[i + 1]
    OBVIOUS
  <2>1. i + 1 \in 1 .. m /\ i + 1 \in 1 .. n /\ (i + 1) - 1 = i /\ g[i] = h[i]
    BY <1>2
  <2>2. g[i + 1] = b * g[(i + 1) - 1] /\ h[i + 1] = b * h[(i + 1) - 1]
    BY <2>1, Zenon DEF Table
  <2>. QED BY <2>1, <2>2, Zenon
<1> HIDE DEF A
<1>3. \A i \in Nat : i \in A
  BY <1>1, <1>2, Induct
<1>. QED BY <1>3 DEF A

\* A function that is its own recursion exists.
LEMMA PowersExist ==
    ASSUME NEW b \in Nat
    PROVE  \E g : g = [n \in Nat |-> IF n = 0 THEN 1 ELSE b * g[n - 1]]
<1> DEFINE t(n) == CHOOSE g : g \in Table(b, n)
           f == [n \in Nat |-> t(n)[n]]
<1>1. \A n \in Nat : t(n) \in Table(b, n)
  BY TableExists
<1>2. \A n \in Nat : f[n] = t(n)[n]
  OBVIOUS
<1> HIDE DEF t
<1>3. \A n \in Nat : f[n] = IF n = 0 THEN 1 ELSE b * f[n - 1]
  <2>1. f[0] = 1
    BY <1>1, <1>2 DEF Table
  <2>2. ASSUME NEW n \in Nat, n # 0 PROVE f[n] = b * f[n - 1]
    <3>1. n - 1 \in Nat /\ n \in 1 .. n /\ n - 1 <= n /\ n - 1 <= n - 1
      BY <2>2
    <3>2. t(n)[n] = b * t(n)[n - 1]
      BY <1>1, <3>1, Zenon DEF Table
    <3>3. t(n)[n - 1] = t(n - 1)[n - 1]
      BY <1>1, <3>1, TableUnique
    <3>. QED BY <1>2, <3>1, <3>2, <3>3, Zenon
  <2> HIDE DEF f
  <2>. QED BY <2>1, <2>2, Zenon
<1>4. f = [n \in Nat |-> IF n = 0 THEN 1 ELSE b * f[n - 1]]
  <2>1. f = [n \in Nat |-> f[n]]
    OBVIOUS
  <2> HIDE DEF f
  <2>. QED BY <1>3, <2>1, Zenon
<1> HIDE DEF f
<1>. QED BY <1>4, Zenon

\* Ten, Five and Two meet the equations they are defined by.
LEMMA TenIs == L!Ten = [n \in Nat |-> IF n = 0 THEN 1 ELSE 10 * L!Ten[n - 1]]
<1>1. \E g : g = [n \in Nat |-> IF n = 0 THEN 1 ELSE 10 * g[n - 1]]
  BY PowersExist
<1>. QED BY <1>1 DEF L!Ten

LEMMA FiveIs == L!Five = [n \in Nat |-> IF n = 0 THEN 1 ELSE 5 * L!Five[n - 1]]
<1>1. \E g : g = [n \in Nat |-> IF n = 0 THEN 1 ELSE 5 * g[n - 1]]
  BY PowersExist
<1>. QED BY <1>1 DEF L!Five

LEMMA TwoIs == L!Two = [n \in Nat |-> IF n = 0 THEN 1 ELSE 2 * L!Two[n - 1]]
<1>1. \E g : g = [n \in Nat |-> IF n = 0 THEN 1 ELSE 2 * g[n - 1]]
  BY PowersExist
<1>. QED BY <1>1 DEF L!Two

LEMMA TenSteps == L!Ten[0] = 1 /\ \A n \in Nat : L!Ten[n + 1] = 10 * L!Ten[n]
<1>1. \A n \in Nat : L!Ten[n] = IF n = 0 THEN 1 ELSE 10 * L!Ten[n - 1]
  BY TenIs
<1>. QED BY <1>1

LEMMA TenType == \A n \in Nat : L!Ten[n] \in Nat \ {0}
<1> DEFINE A == {n \in Nat : L!Ten[n] \in Nat \ {0}}
<1>1. 0 \in A
  BY TenSteps
<1>2. ASSUME NEW n \in Nat, n \in A PROVE n + 1 \in A
  BY <1>2, TenSteps
<1> HIDE DEF A
<1>3. \A n \in Nat : n \in A
  BY <1>1, <1>2, Induct
<1>. QED BY <1>3 DEF A

LEMMA TenSum == ASSUME NEW m \in Nat, NEW n \in Nat PROVE L!Ten[m + n] = L!Ten[m] * L!Ten[n]
<1> DEFINE A == {k \in Nat : L!Ten[m + k] = L!Ten[m] * L!Ten[k]}
<1>1. 0 \in A
  BY TenSteps, TenType
<1>2. ASSUME NEW k \in Nat, k \in A PROVE k + 1 \in A
  <2>1. PICK x, y \in Nat : x = L!Ten[m] /\ y = L!Ten[k] /\ L!Ten[m + k] = x * y
    BY <1>2, TenType
  <2>2. L!Ten[k + 1] = 10 * y /\ L!Ten[m + (k + 1)] = 10 * (x * y)
    <3>1. m + k \in Nat /\ m + (k + 1) = (m + k) + 1
      OBVIOUS
    <3>. QED BY <2>1, <3>1, TenSteps
  <2>3. 10 * (x * y) = x * (10 * y)
    OBVIOUS
  <2>. QED BY <2>1, <2>2, <2>3
<1> HIDE DEF A
<1>3. \A k \in Nat : k \in A
  BY <1>1, <1>2, Induct
<1>. QED BY <1>3 DEF A

-----------------------------------------------------------------------------
(* Sums, and the exact value                                               *)

LEMMA Consts == DivisionPrecision \in Nat /\ Scale \in Nat
  BY LibraryAssumption DEF L!LedgerAssumption

\* A number, and one that is a multiple of 10^-Scale.
IsDec(d)  == d.v \in Int /\ d.e \in Int
IsUnit(d) == IsDec(d) /\ d.e + Scale >= 0

LEMMA AmountsAreUnits == \A a \in Amounts : IsUnit(a)
  BY LibraryAssumption DEF L!LedgerAssumption, IsUnit, IsDec

LEMMA DecFields == \A v, e : L!Dec(v, e).v = v /\ L!Dec(v, e).e = e
  BY DEF L!Dec

LEMMA UnitsType == ASSUME NEW d, IsUnit(d) PROVE L!Units(d) \in Int
<1>1. PICK t \in Nat : t = L!Ten[d.e + Scale]
  BY Consts, TenType DEF IsUnit, IsDec
<1>. QED BY <1>1 DEF IsUnit, IsDec, L!Units

\* To a smaller exponent nothing is lost.
LEMMA RescaleDown ==
    ASSUME NEW d, IsDec(d), NEW exp \in Int, exp <= d.e
    PROVE  /\ L!rescale(d, exp).e = exp
           /\ L!rescale(d, exp).v = d.v * L!Ten[d.e - exp]
           /\ L!rescale(d, exp).v \in Int
           /\ exp + Scale >= 0 => L!rescale(d, exp).v * L!Ten[exp + Scale] = L!Units(d)
<1>1. d.v \in Int /\ d.e \in Int /\ d.e - exp \in Nat /\ ~(exp > d.e)
  BY DEF IsDec
<1>2. L!rescale(d, exp).e = exp /\ L!rescale(d, exp).v = d.v * L!Ten[d.e - exp]
  BY <1>1, DecFields DEF L!rescale
<1>3. PICK t \in Nat : t = L!Ten[d.e - exp]
  BY <1>1, TenType
<1>4. ASSUME exp + Scale >= 0
      PROVE  (d.v * L!Ten[d.e - exp]) * L!Ten[exp + Scale] = L!Units(d)
  <2>1. exp + Scale \in Nat /\ (d.e - exp) + (exp + Scale) = d.e + Scale
    BY <1>1, <1>4, Consts
  <2>2. L!Ten[d.e + Scale] = L!Ten[d.e - exp] * L!Ten[exp + Scale]
    BY <1>1, <2>1, TenSum
  <2>3. PICK u \in Nat : u = L!Ten[exp + Scale]
    BY <2>1, TenType
  <2>4. \A v \in Int : (v * t) * u = v * (t * u)
    OBVIOUS
  <2>. QED BY <1>1, <1>3, <2>2, <2>3, <2>4 DEF L!Units
<1>. QED BY <1>1, <1>2, <1>3, <1>4

LEMMA LowerOf ==
    ASSUME NEW x \in Int, NEW y \in Int
    PROVE  L!Lower(x, y) \in {x, y} /\ L!Lower(x, y) <= x /\ L!Lower(x, y) <= y
  BY DEF L!Lower

LEMMA UnitsOfSum ==
    ASSUME NEW d, NEW d2, IsUnit(d), IsUnit(d2)
    PROVE  /\ IsUnit(L!Add(d, d2)) /\ L!Units(L!Add(d, d2)) = L!Units(d) + L!Units(d2)
           /\ IsUnit(L!Sub(d, d2)) /\ L!Units(L!Sub(d, d2)) = L!Units(d) - L!Units(d2)
<1>1. PICK b \in Int : b = L!Lower(d.e, d2.e) /\ b <= d.e /\ b <= d2.e /\ b + Scale >= 0
  BY LowerOf, Consts DEF IsUnit, IsDec
<1>2. PICK v \in Int : v = L!rescale(d, b).v /\ v * L!Ten[b + Scale] = L!Units(d)
  BY <1>1, RescaleDown DEF IsUnit
<1>3. PICK v2 \in Int : v2 = L!rescale(d2, b).v /\ v2 * L!Ten[b + Scale] = L!Units(d2)
  BY <1>1, RescaleDown DEF IsUnit
<1>4. L!Add(d, d2) = L!Dec(v + v2, b) /\ L!Sub(d, d2) = L!Dec(v - v2, b)
  BY <1>1, <1>2, <1>3 DEF L!Add, L!Sub
<1>5. PICK t \in Nat : t = L!Ten[b + Scale]
  BY <1>1, Consts, TenType
<1>6. (v + v2) * t = v * t + v2 * t /\ (v - v2) * t = v * t - v2 * t
  OBVIOUS
<1>7. L!Units(L!Add(d, d2)) = (v + v2) * t /\ L!Units(L!Sub(d, d2)) = (v - v2) * t
  BY <1>4, <1>5, DecFields DEF L!Units
<1>8. IsUnit(L!Add(d, d2)) /\ IsUnit(L!Sub(d, d2))
  BY <1>1, <1>4, DecFields DEF IsUnit, IsDec
<1>. QED BY <1>2, <1>3, <1>5, <1>6, <1>7, <1>8

LEMMA UnitsOfNeg ==
    ASSUME NEW d, IsUnit(d)
    PROVE  IsUnit(L!Neg(d)) /\ L!Units(L!Neg(d)) = -L!Units(d)
<1>1. PICK t \in Nat : t = L!Ten[d.e + Scale]
  BY Consts, TenType DEF IsUnit, IsDec
<1>2. \A v \in Int : (-v) * t = -(v * t)
  OBVIOUS
<1>. QED BY <1>1, <1>2, DecFields DEF L!Neg, L!Units, IsUnit, IsDec

LEMMA UnitsOfShift ==
    ASSUME NEW d, IsUnit(d)
    PROVE  IsUnit(L!Shift(d, 1)) /\ L!Units(L!Shift(d, 1)) = 10 * L!Units(d)
<1>1. d.e + Scale \in Nat /\ (d.e + 1) + Scale = (d.e + Scale) + 1 /\ d.v \in Int
  BY Consts DEF IsUnit, IsDec
<1>2. PICK t \in Nat : t = L!Ten[d.e + Scale] /\ L!Ten[(d.e + 1) + Scale] = 10 * t
  BY <1>1, TenType, TenSteps
<1>3. \A v \in Int : v * (10 * t) = 10 * (v * t)
  OBVIOUS
<1>4. IsUnit(L!Shift(d, 1))
  BY Consts, DecFields DEF L!Shift, IsUnit, IsDec
<1>5. L!Units(L!Shift(d, 1)) = d.v * L!Ten[(d.e + 1) + Scale]
  BY DecFields DEF L!Shift, L!Units
<1>. QED BY <1>1, <1>2, <1>3, <1>4, <1>5 DEF L!Units

-----------------------------------------------------------------------------
(* A number as text, and back                                              *)

LEMMA DivMod ==
    ASSUME NEW a \in Int, NEW b \in Nat \ {0}
    PROVE  /\ a % b \in 0 .. b - 1 /\ a \div b \in Int /\ a = b * (a \div b) + (a % b)
           /\ a >= 0 => a \div b \in Nat
<1>1. a % b \in 0 .. b - 1 /\ a \div b \in Int /\ a = b * (a \div b) + (a % b)
  OBVIOUS
<1>2. \A q \in Int, r \in 0 .. b - 1 : b * q + r >= 0 => q >= 0
  <2>1. ASSUME NEW q \in Int, NEW r \in 0 .. b - 1, q <= -1 PROVE b * q + r < 0
    <3>1. PICK x \in Int : x = -q /\ x >= 1
      BY <2>1
    <3>2. b * x >= b /\ b * q = -(b * x)
      BY <3>1
    <3>. QED BY <3>2
  <2>. QED BY <2>1
<1>3. PICK q \in Int : q = a \div b
  BY <1>1
<1>4. PICK r \in 0 .. b - 1 : r = a % b
  BY <1>1
<1>. QED BY <1>1, <1>2, <1>3, <1>4

IsText(t) ==
    /\ DOMAIN t = {"neg", "int", "len", "frac", "sci"}
    /\ t.int \in Nat /\ t.len \in Nat /\ t.frac \in Nat /\ t.sci \in Int

\* The digits of a text, as one number.
Digits(t) == t.int * L!Ten[t.len] + t.frac

\* The place TrimZeros cuts at.
LEMMA TrimPlace ==
    ASSUME NEW t, IsText(t)
    PROVE  \E m \in 0 .. t.len :
              /\ t.frac % L!Ten[t.len - m] = 0
              /\ \A k \in 0 .. m - 1 : t.frac % L!Ten[t.len - k] # 0
<1>1. t.len \in Nat /\ t.frac \in Nat
  BY DEF IsText
<1> DEFINE A == {m \in Nat : \A j \in 0 .. m : j <= t.len => t.frac % L!Ten[t.len - j] # 0}
<1> SUFFICES ASSUME \A m \in 0 .. t.len : t.frac % L!Ten[t.len - m] = 0 =>
                       \E k \in 0 .. m - 1 : t.frac % L!Ten[t.len - k] = 0
             PROVE  FALSE
  OBVIOUS
<1>2. 0 \in A
  <2>1. ~ \E k \in 0 .. 0 - 1 : TRUE
    OBVIOUS
  <2>2. 0 \in 0 .. t.len
    BY <1>1
  <2>. QED BY <2>1, <2>2
<1>3. ASSUME NEW m \in Nat, m \in A PROVE m + 1 \in A
  <2>1. SUFFICES ASSUME m + 1 <= t.len, t.frac % L!Ten[t.len - (m + 1)] = 0 PROVE FALSE
    BY <1>3
  <2>2. PICK k \in 0 .. (m + 1) - 1 : t.frac % L!Ten[t.len - k] = 0
    BY <1>1, <2>1
  <2>. QED BY <1>1, <1>3, <2>1, <2>2
<1> HIDE DEF A
<1>4. t.len \in A
  BY <1>1, <1>2, <1>3, Induct
<1>5. t.frac % L!Ten[t.len - t.len] # 0
  BY <1>1, <1>4 DEF A
<1>6. t.frac % 1 = 0
  BY <1>1
<1>. QED BY <1>1, <1>5, <1>6, TenSteps

\* Cutting zeros off keeps the number.
LEMMA TrimKeeps ==
    ASSUME NEW t, IsText(t)
    PROVE  /\ IsText(L!TrimZeros(t)) /\ L!TrimZeros(t).len <= t.len
           /\ L!TrimZeros(t).neg = t.neg /\ L!TrimZeros(t).int = t.int /\ L!TrimZeros(t).sci = t.sci
           /\ Digits(t) = Digits(L!TrimZeros(t)) * L!Ten[t.len - L!TrimZeros(t).len]
           /\ t.frac < L!Ten[t.len] => L!TrimZeros(t).frac < L!Ten[L!TrimZeros(t).len]
<1> DEFINE P(m) == /\ t.frac % L!Ten[t.len - m] = 0
                   /\ \A k \in 0 .. m - 1 : t.frac % L!Ten[t.len - k] # 0
           m0 == CHOOSE m \in 0 .. t.len : P(m)
<1>1. t.len \in Nat /\ t.frac \in Nat /\ t.int \in Nat
  BY DEF IsText
<1>2. m0 \in 0 .. t.len /\ P(m0)
  BY TrimPlace
<1>3. L!TrimZeros(t) = [t EXCEPT !.len = m0, !.frac = t.frac \div L!Ten[t.len - m0]]
  BY DEF L!TrimZeros
<1>4. PICK m \in 0 .. t.len : m = m0 /\ t.frac % L!Ten[t.len - m] = 0
  BY <1>2
<1> HIDE DEF m0, P
<1>5. PICK x \in Nat \ {0} : x = L!Ten[t.len - m]
  BY <1>1, TenType
<1>6. PICK f \in Nat : f = t.frac \div x /\ t.frac = x * f
  <2>1. t.frac \div x \in Nat /\ t.frac = x * (t.frac \div x) + (t.frac % x)
    <3>1. \A a \in Nat : a \in Int /\ a >= 0
      OBVIOUS
    <3>. QED BY <1>1, <3>1, DivMod, Zenon
  <2>2. PICK f \in Nat : f = t.frac \div x
    BY <2>1
  <2>3. t.frac % x = 0
    BY <1>4, <1>5
  <2>4. t.frac = x * f + 0
    BY <2>1, <2>2, <2>3
  <2>5. x * f + 0 = x * f
    OBVIOUS
  <2>. QED BY <2>2, <2>4, <2>5
<1>7. L!TrimZeros(t) = [t EXCEPT !.len = m, !.frac = f]
  BY <1>3, <1>4, <1>5, <1>6
<1>8. /\ IsText(L!TrimZeros(t)) /\ L!TrimZeros(t).len = m /\ L!TrimZeros(t).frac = f
      /\ L!TrimZeros(t).neg = t.neg /\ L!TrimZeros(t).int = t.int /\ L!TrimZeros(t).sci = t.sci
  BY <1>1, <1>7 DEF IsText
<1>9. PICK y \in Nat \ {0} : y = L!Ten[m]
  BY <1>1, TenType
<1>10. L!Ten[t.len] = y * x
  <2>1. t.len = m + (t.len - m) /\ m \in Nat /\ t.len - m \in Nat
    BY <1>1
  <2>. QED BY <1>5, <1>9, <2>1, TenSum
<1>11. \A i \in Nat : i * (y * x) + x * f = (i * y + f) * x
  OBVIOUS
<1>12. x * f < y * x => f < y
  OBVIOUS
<1>13. Digits(t) = t.int * (y * x) + x * f /\ Digits(L!TrimZeros(t)) = t.int * y + f
  BY <1>6, <1>8, <1>9, <1>10 DEF Digits
<1>14. Digits(t) = Digits(L!TrimZeros(t)) * L!Ten[t.len - L!TrimZeros(t).len]
  BY <1>1, <1>5, <1>8, <1>11, <1>13
<1>15. t.frac < L!Ten[t.len] => L!TrimZeros(t).frac < L!Ten[L!TrimZeros(t).len]
  BY <1>6, <1>8, <1>9, <1>10, <1>12
<1>. QED BY <1>8, <1>14, <1>15

Signed(neg, n) == IF neg THEN -n ELSE n

\* The parser multiplies nothing away.
LEMMA ParseUnits ==
    ASSUME NEW t, IsText(t), t.sci = 0, t.len <= Scale
    PROVE  /\ IsUnit(L!NewFromString(t)) /\ L!NewFromString(t).e \in -t.len .. 0
           /\ Digits(t) \in Nat
           /\ L!Units(L!NewFromString(t)) = Signed(t.neg, Digits(t) * L!Ten[Scale - t.len])
<1>1. PICK u : u = L!TrimZeros(t)
  OBVIOUS
<1>2. /\ IsText(u) /\ u.len <= t.len /\ u.sci = 0
      /\ Digits(t) = Digits(u) * L!Ten[t.len - u.len]
  BY <1>1, TrimKeeps
<1>3. u.neg = t.neg
  BY <1>1, TrimKeeps
<1>4. u.len \in Nat /\ t.len \in Nat /\ u.frac \in Nat /\ u.int \in Nat
  BY <1>2 DEF IsText
<1>5. PICK n \in Nat : n = Digits(u)
  <2>1. PICK x \in Nat : x = L!Ten[u.len]
    BY <1>4, TenType
  <2>. QED BY <1>4, <2>1 DEF Digits
<1>6. PICK x \in Nat \ {0} : x = L!Ten[t.len - u.len]
  BY <1>2, <1>4, TenType
<1>7. PICK y \in Nat \ {0} : y = L!Ten[Scale - t.len]
  BY <1>4, Consts, TenType
<1>8. L!Ten[-u.len + Scale] = x * y
  <2>1. -u.len + Scale = (t.len - u.len) + (Scale - t.len) /\ t.len - u.len \in Nat /\ Scale - t.len \in Nat
    BY <1>2, <1>4, Consts
  <2>. QED BY <1>6, <1>7, <2>1, TenSum
<1>9. L!NewFromString(t) = L!Dec(IF u.neg THEN -n ELSE n, u.sci - u.len)
  BY <1>1, <1>5 DEF L!NewFromString, Digits
<1>10. PICK v \in Int : v = Signed(t.neg, n) /\ v = IF t.neg THEN -n ELSE n
  BY DEF Signed
<1>11. L!NewFromString(t).v = v /\ L!NewFromString(t).e = -u.len
  <2>1. L!NewFromString(t) = L!Dec(v, u.sci - u.len)
    BY <1>3, <1>9, <1>10
  <2>2. u.sci - u.len = -u.len
    BY <1>2, <1>4
  <2>. QED BY <2>1, <2>2, DecFields
<1>12. IsUnit(L!NewFromString(t)) /\ L!NewFromString(t).e \in -t.len .. 0
  BY <1>2, <1>4, <1>11, Consts DEF IsUnit, IsDec
<1>13. L!Units(L!NewFromString(t)) = v * (x * y)
  BY <1>8, <1>11 DEF L!Units
<1>14. (n * x) * y = n * (x * y) /\ (-n) * (x * y) = -((n * x) * y) /\ n * x \in Nat
  OBVIOUS
<1>15. v * (x * y) = Signed(t.neg, (n * x) * y)
  <2>1. CASE t.neg
    BY <1>10, <1>14, <2>1 DEF Signed
  <2>2. CASE ~t.neg
    BY <1>10, <1>14, <2>2 DEF Signed
  <2>. QED BY <2>1, <2>2
<1>. QED BY <1>2, <1>5, <1>6, <1>7, <1>12, <1>13, <1>14, <1>15

LEMMA MagnitudeIs ==
    ASSUME NEW n \in Int
    PROVE  L!Magnitude(n) \in Nat /\ n = Signed(n < 0, L!Magnitude(n))
  BY DEF L!Magnitude, Signed

\* The printer shows every digit.
LEMMA PrintDigits ==
    ASSUME NEW d, IsUnit(d), NEW trim
    PROVE  /\ IsText(L!ToText(d, trim)) /\ L!ToText(d, trim).sci = 0
           /\ L!ToText(d, trim).len <= Scale
           /\ L!ToText(d, trim).neg = (d.v < 0)
           /\ Digits(L!ToText(d, trim)) * L!Ten[Scale - L!ToText(d, trim).len]
                = L!Magnitude(d.v) * L!Ten[d.e + Scale]
           /\ ~trim => L!ToText(d, trim).len = IF d.e >= 0 THEN 0 ELSE -d.e
           /\ d.e >= 0 => L!ToText(d, trim).len = 0
<1>1. d.v \in Int /\ d.e \in Int /\ d.e + Scale \in Nat
  BY Consts DEF IsUnit, IsDec
<1>2. PICK n \in Nat : n = L!Magnitude(d.v)
  BY <1>1, MagnitudeIs
<1>3. CASE d.e >= 0
  <2>1. PICK x \in Nat \ {0} : x = L!Ten[d.e]
    BY <1>1, <1>3, TenType
  <2>2. PICK y \in Nat \ {0} : y = L!Ten[Scale]
    BY Consts, TenType
  <2>3. L!Ten[d.e + Scale] = x * y
    <3>1. d.e \in Nat
      BY <1>1, <1>3
    <3>. QED BY <3>1, <2>1, <2>2, Consts, TenSum
  <2>4. L!ToText(d, trim) = [neg |-> d.v < 0, int |-> n * x, len |-> 0, frac |-> 0, sci |-> 0]
    BY <1>2, <1>3, <2>1 DEF L!ToText
  <2>5. n * x \in Nat /\ (n * x) * 1 + 0 = n * x /\ (n * x) * y = n * (x * y)
    OBVIOUS
  <2>6. IsText(L!ToText(d, trim)) /\ L!ToText(d, trim).sci = 0 /\ L!ToText(d, trim).len = 0
    BY <2>4, <2>5 DEF IsText
  <2>7. Digits(L!ToText(d, trim)) = n * x
    BY <2>4, <2>5, TenSteps DEF Digits
  <2>8. L!ToText(d, trim).neg = (d.v < 0)
    <3>1. [neg |-> d.v < 0, int |-> n * x, len |-> 0, frac |-> 0, sci |-> 0].neg = (d.v < 0)
      BY Zenon
    <3>. QED BY <2>4, <3>1, Zenon
  <2>9. Scale - 0 = Scale
    BY Consts
  <2>. QED BY <1>2, <1>3, <2>2, <2>3, <2>5, <2>6, <2>7, <2>8, <2>9, Consts
<1>4. CASE ~(d.e >= 0)
  <2>1. PICK k \in Nat : k = -d.e /\ k <= Scale /\ d.e + Scale = Scale - k
    BY <1>1, <1>4, Consts
  <2>2. PICK x \in Nat \ {0} : x = L!Ten[k]
    BY TenType
  <2>3. PICK i \in Nat : i = n \div x
    BY DivMod
  <2>4. PICK f \in Nat : f = n % x
    BY DivMod
  <2>5. n = i * x + f
    <3>1. n = x * (n \div x) + (n % x)
      BY DivMod
    <3>2. x * i = i * x
      OBVIOUS
    <3>. QED BY <2>3, <2>4, <3>1, <3>2
  <2> DEFINE t == [neg |-> d.v < 0, int |-> i, len |-> k, frac |-> f, sci |-> 0]
  <2>6. IsText(t) /\ t.sci = 0 /\ t.len = k
    BY DEF IsText
  <2>7. t.neg = (d.v < 0)
    BY Zenon
  <2>8. Digits(t) = n
    BY <2>2, <2>5 DEF Digits
  <2>9. L!ToText(d, trim) = IF trim THEN L!TrimZeros(t) ELSE t
    BY <1>2, <1>4, <2>1, <2>2, <2>3, <2>4 DEF L!ToText
  <2> HIDE DEF t
  <2>10. CASE ~trim
    BY <1>2, <1>4, <2>1, <2>6, <2>7, <2>8, <2>9, <2>10
  <2>11. CASE trim
    <3>1. PICK u : u = L!TrimZeros(t)
      OBVIOUS
    <3>2. /\ IsText(u) /\ u.len <= t.len /\ u.sci = 0
          /\ Digits(t) = Digits(u) * L!Ten[t.len - u.len]
      BY <2>6, <3>1, TrimKeeps
    <3>3. u.neg = t.neg
      BY <2>6, <3>1, TrimKeeps
    <3>4. u.len \in Nat /\ u.int \in Nat /\ u.frac \in Nat
      BY <3>2 DEF IsText
    <3>5. PICK z \in Nat : z = Digits(u)
      <4>1. PICK w \in Nat : w = L!Ten[u.len]
        BY <3>4, TenType
      <4>. QED BY <3>4, <4>1 DEF Digits
    <3>6. PICK a \in Nat \ {0} : a = L!Ten[k - u.len]
      BY <2>6, <3>2, <3>4, TenType
    <3>7. PICK b \in Nat \ {0} : b = L!Ten[Scale - k]
      BY <2>1, Consts, TenType
    <3>8. L!Ten[Scale - u.len] = a * b
      <4>1. Scale - u.len = (k - u.len) + (Scale - k) /\ k - u.len \in Nat /\ Scale - k \in Nat
        BY <2>1, <2>6, <3>2, <3>4, Consts
      <4>. QED BY <3>6, <3>7, <4>1, TenSum
    <3>9. n = z * a
      BY <2>6, <2>8, <3>2, <3>5, <3>6
    <3>10. (z * a) * b = z * (a * b)
      OBVIOUS
    <3>11. L!ToText(d, trim) = u
      BY <2>9, <2>11, <3>1
    <3>12. Digits(u) * L!Ten[Scale - u.len] = L!Magnitude(d.v) * L!Ten[d.e + Scale]
      BY <1>2, <2>1, <3>5, <3>7, <3>8, <3>9, <3>10
    <3>13. u.len <= Scale
      BY <2>1, <2>6, <3>2, <3>4, Consts
    <3>. QED BY <1>4, <2>7, <2>11, <3>2, <3>3, <3>11, <3>12, <3>13
  <2>. QED BY <2>10, <2>11
<1>. QED BY <1>3, <1>4

\* Scan of what Value wrote.
LEMMA UnitsOfScan ==
    ASSUME NEW d, IsUnit(d), NEW trim
    PROVE  /\ IsUnit(L!NewFromString(L!ToText(d, trim)))
           /\ L!Units(L!NewFromString(L!ToText(d, trim))) = L!Units(d)
<1>1. PICK t : t = L!ToText(d, trim)
  OBVIOUS
<1>2. /\ IsText(t) /\ t.sci = 0 /\ t.len <= Scale
      /\ Digits(t) * L!Ten[Scale - t.len] = L!Magnitude(d.v) * L!Ten[d.e + Scale]
  BY <1>1, PrintDigits
<1>3. t.neg = (d.v < 0)
  BY <1>1, PrintDigits
<1>4. IsUnit(L!NewFromString(t))
  BY <1>2, ParseUnits
<1>5. L!Units(L!NewFromString(t)) = Signed(t.neg, Digits(t) * L!Ten[Scale - t.len])
  BY <1>2, ParseUnits
<1>6. PICK n \in Nat : n = L!Magnitude(d.v) /\ d.v = IF d.v < 0 THEN -n ELSE n
  BY DEF IsUnit, IsDec, L!Magnitude
<1>7. PICK x \in Nat : x = L!Ten[d.e + Scale]
  BY Consts, TenType DEF IsUnit, IsDec
<1>8. L!Units(L!NewFromString(t)) = IF d.v < 0 THEN -(n * x) ELSE n * x
  BY <1>2, <1>3, <1>5, <1>6, <1>7 DEF Signed
<1>9. (-n) * x = -(n * x)
  OBVIOUS
<1>. QED BY <1>1, <1>4, <1>6, <1>7, <1>8, <1>9 DEF L!Units

-----------------------------------------------------------------------------
(* The balance is exact                                                    *)

EInv == IsUnit(balance) /\ L!Exact

LEMMA EInvInit == AllInit => EInv
<1> SUFFICES ASSUME AllInit PROVE EInv
  OBVIOUS
<1>1. balance = L!Dec(0, 1) /\ exact = 0
  BY DEF AllInit, L!Init
<1>2. PICK x \in Nat : x = L!Ten[1 + Scale]
  BY Consts, TenType
<1>. QED BY <1>1, <1>2, Consts, DecFields DEF EInv, L!Exact, L!Units, IsUnit, IsDec

LEMMA EInvKeep ==
    ASSUME NEW d, NEW n, IsUnit(d), L!Units(d) = n, L!Keep(d, n)
    PROVE  EInv'
  BY DEF L!Keep, EInv, L!Exact, L!Units, IsUnit, IsDec

LEMMA EInvStep == EInv /\ L!Next => EInv'
<1> SUFFICES ASSUME EInv, L!Next PROVE EInv'
  OBVIOUS
<1>0. IsUnit(balance) /\ L!Units(balance) = exact
  BY DEF EInv, L!Exact
<1>1. ASSUME NEW a \in Amounts, L!Deposit(a) PROVE EInv'
  <2>1. IsUnit(a)
    BY AmountsAreUnits
  <2>2. IsUnit(L!Add(balance, a)) /\ L!Units(L!Add(balance, a)) = exact + L!Units(a)
    BY <1>0, <2>1, UnitsOfSum
  <2>. QED BY <1>1, <2>2, EInvKeep DEF L!Deposit
<1>2. ASSUME NEW a \in Amounts, L!Withdraw(a) PROVE EInv'
  <2>1. IsUnit(a)
    BY AmountsAreUnits
  <2>2. IsUnit(L!Sub(balance, a)) /\ L!Units(L!Sub(balance, a)) = exact - L!Units(a)
    BY <1>0, <2>1, UnitsOfSum
  <2>. QED BY <1>2, <2>2, EInvKeep DEF L!Withdraw
<1>3. CASE L!Negate
  BY <1>0, <1>3, UnitsOfNeg, EInvKeep DEF L!Negate
<1>4. CASE L!MovePoint
  BY <1>0, <1>4, UnitsOfShift, EInvKeep DEF L!MovePoint
<1>5. CASE L!Scan
  BY <1>0, <1>5, UnitsOfScan, EInvKeep DEF L!Scan
<1>. QED BY <1>1, <1>2, <1>3, <1>4, <1>5 DEF L!Next

LEMMA EInvAlways == AllSpec => []EInv
<1>1. EInv /\ [AllNext]_AllVars => EInv'
  <2> SUFFICES ASSUME EInv, [AllNext]_AllVars PROVE EInv'
    OBVIOUS
  <2>1. CASE L!Next
    BY <2>1, EInvStep
  <2>2. CASE UNCHANGED sumVars
    BY <2>2 DEF sumVars, EInv, L!Exact, L!Units, IsUnit, IsDec
  <2>. QED BY <2>1, <2>2 DEF AllNext, AllVars
<1>. QED BY <1>1, EInvInit, PTL DEF AllSpec

\* Add, Sub, Neg, Shift, String and Scan of pkg/util/decimal.go: after any
\* sequence of them, with amounts of any size and scale, the balance is the
\* exact sum.
THEOREM SumsAreExact == AllSpec => []Exact
<1>1. EInv => Exact
  BY DEF EInv, Exact
<1>. QED BY <1>1, EInvAlways, PTL

-----------------------------------------------------------------------------
(* Comparisons                                                             *)

LEMMA Scaled ==
    ASSUME NEW a \in Int, NEW b \in Int, NEW t \in Nat \ {0}
    PROVE  (a < b <=> a * t < b * t) /\ (a = b <=> a * t = b * t) /\ (a <= b <=> a * t <= b * t)
<1>1. ASSUME NEW x \in Int, NEW y \in Int, x < y PROVE x * t < y * t
  <2>1. PICK z \in Nat \ {0} : y = x + z
    <3>1. y - x \in Nat \ {0} /\ y = x + (y - x)
      BY <1>1
    <3>. QED BY <3>1
  <2>2. (x + z) * t = x * t + z * t /\ z * t > 0
    OBVIOUS
  <2>. QED BY <2>1, <2>2
<1>2. PICK x \in Int : x = a * t
  OBVIOUS
<1>3. PICK y \in Int : y = b * t
  OBVIOUS
<1>4. (a < b => x < y) /\ (b < a => y < x) /\ (a = b => x = y)
  BY <1>1, <1>2, <1>3
<1>. QED BY <1>2, <1>3, <1>4

LEMMA ScaleFits ==
    /\ Scale \in Nat /\ Scale >= 4 /\ DivisionPrecision \in Nat /\ DivisionPrecision >= 2
    /\ Scale - DivisionPrecision >= 2
  BY LibraryAssumption DEF L!LedgerAssumption

\* Cmp compares the exact values.
LEMMA CmpUnits ==
    ASSUME NEW d, NEW d2, IsUnit(d), IsUnit(d2)
    PROVE  /\ L!Cmp(d, d2) = 0 <=> L!Units(d) = L!Units(d2)
           /\ L!Cmp(d, d2) < 0 <=> L!Units(d) < L!Units(d2)
           /\ L!Cmp(d, d2) > 0 <=> L!Units(d) > L!Units(d2)
           /\ L!Cmp(d, d2) \in {-1, 0, 1}
<1>1. PICK b \in Int : b = L!Lower(d.e, d2.e) /\ b <= d.e /\ b <= d2.e /\ b + Scale >= 0
  BY LowerOf, Consts DEF IsUnit, IsDec
<1>2. PICK v \in Int : v = L!rescale(d, b).v /\ v * L!Ten[b + Scale] = L!Units(d)
  BY <1>1, RescaleDown DEF IsUnit
<1>3. PICK v2 \in Int : v2 = L!rescale(d2, b).v /\ v2 * L!Ten[b + Scale] = L!Units(d2)
  BY <1>1, RescaleDown DEF IsUnit
<1>4. PICK t \in Nat \ {0} : t = L!Ten[b + Scale]
  BY <1>1, Consts, TenType
<1>5. L!Cmp(d, d2) = IF v - v2 < 0 THEN -1 ELSE IF v - v2 = 0 THEN 0 ELSE 1
  BY <1>1, <1>2, <1>3, DecFields DEF L!Cmp, L!Sign
<1>6. PICK x \in Int : x = L!Units(d) /\ x = v * t
  BY <1>2, <1>4
<1>7. PICK y \in Int : y = L!Units(d2) /\ y = v2 * t
  BY <1>3, <1>4
<1>8. (v < v2 <=> x < y) /\ (v = v2 <=> x = y)
  BY <1>6, <1>7, Scaled
<1>. QED BY <1>5, <1>6, <1>7, <1>8

LEMMA UnitsOfAbs ==
    ASSUME NEW d, IsUnit(d)
    PROVE  /\ IsUnit(L!Abs(d)) /\ L!Abs(d).e = d.e
           /\ L!Units(L!Abs(d)) = L!Magnitude(L!Units(d))
<1>1. PICK t \in Nat \ {0} : t = L!Ten[d.e + Scale]
  BY Consts, TenType DEF IsUnit, IsDec
<1>2. PICK v \in Int : v = d.v
  BY DEF IsUnit, IsDec
<1>3. PICK u \in Int : u = v * t /\ u = L!Units(d)
  BY <1>1, <1>2 DEF L!Units
<1>4. u < 0 <=> v < 0
  <2>1. 0 * t = 0
    OBVIOUS
  <2>. QED BY <1>3, <2>1, Scaled
<1>5. (-v) * t = -u
  BY <1>3
<1>6. L!Abs(d).v = (IF v < 0 THEN -v ELSE v) /\ L!Abs(d).e = d.e
  BY <1>2, DecFields DEF L!Abs, L!Magnitude
<1>7. L!Units(L!Abs(d)) = (IF v < 0 THEN -v ELSE v) * t
  BY <1>1, <1>6 DEF L!Units
<1>8. L!Units(L!Abs(d)) = IF v < 0 THEN -u ELSE u
  BY <1>3, <1>5, <1>7
<1>9. IsUnit(L!Abs(d))
  BY <1>6 DEF IsUnit, IsDec
<1>. QED BY <1>3, <1>4, <1>6, <1>8, <1>9 DEF L!Magnitude

\* A number of k steps of 10^-p.
LEMMA UnitsOfDec ==
    ASSUME NEW k \in Int, NEW p \in Int, p + Scale >= 0
    PROVE  IsUnit(L!Dec(k, p)) /\ L!Units(L!Dec(k, p)) = k * L!Ten[p + Scale]
  BY DecFields DEF IsUnit, IsDec, L!Units

\* The text of a number is the number.
LEMMA TextsAreFaithful ==
    ASSUME NEW d, IsUnit(d), NEW trim
    PROVE  L!Cmp(L!NewFromString(L!ToText(d, trim)), d) = 0
  BY UnitsOfScan, CmpUnits

-----------------------------------------------------------------------------
(* Rounding                                                                *)

LEMMA QuoIs ==
    ASSUME NEW a \in Int, NEW b \in Int \ {0}
    PROVE  \E k \in Nat, r \in Nat :
              /\ r < L!Magnitude(b) /\ L!Magnitude(a) = L!Magnitude(b) * k + r
              /\ L!Quo(a, b) = IF (a < 0) = (b < 0) THEN k ELSE -k
<1>1. PICK x \in Nat : x = L!Magnitude(a)
  BY MagnitudeIs
<1>2. PICK y \in Nat \ {0} : y = L!Magnitude(b)
  BY DEF L!Magnitude
<1>3. PICK k \in Nat : k = x \div y
  BY DivMod
<1>4. PICK r \in Nat : r = x % y /\ r < y
  BY DivMod
<1>5. x = y * k + r
  <2>1. x \in Int
    OBVIOUS
  <2>. QED BY <1>3, <1>4, <2>1, DivMod
<1>6. L!Quo(a, b) = IF (a < 0) = (b < 0) THEN k ELSE -k
  BY <1>1, <1>2, <1>3, Zenon DEF L!Quo
<1>. QED BY <1>1, <1>2, <1>4, <1>5, <1>6

\* The sign of a number is that of its coefficient.
LEMMA SignOf ==
    ASSUME NEW d, IsUnit(d)
    PROVE  \E n \in Nat : /\ L!Magnitude(L!Units(d)) = n /\ L!Units(d) = IF d.v < 0 THEN -n ELSE n
                          /\ L!Magnitude(d.v) * L!Ten[d.e + Scale] = n
                          /\ (d.v = 0 <=> n = 0)
<1>1. PICK t \in Nat \ {0} : t = L!Ten[d.e + Scale]
  BY Consts, TenType DEF IsUnit, IsDec
<1>2. PICK v \in Int : v = d.v
  BY DEF IsUnit, IsDec
<1>3. PICK w \in Nat : w = L!Magnitude(v) /\ v = IF v < 0 THEN -w ELSE w
  BY DEF L!Magnitude
<1>4. PICK n \in Nat : n = w * t
  OBVIOUS
<1>5. (-w) * t = -n /\ (w = 0 <=> n = 0)
  BY <1>4
<1>6. L!Units(d) = v * t
  BY <1>1, <1>2 DEF L!Units
<1>7. L!Units(d) = IF v < 0 THEN -n ELSE n
  BY <1>3, <1>4, <1>5, <1>6
<1>8. v < 0 => n > 0
  BY <1>3, <1>5
<1>. QED BY <1>1, <1>2, <1>3, <1>4, <1>5, <1>7, <1>8 DEF L!Magnitude

\* With one digit more than asked for: so many whole steps W, and a part f of one.
LEMMA OneDigitMore ==
    ASSUME NEW d, IsUnit(d), NEW p \in Int, p + 1 <= Scale
    PROVE  \E W \in Nat \ {0}, q \in Nat, f \in Nat :
              /\ f < W /\ L!Ten[Scale - p] = 10 * W
              /\ L!Magnitude(L!Units(d)) = q * W + f
              /\ L!rescale(d, -p - 1).v = IF d.v < 0 THEN -q ELSE q
<1>1. PICK v \in Int : v = d.v
  BY DEF IsUnit, IsDec
<1>2. PICK e \in Int : e = d.e /\ e + Scale >= 0
  BY DEF IsUnit, IsDec
<1>3. PICK exp \in Int : exp = -p - 1 /\ exp + Scale >= 0 /\ Scale - p = (exp + Scale) + 1
  BY Consts
<1>4. PICK W \in Nat \ {0} : W = L!Ten[exp + Scale] /\ L!Ten[Scale - p] = 10 * W
  <2>1. exp + Scale \in Nat
    BY <1>3, Consts
  <2>. QED BY <1>3, <2>1, TenType, TenSteps
<1>5. PICK N \in Nat : N = L!Magnitude(L!Units(d)) /\ N = L!Magnitude(v) * L!Ten[e + Scale]
  BY <1>1, <1>2, SignOf
<1>6. PICK w \in Nat : w = L!Magnitude(v) /\ v = IF v < 0 THEN -w ELSE w
  BY DEF L!Magnitude
<1>7. CASE exp > e
  <2>1. PICK x \in Nat \ {0} : x = L!Ten[exp - e]
    BY <1>7, TenType
  <2>2. PICK u \in Nat \ {0} : u = L!Ten[e + Scale]
    BY <1>2, Consts, TenType
  <2>3. W = x * u
    <3>1. exp - e \in Nat /\ e + Scale \in Nat /\ exp + Scale = (exp - e) + (e + Scale)
      BY <1>2, <1>7, Consts
    <3>2. L!Ten[(exp - e) + (e + Scale)] = L!Ten[exp - e] * L!Ten[e + Scale]
      BY <3>1, TenSum
    <3>. QED BY <1>4, <2>1, <2>2, <3>1, <3>2
  <2>4. PICK k \in Nat, r \in Nat : /\ r < x /\ w = x * k + r
                                    /\ L!Quo(v, x) = IF v < 0 THEN -k ELSE k
    <3>1. x \in Int \ {0} /\ L!Magnitude(x) = x /\ ~(x < 0)
      BY DEF L!Magnitude
    <3>2. PICK k \in Nat, r \in Nat :
              /\ r < L!Magnitude(x) /\ L!Magnitude(v) = L!Magnitude(x) * k + r
              /\ L!Quo(v, x) = IF (v < 0) = (x < 0) THEN k ELSE -k
      BY <3>1, QuoIs
    <3>3. L!Quo(v, x) = IF v < 0 THEN -k ELSE k
      BY <3>1, <3>2
    <3>. QED BY <1>6, <3>1, <3>2, <3>3
  <2>5. L!rescale(d, exp).v = IF v < 0 THEN -k ELSE k
    BY <1>1, <1>2, <1>7, <2>1, <2>4, DecFields DEF L!rescale
  <2>6. PICK f \in Nat : f = r * u
    OBVIOUS
  <2>7. f < W
    BY <2>3, <2>4, <2>6, Scaled
  <2>8. (x * k + r) * u = k * (x * u) + r * u
    OBVIOUS
  <2>9. N = k * W + f
    BY <1>5, <1>6, <2>2, <2>3, <2>4, <2>6, <2>8
  <2>. QED BY <1>1, <1>3, <1>4, <1>5, <2>5, <2>7, <2>9
<1>8. CASE ~(exp > e)
  <2>1. PICK x \in Nat \ {0} : x = L!Ten[e - exp]
    BY <1>8, TenType
  <2>2. L!rescale(d, exp).v = v * x /\ (v * x) * W = L!Units(d)
    <3>1. IsDec(d) /\ exp <= d.e
      BY <1>2, <1>8 DEF IsUnit
    <3>. QED BY <1>1, <1>2, <1>3, <1>4, <2>1, <3>1, RescaleDown
  <2>3. PICK q \in Nat : q = w * x
    OBVIOUS
  <2>4. (-w) * x = -q /\ (-q) * W = -(q * W) /\ q * W \in Nat
    BY <2>3
  <2>5. v * x = IF v < 0 THEN -q ELSE q
    BY <1>6, <2>3, <2>4
  <2>6. L!Units(d) = IF v < 0 THEN -(q * W) ELSE q * W
    BY <2>2, <2>4, <2>5
  <2>7. v < 0 => q * W > 0
    <3>1. v < 0 => w # 0
      BY <1>6
    <3>2. w # 0 => q # 0
      BY <2>3
    <3>3. q # 0 => q * W # 0
      OBVIOUS
    <3>. QED BY <2>4, <3>1, <3>2, <3>3
  <2>8. L!Magnitude(L!Units(d)) = q * W
    BY <2>4, <2>6, <2>7 DEF L!Magnitude
  <2>9. 0 < W /\ q * W = q * W + 0
    BY <2>4
  <2>. QED BY <1>1, <1>3, <1>4, <2>2, <2>5, <2>8, <2>9
<1>. QED BY <1>7, <1>8

\* m steps are the nearest to N, with a tie away from zero.
Closest(N, m, step) ==
    /\ 2 * L!Magnitude(m * step - N) <= step
    /\ 2 * L!Magnitude(m * step - N) = step => m * step > N

LEMMA RoundIs ==
    ASSUME NEW d, IsUnit(d), NEW p \in Int, p + 1 <= Scale
    PROVE  \E N \in Nat, m \in Nat, step \in Nat \ {0} :
              /\ step = L!Ten[Scale - p]
              /\ L!Units(d) = (IF d.v < 0 THEN -N ELSE N) /\ (d.v = 0 <=> N = 0)
              /\ L!Round(d, p) = L!Dec(IF d.v < 0 THEN -m ELSE m, -p)
              /\ Closest(N, m, step)
<1>1. PICK W \in Nat \ {0}, q \in Nat, f \in Nat :
              /\ f < W /\ L!Ten[Scale - p] = 10 * W
              /\ L!Magnitude(L!Units(d)) = q * W + f
              /\ L!rescale(d, -p - 1).v = IF d.v < 0 THEN -q ELSE q
  BY OneDigitMore
<1>2. PICK N \in Nat : /\ N = L!Magnitude(L!Units(d)) /\ L!Units(d) = (IF d.v < 0 THEN -N ELSE N)
                       /\ (d.v = 0 <=> N = 0)
  BY SignOf
<1>3. PICK m \in Nat : m = (q + 5) \div 10 /\ 10 * m <= q + 5 /\ q + 5 < 10 * m + 10
  OBVIOUS
<1>4. L!Round(d, p) = L!Dec(IF d.v < 0 THEN -m ELSE m, -p)
  <2>1. PICK v \in Int : v = IF d.v < 0 THEN -q ELSE q
    OBVIOUS
  <2> DEFINE half == IF v < 0 THEN v - 5 ELSE v + 5
             z == half \div 10
             n == IF z < 0 /\ half % 10 # 0 THEN z + 1 ELSE z
  <2>2. L!Round(d, p) = L!Dec(n, -p)
    BY <1>1, <2>1 DEF L!Round
  <2>3. v < 0 => n = -m
    <3>1. ASSUME v < 0 PROVE half = -(q + 5) /\ q >= 1
      BY <2>1, <3>1
    <3>2. ASSUME NEW h \in Int, h = -(q + 5), q >= 1
          PROVE  (IF h \div 10 < 0 /\ h % 10 # 0 THEN (h \div 10) + 1 ELSE h \div 10) = -m
      BY <1>3, <3>2
    <3>. QED BY <3>1, <3>2
  <2>4. ~(v < 0) => n = m /\ v = q
    <3>1. ASSUME ~(v < 0) PROVE half = q + 5 /\ v = q
      BY <2>1, <3>1
    <3>2. ~(m < 0)
      OBVIOUS
    <3>. QED BY <1>3, <3>1, <3>2
  <2>5. d.v < 0 /\ ~(v < 0) => m = 0
    BY <1>3, <2>1
  <2>6. ~(d.v < 0) => ~(v < 0)
    BY <2>1
  <2> HIDE DEF n, z, half
  <2>7. n = IF d.v < 0 THEN -m ELSE m
    BY <2>3, <2>4, <2>5, <2>6
  <2>. QED BY <2>2, <2>7
<1>5. PICK s \in Nat : s = 10 * W /\ s # 0
  OBVIOUS
<1>6. PICK j \in -4 .. 5 : 10 * m = q + j
  <2>1. 10 * m - q \in -4 .. 5 /\ 10 * m = q + (10 * m - q)
    BY <1>3
  <2>. QED BY <2>1
<1>7. PICK x \in Nat : x = q * W
  OBVIOUS
<1>8. m * s = x + j * W
  <2>1. m * (10 * W) = (10 * m) * W /\ (q + j) * W = q * W + j * W
    OBVIOUS
  <2>. QED BY <1>5, <1>6, <1>7, <2>1
<1>9. Closest(N, m, s)
  <2>1. N = x + f
    BY <1>1, <1>2, <1>7
  <2>2. PICK y \in Int : y = m * s /\ y = x + j * W
    BY <1>8
  <2>3. \/ j = -4 \/ j = -3 \/ j = -2 \/ j = -1 \/ j = 0 \/ j = 1 \/ j = 2 \/ j = 3 \/ j = 4 \/ j = 5
    OBVIOUS
  <2>4. PICK c \in Int : c = y - N /\ c = j * W - f
    BY <2>1, <2>2
  <2>5. 2 * (IF c < 0 THEN -c ELSE c) <= s
    BY <1>1, <1>5, <2>3, <2>4
  <2>6. 2 * (IF c < 0 THEN -c ELSE c) = s => c > 0
    BY <1>1, <1>5, <2>3, <2>4
  <2>. QED BY <2>2, <2>4, <2>5, <2>6 DEF Closest, L!Magnitude
<1>. QED BY <1>1, <1>2, <1>4, <1>5, <1>9

\* r is d rounded to p places, in exact values: N is d without its sign and M,
\* m steps, is r.
RoundShape(d, p, r, N, m, step, M) ==
    /\ step = L!Ten[Scale - p] /\ M = m * step /\ Closest(N, m, step)
    /\ IsUnit(r) /\ r.e = -p /\ r.v = (IF d.v < 0 THEN -m ELSE m)
    /\ L!Units(d) = (IF d.v < 0 THEN -N ELSE N) /\ (d.v = 0 <=> N = 0)
    /\ L!Units(r) = (IF d.v < 0 THEN -M ELSE M)
    /\ L!Magnitude(L!Units(r) - L!Units(d)) = L!Magnitude(M - N)
    /\ L!Magnitude(L!Units(r)) = M /\ L!Magnitude(L!Units(d)) = N

LEMMA RoundUnits ==
    ASSUME NEW d, IsUnit(d), NEW p \in Int, p + 1 <= Scale, NEW r, r = L!Round(d, p)
    PROVE  \E N \in Nat, m \in Nat, step \in Nat \ {0}, M \in Nat : RoundShape(d, p, r, N, m, step, M)
<1>1. PICK N \in Nat, m \in Nat, step \in Nat \ {0} :
              /\ step = L!Ten[Scale - p]
              /\ L!Units(d) = (IF d.v < 0 THEN -N ELSE N) /\ (d.v = 0 <=> N = 0)
              /\ r = L!Dec(IF d.v < 0 THEN -m ELSE m, -p)
              /\ Closest(N, m, step)
  BY RoundIs
<1>2. PICK v \in Int : v = IF d.v < 0 THEN -m ELSE m
  OBVIOUS
<1>3. -p + Scale >= 0 /\ -p + Scale = Scale - p
  BY Consts
<1>4. r.v = v /\ r.e = -p /\ IsUnit(r) /\ L!Units(r) = v * step
  BY <1>1, <1>2, <1>3, UnitsOfDec, DecFields
<1>5. PICK M \in Nat : M = m * step /\ (-m) * step = -M
  OBVIOUS
<1>6. L!Units(r) = IF d.v < 0 THEN -M ELSE M
  BY <1>2, <1>4, <1>5
<1>7. L!Magnitude(L!Units(r) - L!Units(d)) = L!Magnitude(M - N)
  BY <1>1, <1>6 DEF L!Magnitude
<1>8. L!Magnitude(L!Units(r)) = M /\ L!Magnitude(L!Units(d)) = N
  BY <1>1, <1>6 DEF L!Magnitude
<1>9. RoundShape(d, p, r, N, m, step, M)
  BY <1>1, <1>2, <1>4, <1>5, <1>6, <1>7, <1>8 DEF RoundShape
<1>. QED BY <1>9

LEMMA RoundsNearest ==
    ASSUME NEW d, IsUnit(d), NEW p \in Int, p + 1 <= Scale
    PROVE  L!Nearest(d, p, L!Round(d, p), L!Magnitude(L!Units(L!Round(d, p))) > L!Magnitude(L!Units(d)))
<1>1. PICK r : r = L!Round(d, p)
  OBVIOUS
<1>0. PICK N \in Nat, m \in Nat, step \in Nat \ {0}, M \in Nat : RoundShape(d, p, r, N, m, step, M)
  BY <1>1, RoundUnits
<1>2. /\ step = L!Ten[Scale - p] /\ M = m * step /\ Closest(N, m, step)
      /\ IsUnit(r) /\ r.e = -p /\ r.v = (IF d.v < 0 THEN -m ELSE m)
      /\ L!Units(d) = (IF d.v < 0 THEN -N ELSE N) /\ (d.v = 0 <=> N = 0)
      /\ L!Units(r) = (IF d.v < 0 THEN -M ELSE M)
      /\ L!Magnitude(L!Units(r) - L!Units(d)) = L!Magnitude(M - N)
      /\ L!Magnitude(L!Units(r)) = M /\ L!Magnitude(L!Units(d)) = N
  BY <1>0 DEF RoundShape
<1>3. 2 * L!Magnitude(M - N) <= step /\ (2 * L!Magnitude(M - N) = step => M > N)
  BY <1>2 DEF Closest
<1>. QED BY <1>1, <1>2, <1>3 DEF L!Nearest

LEMMA BankNearest ==
    ASSUME NEW d, IsUnit(d), NEW p \in Int, p + 1 <= Scale
    PROVE  L!Nearest(d, p, L!RoundBank(d, p), L!RoundBank(d, p).v % 2 = 0)
<1>1. PICK r : r = L!Round(d, p)
  OBVIOUS
<1>0. PICK N \in Nat, m \in Nat, step \in Nat \ {0}, M \in Nat : RoundShape(d, p, r, N, m, step, M)
  BY <1>1, RoundUnits
<1>2. /\ step = L!Ten[Scale - p] /\ M = m * step /\ Closest(N, m, step)
      /\ IsUnit(r) /\ r.e = -p /\ r.v = (IF d.v < 0 THEN -m ELSE m)
      /\ L!Units(d) = (IF d.v < 0 THEN -N ELSE N) /\ (d.v = 0 <=> N = 0)
      /\ L!Units(r) = (IF d.v < 0 THEN -M ELSE M)
      /\ L!Magnitude(L!Units(r) - L!Units(d)) = L!Magnitude(M - N)
      /\ L!Magnitude(L!Units(r)) = M /\ L!Magnitude(L!Units(d)) = N
  BY <1>0 DEF RoundShape
<1>3. PICK c \in Int : c = M - N
  OBVIOUS
<1>4. PICK a \in Nat : a = L!Magnitude(c) /\ a = IF c < 0 THEN -c ELSE c
  BY DEF L!Magnitude
<1>5. 2 * a <= step /\ (2 * a = step => c = a)
  <2>1. 2 * a <= step /\ (2 * a = step => M > N)
    BY <1>2, <1>3, <1>4 DEF Closest
  <2>. QED BY <1>3, <1>4, <2>1
<1> DEFINE tie == L!Cmp(L!Abs(L!Sub(d, r)), L!Dec(5, -p - 1)) = 0
<1>6. tie <=> 2 * a = step
  <2>1. PICK h \in Nat : h = L!Ten[Scale - p - 1] /\ step = 10 * h
    <3>1. Scale - p - 1 \in Nat /\ Scale - p = (Scale - p - 1) + 1
      BY Consts
    <3>2. L!Ten[(Scale - p - 1) + 1] = 10 * L!Ten[Scale - p - 1]
      BY <3>1, TenSteps
    <3>. QED BY <1>2, <3>1, <3>2, TenType
  <2>2. IsUnit(L!Dec(5, -p - 1)) /\ L!Units(L!Dec(5, -p - 1)) = 5 * h
    <3>1. -p - 1 \in Int /\ (-p - 1) + Scale >= 0 /\ (-p - 1) + Scale = Scale - p - 1
      BY Consts
    <3>. QED BY <2>1, <3>1, UnitsOfDec
  <2>3. IsUnit(L!Sub(d, r)) /\ L!Units(L!Sub(d, r)) = L!Units(d) - L!Units(r)
    BY <1>2, UnitsOfSum
  <2>4. L!Magnitude(L!Units(d) - L!Units(r)) = a
    BY <1>2, <1>3, <1>4 DEF L!Magnitude
  <2>5. IsUnit(L!Abs(L!Sub(d, r))) /\ L!Units(L!Abs(L!Sub(d, r))) = a
    BY <2>3, <2>4, UnitsOfAbs
  <2>6. tie <=> a = 5 * h
    BY <2>2, <2>5, CmpUnits
  <2>. QED BY <2>1, <2>6
<1>7. L!RoundBank(d, p) = IF ~tie \/ r.v % 2 = 0 THEN r
                          ELSE L!Dec(IF r.v < 0 THEN r.v + 1 ELSE r.v - 1, r.e)
  BY <1>1 DEF L!RoundBank
<1> HIDE DEF tie
<1>8. CASE ~tie \/ r.v % 2 = 0
  <2>1. L!RoundBank(d, p) = r
    BY <1>7, <1>8
  <2>2. 2 * a = step => r.v % 2 = 0
    BY <1>6, <1>8
  <2>3. L!Magnitude(L!Units(r) - L!Units(d)) = a
    BY <1>2, <1>3, <1>4
  <2>. QED BY <1>2, <1>5, <2>1, <2>2, <2>3 DEF L!Nearest
<1>9. CASE tie /\ r.v % 2 # 0
  <2>1. 2 * a = step /\ c = a /\ M > N
    BY <1>3, <1>5, <1>6, <1>9
  <2>2. m # 0 /\ m % 2 = 1
    BY <1>2, <1>9
  <2>3. PICK n \in Nat : m = n + 1 /\ n % 2 = 0
    <3>1. m - 1 \in Nat /\ m = (m - 1) + 1 /\ (m - 1) % 2 = 0
      BY <2>2
    <3>. QED BY <3>1
  <2>4. PICK v \in Int : v = IF d.v < 0 THEN -n ELSE n
    OBVIOUS
  <2>5. L!RoundBank(d, p) = L!Dec(v, -p)
    <3>1. (IF r.v < 0 THEN r.v + 1 ELSE r.v - 1) = v
      BY <1>2, <2>3, <2>4
    <3>. QED BY <1>2, <1>7, <1>9, <3>1
  <2>6. L!RoundBank(d, p).v = v /\ L!RoundBank(d, p).e = -p /\ L!Units(L!RoundBank(d, p)) = v * step
    <3>1. -p + Scale >= 0 /\ -p + Scale = Scale - p
      BY Consts
    <3>. QED BY <1>2, <2>5, <3>1, UnitsOfDec, DecFields
  <2>7. PICK K \in Nat : K = n * step /\ (-n) * step = -K
    OBVIOUS
  <2>8. M = K + step
    <3>1. (n + 1) * step = n * step + step
      OBVIOUS
    <3>. QED BY <1>2, <2>3, <2>7, <3>1
  <2>9. L!Units(L!RoundBank(d, p)) = IF d.v < 0 THEN -K ELSE K
    BY <2>4, <2>6, <2>7
  <2>10. L!Magnitude(L!Units(L!RoundBank(d, p)) - L!Units(d)) = a
    BY <1>2, <1>3, <2>1, <2>8, <2>9 DEF L!Magnitude
  <2>11. v % 2 = 0
    BY <2>3, <2>4
  <2>. QED BY <1>2, <2>1, <2>6, <2>10, <2>11 DEF L!Nearest
<1>. QED BY <1>8, <1>9

\* Round and RoundBank of a balance.
LEMMA RoundsRight == EInv => L!Rounds
<1> SUFFICES ASSUME EInv, NEW p \in L!Places
             PROVE  /\ L!Nearest(balance, p, L!Round(balance, p),
                                 L!Magnitude(L!Units(L!Round(balance, p))) > L!Magnitude(exact))
                    /\ L!Nearest(balance, p, L!RoundBank(balance, p), L!RoundBank(balance, p).v % 2 = 0)
  BY DEF L!Rounds
<1>1. PICK d : d = balance /\ IsUnit(d) /\ L!Units(d) = exact
  BY DEF EInv, L!Exact
<1>2. p \in Int /\ p + 1 <= Scale
  BY ScaleFits DEF L!Places
<1>3. L!Nearest(d, p, L!Round(d, p), L!Magnitude(L!Units(L!Round(d, p))) > L!Magnitude(L!Units(d)))
  BY <1>1, <1>2, RoundsNearest
<1>4. L!Nearest(d, p, L!RoundBank(d, p), L!RoundBank(d, p).v % 2 = 0)
  BY <1>1, <1>2, BankNearest
<1>. QED BY <1>1, <1>3, <1>4

\* String, StringFixed and NewFromString of a balance.
LEMMA TextsRight == EInv => L!TextFaithful
<1> SUFFICES ASSUME EInv PROVE L!TextFaithful
  OBVIOUS
<1>1. PICK d : d = balance /\ IsUnit(d)
  BY DEF EInv
<1>2. L!Cmp(L!NewFromString(L!ToText(d, TRUE)), d) = 0
  BY <1>1, TextsAreFaithful
<1>3. ASSUME NEW p \in 0 .. 2
      PROVE  /\ L!StringFixed(d, p).len = p
             /\ L!Cmp(L!NewFromString(L!StringFixed(d, p)), L!Round(d, p)) = 0
  <2>1. PICK r : r = L!Round(d, p)
    OBVIOUS
  <2>2. p \in Int /\ p + 1 <= Scale
    BY ScaleFits
  <2>3. PICK N \in Nat, m \in Nat, step \in Nat \ {0}, M \in Nat : RoundShape(d, p, r, N, m, step, M)
    BY <1>1, <2>1, <2>2, RoundUnits
  <2>4. IsUnit(r) /\ r.e = -p
    BY <2>3 DEF RoundShape
  <2>5. L!StringFixed(d, p) = L!ToText(r, FALSE)
    BY <2>1 DEF L!StringFixed
  <2>6. L!ToText(r, FALSE).len = IF r.e >= 0 THEN 0 ELSE -r.e
    BY <2>4, PrintDigits
  <2>7. L!Cmp(L!NewFromString(L!ToText(r, FALSE)), r) = 0
    BY <2>4, TextsAreFaithful
  <2>8. L!ToText(r, FALSE).len = p
    <3>1. (IF -p >= 0 THEN 0 ELSE -(-p)) = p
      OBVIOUS
    <3>. QED BY Zenon, <2>4, <2>6, <3>1
  <2>9. L!Cmp(L!NewFromString(L!StringFixed(d, p)), L!Round(d, p)) = 0
    BY Zenon, <2>1, <2>5, <2>7
  <2>. QED BY Zenon, <2>5, <2>8, <2>9
<1>. QED BY <1>1, <1>2, <1>3 DEF L!TextFaithful

-----------------------------------------------------------------------------
(* Division                                                                *)

\* d divided by d2 to p places, over a common unit: d is A of them, a step of the
\* quotient times d2 is B, and q of these and rm are A.
DivShape(d, d2, p, u, A, B, q, rm) ==
    /\ L!Units(d) = A * u /\ A = B * q + rm /\ (d2.v < 0 <=> B < 0)
    /\ L!QuoRem(d, d2, p).q = L!Dec(q, -p)
    /\ IsUnit(L!QuoRem(d, d2, p).r) /\ L!QuoRem(d, d2, p).r.v = rm
    /\ L!QuoRem(d, d2, p).r.e + Scale >= 0 /\ L!Ten[L!QuoRem(d, d2, p).r.e + Scale] = u
    /\ L!Magnitude(rm) < L!Magnitude(B) /\ (rm # 0 => A # 0 /\ (rm < 0 <=> A < 0))
    /\ (A < 0 <=> d.v < 0) /\ (A = 0 <=> d.v = 0)
    /\ \A k \in Int : d2.v * k * L!Ten[d2.e - p + Scale] = (B * k) * u
    /\ L!Units(d2) = B * (u * L!Ten[p])

LEMMA QuoSplits ==
    ASSUME NEW A \in Int, NEW B \in Int \ {0}
    PROVE  \E q \in Int, rm \in Int :
              /\ q = L!Quo(A, B) /\ A = B * q + rm /\ rm = A - q * B
              /\ L!Magnitude(rm) < L!Magnitude(B) /\ (rm # 0 => A # 0 /\ (rm < 0 <=> A < 0))
<1>1. PICK k \in Nat, r \in Nat :
              /\ r < L!Magnitude(B) /\ L!Magnitude(A) = L!Magnitude(B) * k + r
              /\ L!Quo(A, B) = IF (A < 0) = (B < 0) THEN k ELSE -k
  BY QuoIs
<1>2. PICK b \in Nat \ {0} : b = L!Magnitude(B) /\ B = IF B < 0 THEN -b ELSE b
  BY DEF L!Magnitude
<1>3. PICK a \in Nat : a = L!Magnitude(A) /\ A = IF A < 0 THEN -a ELSE a
  BY DEF L!Magnitude
<1>4. a = b * k + r
  BY <1>1, <1>2, <1>3
<1>5. PICK q \in Int : q = L!Quo(A, B) /\ q = IF (A < 0) = (B < 0) THEN k ELSE -k
  BY <1>1
<1>6. PICK x \in Nat : x = b * k /\ (-b) * k = -x /\ b * (-k) = -x /\ (-b) * (-k) = x
  OBVIOUS
<1>7. B * q = IF A < 0 THEN -x ELSE x
  <2>1. CASE A < 0 /\ B < 0
    BY <1>2, <1>5, <1>6, <2>1
  <2>2. CASE A < 0 /\ ~(B < 0)
    BY <1>2, <1>5, <1>6, <2>2
  <2>3. CASE ~(A < 0) /\ B < 0
    BY <1>2, <1>5, <1>6, <2>3
  <2>4. CASE ~(A < 0) /\ ~(B < 0)
    BY <1>2, <1>5, <1>6, <2>4
  <2>. QED BY <2>1, <2>2, <2>3, <2>4
<1>8. PICK rm \in Int : rm = IF A < 0 THEN -r ELSE r
  OBVIOUS
<1>9. A = B * q + rm /\ rm = A - B * q
  BY <1>3, <1>4, <1>6, <1>7, <1>8
<1>10. B * q = q * B
  OBVIOUS
<1>11. L!Magnitude(rm) = r
  BY <1>8 DEF L!Magnitude
<1>. QED BY <1>1, <1>5, <1>8, <1>9, <1>10, <1>11

LEMMA QuoRemIs ==
    ASSUME NEW d, IsUnit(d), NEW d2, IsUnit(d2), d2.v # 0, NEW p \in Nat, d2.e - p + Scale >= 0
    PROVE  \E u \in Nat \ {0}, A \in Int, B \in Int \ {0}, q \in Int, rm \in Int :
              DivShape(d, d2, p, u, A, B, q, rm)
<1>1. PICK v \in Int : v = d.v
  BY DEF IsUnit, IsDec
<1>2. PICK w \in Int \ {0} : w = d2.v
  BY DEF IsUnit, IsDec
<1>3. PICK f \in Int : f = d.e /\ f + Scale >= 0
  BY DEF IsUnit, IsDec
<1>4. PICK g \in Int : g = d2.e /\ g - p + Scale >= 0
  BY DEF IsUnit, IsDec
<1>5. PICK e \in Int : e = f - g + p
  OBVIOUS
<1>6. PICK tp \in Nat \ {0} : tp = L!Ten[p]
  BY TenType
<1> DEFINE aa == IF e < 0 THEN v ELSE v * L!Ten[e]
           bb == IF e < 0 THEN w * L!Ten[-e] ELSE w
           h == IF e < 0 THEN f ELSE g - p
<1>7. L!QuoRem(d, d2, p) = [q |-> L!Dec(L!Quo(aa, bb), -p), r |-> L!Dec(aa - L!Quo(aa, bb) * bb, h)]
  BY <1>1, <1>2, <1>3, <1>4, <1>5 DEF L!QuoRem
<1>8. PICK u \in Nat \ {0} : u = L!Ten[h + Scale]
  BY <1>3, <1>4, Consts, TenType
<1>9. \E x \in Nat \ {0} : bb = w * x /\ L!Ten[g - p + Scale] = x * u
  <2>1. CASE e < 0
    <3>1. PICK x \in Nat \ {0} : x = L!Ten[-e]
      BY <2>1, TenType
    <3>2. -e \in Nat /\ f + Scale \in Nat /\ g - p + Scale = (-e) + (f + Scale)
      BY <1>3, <1>5, <2>1, Consts
    <3>3. L!Ten[(-e) + (f + Scale)] = L!Ten[-e] * L!Ten[f + Scale]
      BY <3>2, TenSum
    <3>. QED BY <1>8, <2>1, <3>1, <3>2, <3>3
  <2>2. CASE ~(e < 0)
    <3>1. w = w * 1 /\ u = 1 * u
      OBVIOUS
    <3>. QED BY <1>8, <2>2, <3>1
  <2>. QED BY <2>1, <2>2
<1>10. \E y \in Nat \ {0} : aa = v * y /\ L!Ten[f + Scale] = y * u
  <2>1. CASE e < 0
    <3>1. v = v * 1 /\ u = 1 * u
      OBVIOUS
    <3>. QED BY <1>8, <2>1, <3>1
  <2>2. CASE ~(e < 0)
    <3>1. PICK y \in Nat \ {0} : y = L!Ten[e]
      BY <2>2, TenType
    <3>2. e \in Nat /\ g - p + Scale \in Nat /\ f + Scale = e + (g - p + Scale)
      BY <1>4, <1>5, <2>2, Consts
    <3>3. L!Ten[e + (g - p + Scale)] = L!Ten[e] * L!Ten[g - p + Scale]
      BY <3>2, TenSum
    <3>. QED BY <1>8, <2>2, <3>1, <3>2, <3>3
  <2>. QED BY <2>1, <2>2
<1> HIDE DEF aa, bb
<1>11. PICK x \in Nat \ {0} : bb = w * x /\ L!Ten[g - p + Scale] = x * u
  BY <1>9
<1>12. PICK y \in Nat \ {0} : aa = v * y /\ L!Ten[f + Scale] = y * u
  BY <1>10
<1>13. PICK A \in Int : A = aa /\ A = v * y
  BY <1>12
<1>14. PICK B \in Int \ {0} : B = bb /\ B = w * x
  BY <1>11
<1>15. PICK q \in Int, rm \in Int :
              /\ q = L!Quo(A, B) /\ A = B * q + rm /\ rm = A - q * B
              /\ L!Magnitude(rm) < L!Magnitude(B) /\ (rm # 0 => A # 0 /\ (rm < 0 <=> A < 0))
  BY QuoSplits
<1>16. L!QuoRem(d, d2, p).q = L!Dec(q, -p) /\ L!QuoRem(d, d2, p).r = L!Dec(rm, h)
  BY <1>7, <1>13, <1>14, <1>15
<1>17. L!QuoRem(d, d2, p).r.v = rm /\ L!QuoRem(d, d2, p).r.e = h
  BY <1>16, DecFields
<1>18. h \in Int /\ h + Scale >= 0
  BY <1>3, <1>4, Consts
<1> HIDE DEF h
<1>19. IsUnit(L!QuoRem(d, d2, p).r)
  BY <1>17, <1>18 DEF IsUnit, IsDec
<1>20. L!Units(d) = A * u
  <2>1. v * (y * u) = (v * y) * u
    OBVIOUS
  <2>. QED BY <1>1, <1>3, <1>12, <1>13, <2>1 DEF L!Units
<1>21. \A k \in Int : w * k * L!Ten[g - p + Scale] = (B * k) * u
  <2>1. \A k \in Int : w * k * (x * u) = ((w * x) * k) * u
    OBVIOUS
  <2>. QED BY <1>11, <1>14, <2>1
<1>22. L!Units(d2) = B * (u * tp)
  <2>1. g - p + Scale \in Nat /\ g + Scale = (g - p + Scale) + p
    BY <1>4, Consts
  <2>2. L!Ten[g + Scale] = (x * u) * tp
    <3>1. L!Ten[(g - p + Scale) + p] = L!Ten[g - p + Scale] * L!Ten[p]
      BY <2>1, TenSum
    <3>. QED BY <1>6, <1>11, <2>1, <3>1
  <2>3. w * ((x * u) * tp) = (w * x) * (u * tp)
    OBVIOUS
  <2>. QED BY <1>2, <1>4, <1>14, <2>2, <2>3 DEF L!Units
<1>23. (A < 0 <=> v < 0) /\ (A = 0 <=> v = 0) /\ (w < 0 <=> B < 0)
  <2>1. 0 * y = 0 /\ 0 * x = 0
    OBVIOUS
  <2>. QED BY <1>13, <1>14, <2>1, Scaled
<1>24. DivShape(d, d2, p, u, A, B, q, rm)
  BY <1>1, <1>2, <1>4, <1>6, <1>8, <1>15, <1>16, <1>17, <1>18, <1>19, <1>20, <1>21, <1>22, <1>23 DEF DivShape
<1>. QED BY <1>24

\* DivRound adds or takes off one step where what is left over is half of one or more.
LEMMA DivRoundIs ==
    ASSUME NEW d, IsUnit(d), NEW d2, IsUnit(d2), d2.v # 0, NEW p \in Nat, d2.e - p + Scale >= 0, p <= Scale,
           NEW u \in Nat \ {0}, NEW A \in Int, NEW B \in Int \ {0}, NEW q \in Int, NEW rm \in Int,
           DivShape(d, d2, p, u, A, B, q, rm)
    PROVE  \E n \in Int :
              /\ L!DivRound(d, d2, p) = L!Dec(n, -p)
              /\ n = IF 2 * L!Magnitude(rm) < L!Magnitude(B) THEN q
                     ELSE IF (A < 0) = (B < 0) THEN q + 1 ELSE q - 1
              /\ 2 * L!Magnitude(A - B * n) <= L!Magnitude(B)
              /\ 2 * L!Magnitude(A - B * n) = L!Magnitude(B) => L!Magnitude(B * n) > L!Magnitude(A)
<1>1. PICK qr : qr = L!QuoRem(d, d2, p)
  OBVIOUS
<1>2. /\ A = B * q + rm /\ (d2.v < 0 <=> B < 0) /\ qr.q = L!Dec(q, -p) /\ IsUnit(qr.r) /\ qr.r.v = rm
      /\ L!Ten[qr.r.e + Scale] = u /\ L!Magnitude(rm) < L!Magnitude(B) /\ (rm # 0 => A # 0 /\ (rm < 0 <=> A < 0))
      /\ (A < 0 <=> d.v < 0) /\ (A = 0 <=> d.v = 0) /\ L!Units(d2) = B * (u * L!Ten[p])
  BY <1>1 DEF DivShape
<1>3. PICK b \in Nat \ {0} : b = L!Magnitude(B) /\ B = IF B < 0 THEN -b ELSE b
  BY DEF L!Magnitude
<1>4. PICK c \in Nat : c = L!Magnitude(rm) /\ rm = IF rm < 0 THEN -c ELSE c
  BY DEF L!Magnitude
<1> DEFINE r2 == L!Dec(2 * L!Magnitude(qr.r.v), qr.r.e + p)
<1>5. L!Cmp(r2, L!Abs(d2)) < 0 <=> 2 * c < b
  <2>1. PICK t \in Nat \ {0} : t = L!Ten[p]
    BY TenType
  <2>2. PICK e \in Int : e = qr.r.e /\ e + Scale >= 0
    BY <1>2 DEF IsUnit, IsDec
  <2>3. L!Ten[(e + p) + Scale] = u * t
    <3>1. e + Scale \in Nat /\ (e + p) + Scale = (e + Scale) + p
      BY <2>2, Consts
    <3>2. L!Ten[(e + Scale) + p] = L!Ten[e + Scale] * L!Ten[p]
      BY <3>1, TenSum
    <3>. QED BY <1>2, <2>1, <2>2, <3>1, <3>2
  <2>4. PICK k \in Nat \ {0} : k = u * t
    OBVIOUS
  <2>5. r2 = L!Dec(2 * c, e + p)
    BY <1>2, <1>4, <2>2
  <2>6. IsUnit(r2) /\ L!Units(r2) = (2 * c) * k
    <3>1. 2 * c \in Int /\ e + p \in Int /\ (e + p) + Scale >= 0
      BY <2>2, Consts
    <3>2. IsUnit(L!Dec(2 * c, e + p)) /\ L!Units(L!Dec(2 * c, e + p)) = (2 * c) * L!Ten[(e + p) + Scale]
      BY <3>1, UnitsOfDec
    <3>. QED BY <2>3, <2>4, <2>5, <3>2
  <2>7. IsUnit(L!Abs(d2)) /\ L!Units(L!Abs(d2)) = b * k
    <3>1. L!Units(d2) = B * k
      BY <1>2, <2>1, <2>4
    <3>2. (-b) * k = -(b * k) /\ b * k > 0
      OBVIOUS
    <3>3. L!Units(d2) = IF B < 0 THEN -(b * k) ELSE b * k
      BY <1>3, <3>1, <3>2
    <3>4. L!Magnitude(L!Units(d2)) = b * k
      BY <3>2, <3>3 DEF L!Magnitude
    <3>. QED BY <3>4, UnitsOfAbs
  <2>8. 2 * c < b <=> (2 * c) * k < b * k
    BY Scaled
  <2>. QED BY <2>6, <2>7, <2>8, CmpUnits
<1>6. ASSUME ~(2 * c < b)
      PROVE  (L!Sign(d) * L!Sign(d2) < 0 <=> ~((A < 0) = (B < 0))) /\ rm # 0
  <2>1. rm # 0 /\ A # 0
    <3>1. c # 0
      BY <1>6
    <3>2. rm # 0
      BY <1>4, <3>1
    <3>3. A # 0
      BY <1>2, <3>2
    <3>. QED BY <3>2, <3>3
  <2>2. L!Sign(d) = IF A < 0 THEN -1 ELSE 1
    BY <1>2, <2>1 DEF L!Sign
  <2>3. L!Sign(d2) = IF B < 0 THEN -1 ELSE 1
    BY <1>2 DEF L!Sign
  <2>. QED BY <2>1, <2>2, <2>3
<1>7. L!Add(L!Dec(q, -p), L!Dec(1, -p)) = L!Dec(q + 1, -p) /\ L!Sub(L!Dec(q, -p), L!Dec(1, -p)) = L!Dec(q - 1, -p)
  <2>1. L!Lower(-p, -p) = -p /\ (-p) - (-p) = 0 /\ ~(-p > -p)
    BY DEF L!Lower
  <2>2. ASSUME NEW k \in Int PROVE L!rescale(L!Dec(k, -p), -p).v = k
    <3>1. k * 1 = k
      OBVIOUS
    <3>. QED BY <2>1, <3>1, TenSteps, DecFields DEF L!rescale
  <2>3. L!rescale(L!Dec(q, -p), -p).v = q /\ L!rescale(L!Dec(1, -p), -p).v = 1
    BY <2>2
  <2>. QED BY <2>1, <2>3, DecFields DEF L!Add, L!Sub
<1>8. L!DivRound(d, d2, p) = IF L!Cmp(r2, L!Abs(d2)) < 0 THEN qr.q
                             ELSE IF L!Sign(d) * L!Sign(d2) < 0 THEN L!Sub(qr.q, L!Dec(1, -p))
                             ELSE L!Add(qr.q, L!Dec(1, -p))
  BY <1>1 DEF L!DivRound
<1> HIDE DEF r2
<1>9. PICK n \in Int : n = IF 2 * c < b THEN q ELSE IF (A < 0) = (B < 0) THEN q + 1 ELSE q - 1
  OBVIOUS
<1>10. L!DivRound(d, d2, p) = L!Dec(n, -p)
  <2>1. CASE 2 * c < b
    BY <1>2, <1>5, <1>8, <1>9, <2>1
  <2>2. CASE ~(2 * c < b)
    <3>1. CASE (A < 0) = (B < 0)
      BY <1>2, <1>5, <1>6, <1>7, <1>8, <1>9, <2>2, <3>1
    <3>2. CASE ~((A < 0) = (B < 0))
      BY <1>2, <1>5, <1>6, <1>7, <1>8, <1>9, <2>2, <3>2
    <3>. QED BY <3>1, <3>2
  <2>. QED BY <2>1, <2>2
<1>11. PICK z \in Int : z = B * q /\ B * (q + 1) = z + B /\ B * (q - 1) = z - B
  OBVIOUS
<1>12. PICK x \in Int : x = B * n /\ x = IF 2 * c < b THEN z ELSE IF (A < 0) = (B < 0) THEN z + B ELSE z - B
  <2>1. CASE 2 * c < b
    BY <1>9, <1>11, <2>1
  <2>2. CASE ~(2 * c < b) /\ (A < 0) = (B < 0)
    <3>1. n = q + 1
      BY <1>9, <2>2
    <3>. QED BY <1>11, <2>2, <3>1
  <2>3. CASE ~(2 * c < b) /\ ~((A < 0) = (B < 0))
    <3>1. n = q - 1
      BY <1>9, <2>3
    <3>. QED BY <1>11, <2>3, <3>1
  <2>. QED BY <2>1, <2>2, <2>3
<1>13. A = z + rm /\ c < b
  BY <1>2, <1>3, <1>4, <1>11
<1>14. 2 * L!Magnitude(A - x) <= b /\ (2 * L!Magnitude(A - x) = b => L!Magnitude(x) > L!Magnitude(A))
  <2>1. CASE 2 * c < b
    <3>1. A - x = rm
      BY <1>12, <1>13, <2>1
    <3>. QED BY <1>4, <2>1, <3>1
  <2>2. CASE ~(2 * c < b)
    <3>1. rm = IF A < 0 THEN -c ELSE c
      BY <1>2, <1>4, <1>6, <2>2
    <3>2. x = IF A < 0 THEN z - b ELSE z + b
      BY <1>3, <1>12, <2>2
    <3>3. A - x = IF A < 0 THEN b - c ELSE c - b
      <4>1. CASE A < 0
        <5>1. A = z + rm /\ rm = -c /\ x = z - b
          BY <1>13, <3>1, <3>2, <4>1
        <5>2. (z + -c) - (z - b) = b - c
          OBVIOUS
        <5>. QED BY <4>1, <5>1, <5>2
      <4>2. CASE ~(A < 0)
        <5>1. A = z + rm /\ rm = c /\ x = z + b
          BY <1>13, <3>1, <3>2, <4>2
        <5>2. (z + c) - (z + b) = c - b
          OBVIOUS
        <5>. QED BY <4>2, <5>1, <5>2
      <4>. QED BY <4>1, <4>2
    <3>4. L!Magnitude(A - x) = b - c
      BY <1>13, <3>3 DEF L!Magnitude
    <3>5. x = IF A < 0 THEN A - (b - c) ELSE A + (b - c)
      BY <3>3
    <3>6. L!Magnitude(x) > L!Magnitude(A)
      BY <1>13, <3>5 DEF L!Magnitude
    <3>. QED BY <2>2, <3>4, <3>6
  <2>. QED BY <2>1, <2>2
<1>. QED BY <1>3, <1>4, <1>9, <1>10, <1>12, <1>14

LEMMA MagnitudeTimes ==
    ASSUME NEW x \in Int, NEW t \in Nat
    PROVE  L!Magnitude(x * t) = L!Magnitude(x) * t /\ L!Magnitude(x) \in Nat
<1>1. PICK y \in Int : y = x * t /\ (-x) * t = -y
  OBVIOUS
<1>2. (x >= 0 => y >= 0) /\ (x < 0 => y <= 0)
  BY <1>1
<1>. QED BY <1>1, <1>2 DEF L!Magnitude

LEMMA UnitsOfProduct ==
    ASSUME NEW d2, IsUnit(d2), NEW p \in Nat, d2.e - p + Scale >= 0, NEW k \in Int
    PROVE  /\ IsUnit(L!Mul(d2, L!Dec(k, -p)))
           /\ L!Units(L!Mul(d2, L!Dec(k, -p))) = d2.v * k * L!Ten[d2.e - p + Scale]
<1>1. PICK w \in Int : w = d2.v
  BY DEF IsUnit, IsDec
<1>2. PICK g \in Int : g = d2.e /\ g - p + Scale >= 0
  BY DEF IsUnit, IsDec
<1>3. L!Mul(d2, L!Dec(k, -p)).v = w * k /\ L!Mul(d2, L!Dec(k, -p)).e = g + -p
  BY <1>1, <1>2, DecFields DEF L!Mul
<1>4. g + -p = g - p /\ w * k \in Int
  OBVIOUS
<1>. QED BY <1>1, <1>2, <1>3, <1>4 DEF IsUnit, IsDec, L!Units

LEMMA DivideOne ==
    ASSUME NEW d, IsUnit(d), NEW d2, IsUnit(d2), d2.v # 0, NEW p \in Nat, d2.e - p + Scale >= 0, p <= Scale
    PROVE  LET qr == L!QuoRem(d, d2, p)
               back == L!Add(L!Mul(d2, qr.q), qr.r)
               q == L!DivRound(d, d2, p)
               err == 2 * L!Magnitude(L!Units(L!Sub(d, L!Mul(d2, q))))
               step == L!Units(L!Mul(L!Abs(d2), L!Dec(1, -p)))
           IN /\ L!Cmp(back, d) = 0
              /\ L!Magnitude(L!Units(qr.r)) < step
              /\ qr.r.v # 0 => L!Sign(qr.r) = L!Sign(d)
              /\ err <= step
              /\ err = step => L!Magnitude(L!Units(L!Mul(d2, q))) > L!Magnitude(L!Units(d))
<1>1. PICK u \in Nat \ {0}, A \in Int, B \in Int \ {0}, q \in Int, rm \in Int :
              DivShape(d, d2, p, u, A, B, q, rm)
  BY QuoRemIs
<1>2. PICK qr : qr = L!QuoRem(d, d2, p)
  OBVIOUS
<1>3. /\ L!Units(d) = A * u /\ A = B * q + rm /\ qr.q = L!Dec(q, -p) /\ IsUnit(qr.r) /\ qr.r.v = rm
      /\ L!Ten[qr.r.e + Scale] = u /\ L!Magnitude(rm) < L!Magnitude(B)
      /\ (rm # 0 => A # 0 /\ (rm < 0 <=> A < 0)) /\ (A < 0 <=> d.v < 0) /\ (A = 0 <=> d.v = 0)
  BY <1>1, <1>2 DEF DivShape
<1>4. ASSUME NEW k \in Int
      PROVE  /\ IsUnit(L!Mul(d2, L!Dec(k, -p))) /\ L!Units(L!Mul(d2, L!Dec(k, -p))) = (B * k) * u
  <2>1. d2.v * k * L!Ten[d2.e - p + Scale] = (B * k) * u
    BY <1>1 DEF DivShape
  <2>. QED BY <2>1, UnitsOfProduct
<1>5. PICK b \in Nat \ {0} : b = L!Magnitude(B)
  BY DEF L!Magnitude
<1>6. L!Units(L!Mul(L!Abs(d2), L!Dec(1, -p))) = b * u
  <2>1. PICK w \in Int : w = d2.v
    BY DEF IsUnit, IsDec
  <2>2. PICK t \in Nat : t = L!Ten[d2.e - p + Scale]
    <3>1. d2.e \in Int /\ d2.e - p + Scale \in Nat
      BY Consts DEF IsUnit, IsDec
    <3>. QED BY <3>1, TenType
  <2>3. w * 1 * t = (B * 1) * u
    BY <1>1, <2>1, <2>2 DEF DivShape
  <2>4. w * t = B * u
    <3>1. w * 1 * t = w * t /\ (B * 1) * u = B * u
      OBVIOUS
    <3>. QED BY <2>3, <3>1
  <2>5. L!Magnitude(w) * t = b * u
    BY <1>5, <2>4, MagnitudeTimes, ZenonT(30)
  <2>6. PICK m \in Nat : m = L!Magnitude(w)
    BY MagnitudeTimes
  <2>7. IsUnit(L!Abs(d2)) /\ L!Abs(d2).e = d2.e /\ L!Abs(d2).v = m
    BY <2>1, <2>6, UnitsOfAbs, DecFields DEF L!Abs
  <2>8. L!Units(L!Mul(L!Abs(d2), L!Dec(1, -p))) = m * 1 * t
    <3>1. L!Abs(d2).e - p + Scale >= 0 /\ 1 \in Int
      BY <2>7
    <3>2. L!Units(L!Mul(L!Abs(d2), L!Dec(1, -p))) = L!Abs(d2).v * 1 * L!Ten[L!Abs(d2).e - p + Scale]
      BY <2>7, <3>1, UnitsOfProduct
    <3>. QED BY <2>2, <2>7, <3>2
  <2>9. m * 1 * t = m * t
    OBVIOUS
  <2>. QED BY <2>5, <2>6, <2>8, <2>9
<1>7. L!Cmp(L!Add(L!Mul(d2, qr.q), qr.r), d) = 0
  <2>1. L!Units(qr.r) = rm * u
    BY <1>3 DEF L!Units
  <2>2. IsUnit(L!Mul(d2, qr.q)) /\ L!Units(L!Mul(d2, qr.q)) = (B * q) * u
    BY <1>3, <1>4
  <2>3. (B * q) * u + rm * u = (B * q + rm) * u
    OBVIOUS
  <2>4. IsUnit(L!Add(L!Mul(d2, qr.q), qr.r)) /\ L!Units(L!Add(L!Mul(d2, qr.q), qr.r)) = L!Units(d)
    <3>1. /\ IsUnit(L!Add(L!Mul(d2, qr.q), qr.r))
          /\ L!Units(L!Add(L!Mul(d2, qr.q), qr.r)) = L!Units(L!Mul(d2, qr.q)) + L!Units(qr.r)
      BY <1>3, <2>2, UnitsOfSum
    <3>. QED BY <1>3, <2>1, <2>2, <2>3, <3>1
  <2>. QED BY <2>4, CmpUnits
<1>8. L!Magnitude(L!Units(qr.r)) < b * u
  <2>1. L!Units(qr.r) = rm * u
    BY <1>3 DEF L!Units
  <2>2. PICK c \in Nat : c = L!Magnitude(rm) /\ L!Magnitude(rm * u) = c * u
    BY MagnitudeTimes
  <2>3. c < b
    BY <1>3, <1>5, <2>2
  <2>4. c * u < b * u
    BY <2>3, Scaled
  <2>. QED BY <2>1, <2>2, <2>4
<1>9. qr.r.v # 0 => L!Sign(qr.r) = L!Sign(d)
  BY <1>3 DEF L!Sign
<1>10. PICK n \in Int : /\ L!DivRound(d, d2, p) = L!Dec(n, -p)
                        /\ 2 * L!Magnitude(A - B * n) <= L!Magnitude(B)
                        /\ 2 * L!Magnitude(A - B * n) = L!Magnitude(B) => L!Magnitude(B * n) > L!Magnitude(A)
  BY <1>1, DivRoundIs
<1>11. PICK x \in Int : x = B * n
  OBVIOUS
<1>12. IsUnit(L!Mul(d2, L!DivRound(d, d2, p))) /\ L!Units(L!Mul(d2, L!DivRound(d, d2, p))) = x * u
  BY <1>4, <1>10, <1>11
<1>13. L!Units(L!Sub(d, L!Mul(d2, L!DivRound(d, d2, p)))) = (A - x) * u
  <2>1. A * u - x * u = (A - x) * u
    OBVIOUS
  <2>2. L!Units(L!Sub(d, L!Mul(d2, L!DivRound(d, d2, p)))) = L!Units(d) - L!Units(L!Mul(d2, L!DivRound(d, d2, p)))
    BY <1>12, UnitsOfSum
  <2>. QED BY <1>3, <1>12, <2>1, <2>2
<1>14. PICK c \in Nat : c = L!Magnitude(A - x) /\ L!Magnitude((A - x) * u) = c * u
  <2>1. A - x \in Int
    OBVIOUS
  <2>. QED BY <2>1, MagnitudeTimes
<1>15. 2 * c <= b /\ (2 * c = b => L!Magnitude(x) > L!Magnitude(A))
  BY <1>5, <1>10, <1>11, <1>14
<1>16. 2 * (c * u) = (2 * c) * u
  OBVIOUS
<1>17. (2 * c) * u <= b * u /\ ((2 * c) * u = b * u => 2 * c = b)
  <2>1. 2 * c \in Int /\ b \in Int
    OBVIOUS
  <2>. QED BY <1>15, <2>1, Scaled
<1>18. L!Magnitude(x) > L!Magnitude(A) => L!Magnitude(x * u) > L!Magnitude(A * u)
  <2>1. PICK y, z \in Nat : y = L!Magnitude(x) /\ z = L!Magnitude(A)
    BY MagnitudeTimes
  <2>2. L!Magnitude(x * u) = y * u /\ L!Magnitude(A * u) = z * u
    BY <2>1, MagnitudeTimes
  <2>3. z < y => z * u < y * u
    BY Scaled
  <2>. QED BY <2>1, <2>2, <2>3
<1>19. 2 * L!Magnitude(L!Units(L!Sub(d, L!Mul(d2, L!DivRound(d, d2, p))))) = (2 * c) * u
  BY <1>13, <1>14, <1>16
<1>20. (2 * c) * u = b * u =>
         L!Magnitude(L!Units(L!Mul(d2, L!DivRound(d, d2, p)))) > L!Magnitude(L!Units(d))
  BY <1>3, <1>12, <1>15, <1>17, <1>18
<1>. QED BY <1>2, <1>6, <1>7, <1>8, <1>9, <1>17, <1>19, <1>20

\* QuoRem and DivRound of a balance.
LEMMA DividesRight == EInv => L!Divides
<1> SUFFICES ASSUME EInv PROVE L!Divides
  OBVIOUS
<1>1. PICK d : d = balance /\ IsUnit(d) /\ L!Units(d) = exact
  BY DEF EInv, L!Exact
<1>2. ASSUME NEW d2 \in {a \in Amounts : a.v # 0}, NEW p \in 0 .. 2
      PROVE  IsUnit(d2) /\ d2.v # 0 /\ p \in Nat /\ d2.e - p + Scale >= 0 /\ p <= Scale
  <2>1. d2.e \in Int /\ d2.e + Scale >= 2 /\ IsUnit(d2)
    BY LibraryAssumption, AmountsAreUnits DEF L!LedgerAssumption
  <2>. QED BY <2>1, ScaleFits
<1>. QED BY <1>1, <1>2, DivideOne DEF L!Divides

-----------------------------------------------------------------------------
(* Whole numbers                                                           *)

LEMMA DivUnique ==
    ASSUME NEW E \in Nat \ {0}, NEW a \in Int, NEW b \in Int, NEW r \in 0 .. E - 1, NEW s \in 0 .. E - 1,
           E * a + r = E * b + s
    PROVE  a = b /\ r = s
<1>1. ASSUME NEW x \in Int, NEW y \in Int, x < y PROVE E * x + E <= E * y
  <2>1. PICK z \in Nat : y = x + 1 + z
    <3>1. y - x - 1 \in Nat /\ y = x + 1 + (y - x - 1)
      BY <1>1
    <3>. QED BY <3>1
  <2>2. E * (x + 1 + z) = E * x + E + E * z /\ E * z >= 0
    OBVIOUS
  <2>. QED BY <2>1, <2>2
<1>2. PICK p \in Int : p = E * a
  OBVIOUS
<1>3. PICK q \in Int : q = E * b
  OBVIOUS
<1>4. (a < b => p + E <= q) /\ (b < a => q + E <= p) /\ (a = b => p = q)
  BY <1>1, <1>2, <1>3
<1>. QED BY <1>2, <1>3, <1>4

LEMMA Multiple ==
    ASSUME NEW s \in Nat \ {0}, NEW c \in Int
    PROVE  (s * c) % s = 0 /\ (c * s) % s = 0
<1>1. PICK x \in Int : x = s * c /\ x = c * s
  OBVIOUS
<1>2. PICK q \in Int : q = x \div s
  BY DivMod
<1>3. PICK r \in 0 .. s - 1 : r = x % s
  BY DivMod
<1>4. x = s * q + r
  BY <1>2, <1>3, DivMod
<1>5. s * q + r = s * c + 0
  BY <1>1, <1>4
<1>6. 0 \in 0 .. s - 1
  OBVIOUS
<1>7. r = 0
  BY <1>5, <1>6, DivUnique
<1>. QED BY <1>1, <1>3, <1>7

LEMMA MinusZero == -0 = 0
<1>1. -0 \in Int /\ -0 <= 0 /\ -0 >= 0
  OBVIOUS
<1>2. ASSUME NEW z \in Int, z <= 0, z >= 0 PROVE z = 0
  BY <1>2
<1>. QED BY Zenon, <1>1, <1>2

LEMMA UnitsOfInteger ==
    ASSUME NEW k \in Int
    PROVE  IsUnit(L!Dec(k, 0)) /\ L!Units(L!Dec(k, 0)) = k * L!Ten[Scale]
<1>1. 0 \in Int /\ 0 + Scale = Scale /\ 0 + Scale >= 0
  BY Consts
<1>. QED BY <1>1, UnitsOfDec

\* Truncated towards zero: the quotient's floor, or one more where something negative is left.
LEMMA QuoFloor ==
    ASSUME NEW v \in Int, NEW E \in Nat \ {0}, NEW k \in Int, NEW r \in 0 .. E - 1, v = E * k + r
    PROVE  L!Quo(v, E) = IF v < 0 /\ r # 0 THEN k + 1 ELSE k
<1>0. E \in Int \ {0} /\ L!Magnitude(E) = E /\ ~(E < 0)
  BY DEF L!Magnitude
<1>1. PICK j \in Nat, s \in Nat :
              /\ s < L!Magnitude(E) /\ L!Magnitude(v) = L!Magnitude(E) * j + s
              /\ L!Quo(v, E) = IF (v < 0) = (E < 0) THEN j ELSE -j
  BY <1>0, QuoIs
<1>2. s \in 0 .. E - 1 /\ L!Magnitude(v) = E * j + s
  BY <1>0, <1>1
<1>3. CASE ~(v < 0)
  <2>1. E * k + r = E * j + s
    BY <1>2, <1>3 DEF L!Magnitude
  <2>2. k = j
    BY <1>2, <2>1, DivUnique
  <2>. QED BY <1>0, <1>1, <1>3, <2>2
<1>4. CASE v < 0
  <2>0. L!Quo(v, E) = -j
    BY <1>0, <1>1, <1>4
  <2>1. v = -(E * j + s)
    BY <1>2, <1>4 DEF L!Magnitude
  <2>2. CASE s = 0
    <3>1. E * k + r = E * (-j) + 0
      BY <2>1, <2>2
    <3>2. k = -j /\ r = 0
      BY <3>1, <1>2, <2>2, DivUnique
    <3>. QED BY <2>0, <3>2
  <2>3. CASE s # 0
    <3>0. E * (-j - 1) = -(E * j) - E
      OBVIOUS
    <3>1. E * k + r = E * (-j - 1) + (E - s)
      BY <2>1, <3>0
    <3>2. E - s \in 0 .. E - 1 /\ -j - 1 \in Int
      BY <1>2, <2>3
    <3>3. k = -j - 1 /\ r = E - s
      BY <3>1, <3>2, DivUnique
    <3>4. r # 0 /\ k + 1 = -j
      BY <1>2, <3>3
    <3>. QED BY <2>0, <1>4, <3>4
  <2>. QED BY <2>2, <2>3
<1>. QED BY <1>3, <1>4

LEMMA IntegralOne ==
    ASSUME NEW d, IsUnit(d), NEW x \in Int, x = L!Units(d)
    PROVE  /\ L!Units(L!Floor(d)) <= x /\ x < L!Units(L!Floor(d)) + L!Ten[Scale]
           /\ L!Units(L!Ceil(d)) - L!Ten[Scale] < x /\ x <= L!Units(L!Ceil(d))
           /\ IF x < 0 THEN L!Units(L!Truncate(d, 0)) = L!Units(L!Ceil(d))
                       ELSE L!Units(L!Truncate(d, 0)) = L!Units(L!Floor(d))
<1>1. PICK v \in Int : v = d.v
  BY DEF IsUnit, IsDec
<1>2. PICK e \in Int : e = d.e /\ e + Scale >= 0
  BY DEF IsUnit, IsDec
<1>3. PICK step \in Nat \ {0} : step = L!Ten[Scale]
  BY Consts, TenType
<1>4. CASE e >= 0
  <2>1. L!Floor(d) = d /\ L!Ceil(d) = d
    BY <1>2, <1>4 DEF L!Floor, L!Ceil
  <2>2. ~(-0 > e)
    BY <1>4
  <2>3. L!Truncate(d, 0) = d
    BY <1>2, <2>2 DEF L!Truncate
  <2>. QED BY <1>3, <2>1, <2>3
<1>5. CASE ~(e >= 0)
  <2>1. PICK E \in Nat \ {0} : E = L!Ten[-e]
    BY <1>5, TenType
  <2>2. PICK u \in Nat \ {0} : u = L!Ten[e + Scale]
    BY <1>2, Consts, TenType
  <2>3. step = E * u
    <3>1. -e \in Nat /\ e + Scale \in Nat /\ Scale = (-e) + (e + Scale)
      BY <1>2, <1>5, Consts
    <3>2. L!Ten[(-e) + (e + Scale)] = L!Ten[-e] * L!Ten[e + Scale]
      BY <3>1, TenSum
    <3>. QED BY <1>3, <2>1, <2>2, <3>1, <3>2
  <2>4. PICK k \in Int : k = v \div E
    BY DivMod
  <2>5. PICK r \in 0 .. E - 1 : r = v % E
    BY DivMod
  <2>6. v = E * k + r
    BY <2>4, <2>5, DivMod
  <2>7. PICK y \in Int : y = k * step
    OBVIOUS
  <2>8. PICK f \in Nat : f = r * u
    OBVIOUS
  <2>9. f < step /\ (f = 0 <=> r = 0)
    <3>1. r < E /\ r \in Int /\ E \in Int
      OBVIOUS
    <3>2. r * u < E * u
      BY <3>1, Scaled
    <3>. QED BY <2>3, <2>8, <3>2
  <2>10. x = y + f
    <3>1. (E * k + r) * u = k * (E * u) + r * u
      OBVIOUS
    <3>. QED BY <1>1, <1>2, <2>2, <2>3, <2>6, <2>7, <2>8, <3>1 DEF L!Units
  <2>11. L!Units(L!Floor(d)) = y
    <3>1. L!Floor(d) = L!Dec(k, 0)
      BY <1>1, <1>2, <1>5, <2>1, <2>4 DEF L!Floor
    <3>. QED BY <1>3, <2>7, <3>1, UnitsOfInteger
  <2>12. (k + 1) * step = y + step
    BY <2>7
  <2>13. L!Units(L!Ceil(d)) = IF r # 0 THEN y + step ELSE y
    <3>1. L!Ceil(d) = L!Dec(k + (IF r # 0 THEN 1 ELSE 0), 0)
      BY <1>1, <1>2, <1>5, <2>1, <2>4, <2>5 DEF L!Ceil
    <3>2. CASE r # 0
      <4>1. L!Ceil(d) = L!Dec(k + 1, 0)
        BY <3>1, <3>2
      <4>. QED BY <1>3, <2>12, <3>2, <4>1, UnitsOfInteger
    <3>3. CASE r = 0
      <4>1. L!Ceil(d) = L!Dec(k, 0)
        BY <3>1, <3>3
      <4>. QED BY <1>3, <2>7, <3>3, <4>1, UnitsOfInteger
    <3>. QED BY <3>2, <3>3
  <2>14. v < 0 <=> x < 0
    <3>1. x = v * u
      BY <1>1, <1>2, <2>2 DEF L!Units
    <3>2. 0 * u = 0
      OBVIOUS
    <3>. QED BY <3>1, <3>2, Scaled
  <2>15. L!Units(L!Truncate(d, 0)) = IF v < 0 /\ r # 0 THEN y + step ELSE y
    <3>1. 0 - e = -e /\ 0 > e
      BY <1>5
    <3>2. L!Truncate(d, 0) = L!Dec(L!Quo(v, E), 0)
      BY <1>1, <1>2, <2>1, <3>1, MinusZero DEF L!Truncate, L!rescale
    <3>3. L!Quo(v, E) = IF v < 0 /\ r # 0 THEN k + 1 ELSE k
      BY <2>6, QuoFloor
    <3>4. CASE v < 0 /\ r # 0
      <4>1. L!Truncate(d, 0) = L!Dec(k + 1, 0)
        BY <3>2, <3>3, <3>4
      <4>. QED BY <1>3, <2>12, <3>4, <4>1, UnitsOfInteger
    <3>5. CASE ~(v < 0 /\ r # 0)
      <4>1. L!Truncate(d, 0) = L!Dec(k, 0)
        BY <3>2, <3>3, <3>5
      <4>. QED BY <1>3, <2>7, <3>5, <4>1, UnitsOfInteger
    <3>. QED BY <3>4, <3>5
  <2>. QED BY <1>3, <2>9, <2>10, <2>11, <2>13, <2>14, <2>15
<1>. QED BY <1>4, <1>5

\* Div(d, w) for a whole number w: n steps of 10^-DivisionPrecision, nearest to the quotient.
LEMMA DivByWhole ==
    ASSUME NEW d, IsUnit(d), NEW x \in Int, x = L!Units(d), NEW w \in Nat \ {0}
    PROVE  \E n \in Int, G \in Nat \ {0} :
              /\ G = L!Ten[Scale - DivisionPrecision]
              /\ L!Div(d, L!Dec(w, 0)) = L!Dec(n, -DivisionPrecision)
              /\ 2 * L!Magnitude(x - w * n * G) <= w * G
<1>1. PICK p \in Nat : p = DivisionPrecision /\ p <= Scale
  BY ScaleFits
<1>2. PICK G \in Nat \ {0} : G = L!Ten[Scale - p]
  BY <1>1, Consts, TenType
<1>3. PICK d2 : d2 = L!Dec(w, 0)
  OBVIOUS
<1>4. IsUnit(d2) /\ d2.v = w /\ d2.e = 0 /\ d2.v # 0 /\ d2.e - p + Scale >= 0 /\ d2.e - p + Scale = Scale - p
  <2>1. 0 - p + Scale >= 0 /\ 0 - p + Scale = Scale - p /\ w \in Int /\ w # 0
    BY <1>1, Consts
  <2>. QED BY <1>3, <2>1, UnitsOfInteger, DecFields
<1>5. PICK u \in Nat \ {0}, A \in Int, B \in Int \ {0}, q \in Int, rm \in Int :
              DivShape(d, d2, p, u, A, B, q, rm)
  BY <1>4, QuoRemIs
<1>6. PICK n \in Int : /\ L!DivRound(d, d2, p) = L!Dec(n, -p)
                       /\ 2 * L!Magnitude(A - B * n) <= L!Magnitude(B)
  BY <1>1, <1>4, <1>5, DivRoundIs
<1>7. x = A * u /\ \A k \in Int : w * k * G = (B * k) * u
  BY <1>2, <1>4, <1>5 DEF DivShape
<1>8. w * G = B * u
  <2>1. w * 1 * G = w * G /\ (B * 1) * u = B * u
    OBVIOUS
  <2>2. w * 1 * G = (B * 1) * u
    BY <1>7
  <2>. QED BY <2>1, <2>2
<1>9. x - w * n * G = (A - B * n) * u
  <2>1. A * u - (B * n) * u = (A - B * n) * u
    OBVIOUS
  <2>. QED BY <1>7, <2>1
<1>10. PICK c \in Nat : c = L!Magnitude(A - B * n) /\ L!Magnitude((A - B * n) * u) = c * u
  <2>1. A - B * n \in Int
    OBVIOUS
  <2>. QED BY <2>1, MagnitudeTimes
<1>11. PICK b \in Nat : b = L!Magnitude(B) /\ L!Magnitude(B * u) = b * u
  BY MagnitudeTimes
<1>12. L!Magnitude(w * G) = w * G
  <2>1. w * G \in Nat
    OBVIOUS
  <2>2. \A z \in Nat : L!Magnitude(z) = z
    BY DEF L!Magnitude
  <2>. QED BY <2>1, <2>2
<1>13. (2 * c) * u <= b * u
  <2>1. 2 * c <= b /\ 2 * c \in Int /\ b \in Int
    BY <1>6, <1>10, <1>11
  <2>. QED BY <2>1, Scaled
<1>14. (2 * c) * u = 2 * (c * u)
  OBVIOUS
<1>15. 2 * L!Magnitude(x - w * n * G) <= w * G
  BY <1>8, <1>9, <1>10, <1>11, <1>12, <1>13, <1>14
<1>16. L!Div(d, L!Dec(w, 0)) = L!Dec(n, -DivisionPrecision)
  BY <1>1, <1>3, <1>6 DEF L!Div
<1>. QED BY <1>1, <1>2, <1>15, <1>16

\* What Mod leaves is less than the divisor and congruent to the number.
LEMMA ModOne ==
    ASSUME NEW d, IsUnit(d), NEW x \in Int, x = L!Units(d), NEW w \in Nat \ {0, 1}
    PROVE  LET m == L!Mod(d, L!Dec(w, 0))
           IN L!Magnitude(L!Units(m)) < w * L!Ten[Scale] /\ (L!Units(m) - x) % (w * L!Ten[Scale]) = 0
<1>1. PICK n \in Int, G \in Nat \ {0} :
              /\ G = L!Ten[Scale - DivisionPrecision]
              /\ L!Div(d, L!Dec(w, 0)) = L!Dec(n, -DivisionPrecision)
              /\ 2 * L!Magnitude(x - w * n * G) <= w * G
  BY DivByWhole
<1>2. PICK p \in Nat : p = DivisionPrecision /\ p <= Scale /\ p >= 2
  BY ScaleFits
<1>3. PICK E \in Nat \ {0} : E = L!Ten[p]
  BY TenType
<1>4. L!Ten[Scale] = E * G
  <2>1. Scale - p \in Nat /\ Scale = p + (Scale - p)
    BY <1>2, Consts
  <2>2. L!Ten[p + (Scale - p)] = L!Ten[p] * L!Ten[Scale - p]
    BY <2>1, TenSum
  <2>. QED BY <1>1, <1>2, <1>3, <2>1, <2>2
<1>5. PICK t \in Int, rm \in Int :
              /\ t = L!Quo(n, E) /\ n = E * t + rm /\ L!Magnitude(rm) < L!Magnitude(E)
  <2>1. E \in Int \ {0}
    OBVIOUS
  <2>. QED BY <2>1, QuoSplits
<1>6. L!Truncate(L!Div(d, L!Dec(w, 0)), 0) = L!Dec(t, 0)
  <2>1. 0 - (-p) = p /\ 0 > -p
    BY <1>2
  <2>2. L!Div(d, L!Dec(w, 0)).v = n /\ L!Div(d, L!Dec(w, 0)).e = -p
    BY <1>1, <1>2, DecFields
  <2>. QED BY <1>3, <1>5, <2>1, <2>2, MinusZero DEF L!Truncate, L!rescale
<1>7. PICK z : z = L!Mul(L!Dec(w, 0), L!Dec(t, 0))
  OBVIOUS
<1>8. IsUnit(z) /\ L!Units(z) = (w * t) * (E * G)
  <2>1. z.v = w * t /\ z.e = 0
    <3>1. 0 + 0 = 0
      OBVIOUS
    <3>. QED BY <1>7, <3>1, DecFields DEF L!Mul
  <2>2. 0 + Scale = Scale /\ 0 + Scale >= 0 /\ w * t \in Int
    BY Consts
  <2>. QED BY <1>4, <2>1, <2>2 DEF IsUnit, IsDec, L!Units
<1>9. L!Mod(d, L!Dec(w, 0)) = L!Sub(d, z)
  BY <1>6, <1>7 DEF L!Mod
<1>10. L!Units(L!Mod(d, L!Dec(w, 0))) = x - (w * t) * (E * G)
  BY <1>8, <1>9, UnitsOfSum
<1>11. PICK y \in Int : y = x - w * n * G
  OBVIOUS
<1>12. PICK wg \in Nat : wg = w * G /\ wg > 0
  OBVIOUS
<1>13. x - (w * t) * (E * G) = y + rm * wg
  <2>1. w * (E * t + rm) * G = (w * t) * (E * G) + rm * (w * G)
    OBVIOUS
  <2>2. w * n * G = (w * t) * (E * G) + rm * wg
    BY <1>5, <1>12, <2>1
  <2>. QED BY <1>11, <2>2
<1>14. PICK s \in Nat \ {0} : s = w * (E * G) /\ s = E * wg
  BY <1>12
<1>15. L!Magnitude(y + rm * wg) < s
  <2>1. PICK c \in Nat : c = L!Magnitude(rm) /\ L!Magnitude(rm * wg) = c * wg
    BY MagnitudeTimes
  <2>2. c <= E - 1
    <3>1. L!Magnitude(E) = E
      BY DEF L!Magnitude
    <3>. QED BY <1>5, <2>1, <3>1
  <2>3. c * wg <= (E - 1) * wg
    <3>1. c \in Int /\ E - 1 \in Int /\ wg \in Nat \ {0}
      BY <1>12
    <3>. QED BY <2>2, <3>1, Scaled
  <2>4. (E - 1) * wg = s - wg
    BY <1>14
  <2>5. PICK h \in Int : h = rm * wg
    OBVIOUS
  <2>6. L!Magnitude(h) <= s - wg
    BY <2>1, <2>3, <2>4, <2>5
  <2>7. 2 * L!Magnitude(y) <= wg
    BY <1>1, <1>11, <1>12
  <2>. QED BY <1>12, <2>5, <2>6, <2>7 DEF L!Magnitude
<1>16. (L!Units(L!Mod(d, L!Dec(w, 0))) - x) % s = 0
  <2>1. (w * t) * (E * G) = (w * (E * G)) * t
    OBVIOUS
  <2>2. s * (-t) = -(s * t)
    OBVIOUS
  <2>3. PICK k \in Int : k = s * t
    OBVIOUS
  <2>4. (x - k) - x = -k
    OBVIOUS
  <2>5. L!Units(L!Mod(d, L!Dec(w, 0))) - x = s * (-t)
    BY <1>10, <1>14, <2>1, <2>2, <2>3, <2>4
  <2>. QED BY <2>5, Multiple
<1>. QED BY <1>4, <1>10, <1>13, <1>14, <1>15, <1>16

\* Floor, Ceil, Truncate and Mod of a balance.
LEMMA IntegralRight == EInv => L!Integral
<1> SUFFICES ASSUME EInv PROVE L!Integral
  OBVIOUS
<1>1. PICK d : d = balance /\ IsUnit(d) /\ L!Units(d) = exact
  BY DEF EInv, L!Exact
<1>2. PICK x \in Int : x = L!Units(d)
  BY <1>1, UnitsType
<1>3. 2 \in Nat \ {0, 1}
  OBVIOUS
<1>4. LET m == L!Mod(d, L!Dec(2, 0))
      IN L!Magnitude(L!Units(m)) < 2 * L!Ten[Scale] /\ (L!Units(m) - x) % (2 * L!Ten[Scale]) = 0
  BY <1>1, <1>2, <1>3, ModOne
<1>5. /\ L!Units(L!Floor(d)) <= x /\ x < L!Units(L!Floor(d)) + L!Ten[Scale]
      /\ L!Units(L!Ceil(d)) - L!Ten[Scale] < x /\ x <= L!Units(L!Ceil(d))
      /\ IF x < 0 THEN L!Units(L!Truncate(d, 0)) = L!Units(L!Ceil(d))
                  ELSE L!Units(L!Truncate(d, 0)) = L!Units(L!Floor(d))
  BY <1>1, <1>2, IntegralOne
<1>. QED BY <1>1, <1>2, <1>4, <1>5, Zenon DEF L!Integral

-----------------------------------------------------------------------------
(* Cash                                                                    *)

LEMMA UnitsOfTimes ==
    ASSUME NEW d, IsUnit(d), NEW x \in Int, x = L!Units(d), NEW c \in Int
    PROVE  IsUnit(L!Mul(d, L!Dec(c, 0))) /\ L!Units(L!Mul(d, L!Dec(c, 0))) = x * c
<1>1. PICK v \in Int : v = d.v
  BY DEF IsUnit, IsDec
<1>2. PICK e \in Int : e = d.e /\ e + Scale >= 0
  BY DEF IsUnit, IsDec
<1>3. PICK u \in Nat : u = L!Ten[e + Scale]
  BY <1>2, Consts, TenType
<1>4. L!Mul(d, L!Dec(c, 0)).v = v * c /\ L!Mul(d, L!Dec(c, 0)).e = e
  <2>1. e + 0 = e
    OBVIOUS
  <2>. QED BY <1>1, <1>2, <2>1, DecFields DEF L!Mul
<1>5. v * c * u = (v * u) * c /\ v * c \in Int
  OBVIOUS
<1>. QED BY <1>1, <1>2, <1>3, <1>4, <1>5 DEF IsUnit, IsDec, L!Units

\* c coins of i cents are one unit.
Coins(c, i) == c * i = 100

\* A whole number of coins, divided by the coins of a unit and cut after the cents, is
\* that many coins.
LEMMA CoinsExact ==
    ASSUME NEW i \in Nat \ {0}, NEW c \in Nat \ {0}, Coins(c, i), NEW k \in Int
    PROVE  L!Truncate(L!Div(L!Dec(k, 0), L!Dec(c, 0)), 2) = L!Dec(k * i, -2)
<1>1. PICK p \in Nat : p = DivisionPrecision /\ p <= Scale /\ p >= 2
  BY ScaleFits
<1>2. PICK x \in Int : x = k * L!Ten[Scale] /\ x = L!Units(L!Dec(k, 0)) /\ IsUnit(L!Dec(k, 0))
  <2>1. PICK s \in Nat : s = L!Ten[Scale]
    BY Consts, TenType
  <2>. QED BY <2>1, UnitsOfInteger
<1>3. PICK n \in Int, G \in Nat \ {0} :
              /\ G = L!Ten[Scale - DivisionPrecision]
              /\ L!Div(L!Dec(k, 0), L!Dec(c, 0)) = L!Dec(n, -DivisionPrecision)
              /\ 2 * L!Magnitude(x - c * n * G) <= c * G
  BY <1>2, DivByWhole
<1>4. PICK t \in Nat \ {0} : t = L!Ten[p - 2]
  BY <1>1, TenType
<1>5. L!Ten[p] = 100 * t
  <2>1. p - 2 \in Nat /\ (p - 2) + 1 \in Nat /\ p = ((p - 2) + 1) + 1
    BY <1>1
  <2>2. L!Ten[(p - 2) + 1] = 10 * t
    BY <1>4, <2>1, TenSteps
  <2>3. L!Ten[((p - 2) + 1) + 1] = 10 * L!Ten[(p - 2) + 1]
    BY <2>1, TenSteps
  <2>4. 10 * (10 * t) = 100 * t
    OBVIOUS
  <2>. QED BY <2>1, <2>2, <2>3, <2>4
<1>6. L!Ten[Scale] = (100 * t) * G
  <2>1. Scale - p \in Nat /\ Scale = p + (Scale - p)
    BY <1>1, Consts
  <2>2. L!Ten[p + (Scale - p)] = L!Ten[p] * L!Ten[Scale - p]
    BY <2>1, TenSum
  <2>. QED BY <1>1, <1>3, <1>5, <2>1, <2>2
<1>7. PICK z \in Int : z = k * i
  OBVIOUS
<1>8. x = c * (z * t) * G
  <2>1. k * (((c * i) * t) * G) = c * ((k * i) * t) * G
    OBVIOUS
  <2>. QED BY <1>2, <1>6, <1>7, <2>1 DEF Coins
<1>9. n = z * t
  <2>1. PICK y \in Int : y = z * t - n
    OBVIOUS
  <2>2. PICK g \in Nat \ {0} : g = c * G
    OBVIOUS
  <2>3. x - c * n * G = y * g
    <3>1. c * (z * t) * G - c * n * G = (z * t - n) * (c * G)
      OBVIOUS
    <3>. QED BY <1>8, <2>1, <2>2, <3>1
  <2>4. PICK m \in Nat : m = L!Magnitude(y) /\ L!Magnitude(y * g) = m * g
    BY MagnitudeTimes
  <2>5. (2 * m) * g <= 1 * g
    <3>1. 2 * (m * g) = (2 * m) * g /\ 1 * g = g
      OBVIOUS
    <3>. QED BY <1>3, <2>2, <2>3, <2>4, <3>1
  <2>6. 2 * m <= 1
    <3>1. 2 * m \in Int /\ 1 \in Int
      OBVIOUS
    <3>. QED BY <2>5, <3>1, Scaled
  <2>7. y = 0
    BY <2>4, <2>6 DEF L!Magnitude
  <2>8. z * t \in Int
    OBVIOUS
  <2>. QED BY <2>1, <2>7, <2>8
<1>10. L!Div(L!Dec(k, 0), L!Dec(c, 0)) = L!Dec(z * t, -p)
  BY <1>1, <1>3, <1>9
<1>11. CASE p = 2
  <2>1. t = 1
    <3>1. p - 2 = 0
      BY <1>11
    <3>. QED BY <1>4, <3>1, TenSteps
  <2>2. z * t = z
    BY <2>1
  <2>3. ~(-2 > -2)
    OBVIOUS
  <2>4. L!Div(L!Dec(k, 0), L!Dec(c, 0)) = L!Dec(z, -2)
    BY <1>10, <1>11, <2>2
  <2>. QED BY <1>7, <2>3, <2>4, DecFields DEF L!Truncate
<1>12. CASE p # 2
  <2>1. -2 > -p /\ -2 - (-p) = p - 2
    BY <1>1, <1>12
  <2>2. PICK v \in Int : v = z * t /\ v = t * z + 0
    OBVIOUS
  <2>3. L!Quo(v, t) = z
    <3>1. 0 \in 0 .. t - 1
      OBVIOUS
    <3>2. L!Quo(v, t) = IF v < 0 /\ 0 # 0 THEN z + 1 ELSE z
      BY <2>2, <3>1, QuoFloor
    <3>. QED BY <3>2
  <2>4. L!Div(L!Dec(k, 0), L!Dec(c, 0)).v = v /\ L!Div(L!Dec(k, 0), L!Dec(c, 0)).e = -p
    BY <1>10, <2>2, DecFields
  <2>. QED BY <1>4, <1>7, <2>1, <2>3, <2>4 DEF L!Truncate, L!rescale
<1>. QED BY <1>11, <1>12

LEMMA CashOne ==
    ASSUME NEW d, IsUnit(d), NEW x \in Int, x = L!Units(d),
           NEW i \in Nat \ {0}, NEW c \in Nat \ {0}, Coins(c, i), c = L!iVal(i), i # 15
    PROVE  LET r == L!RoundCash(d, i)
               coin == i * L!Ten[Scale - 2]
               err == L!Magnitude(L!Units(r) - x)
           IN /\ L!Units(r) % coin = 0
              /\ 2 * err <= coin
              /\ 2 * err = coin => L!Magnitude(L!Units(r)) > L!Magnitude(x)
<1>1. PICK d1 : d1 = L!Mul(d, L!Dec(c, 0))
  OBVIOUS
<1>2. IsUnit(d1) /\ L!Units(d1) = x * c
  BY <1>1, UnitsOfTimes
<1>3. PICK r1 : r1 = L!Round(d1, 0)
  OBVIOUS
<1>4. PICK N \in Nat, m \in Nat, step \in Nat \ {0}, M \in Nat : RoundShape(d1, 0, r1, N, m, step, M)
  <2>1. 0 \in Int /\ 0 + 1 <= Scale
    BY ScaleFits
  <2>. QED BY <1>2, <1>3, <2>1, RoundUnits
<1>5. PICK k \in Int : r1 = L!Dec(k, 0)
  <2>1. PICK NN \in Nat, mm \in Nat, ss \in Nat \ {0} :
              /\ ss = L!Ten[Scale - 0]
              /\ L!Units(d1) = (IF d1.v < 0 THEN -NN ELSE NN) /\ (d1.v = 0 <=> NN = 0)
              /\ L!Round(d1, 0) = L!Dec(IF d1.v < 0 THEN -mm ELSE mm, -0)
              /\ Closest(NN, mm, ss)
    <3>1. 0 \in Int /\ 0 + 1 <= Scale
      BY ScaleFits
    <3>. QED BY <1>2, <1>3, <3>1, RoundIs
  <2>2. (IF d1.v < 0 THEN -mm ELSE mm) \in Int
    OBVIOUS
  <2>. QED BY <1>3, <2>1, <2>2, MinusZero
<1>6. L!RoundCash(d, i) = L!Dec(k * i, -2)
  <2>1. L!RoundCash(d, i) = L!Truncate(L!Div(r1, L!Dec(c, 0)), 2)
    BY <1>1, <1>3 DEF L!RoundCash
  <2>. QED BY <1>5, <2>1, CoinsExact
<1>7. PICK h \in Nat \ {0} : h = L!Ten[Scale - 2]
  BY ScaleFits, TenType
<1>8. PICK coin \in Nat \ {0} : coin = i * h
  OBVIOUS
<1>9. L!Ten[Scale] = coin * c
  <2>1. Scale - 2 \in Nat /\ (Scale - 2) + 1 \in Nat /\ Scale = ((Scale - 2) + 1) + 1
    BY ScaleFits
  <2>2. L!Ten[(Scale - 2) + 1] = 10 * h
    BY <1>7, <2>1, TenSteps
  <2>3. L!Ten[((Scale - 2) + 1) + 1] = 10 * L!Ten[(Scale - 2) + 1]
    BY <2>1, TenSteps
  <2>4. 10 * (10 * h) = 100 * h /\ (c * i) * h = (i * h) * c
    OBVIOUS
  <2>5. 10 * (10 * h) = (i * h) * c
    BY <2>4 DEF Coins
  <2>. QED BY <1>8, <2>5, <2>1, <2>2, <2>3, <2>4
<1>10. PICK y \in Int : y = k * coin
  OBVIOUS
<1>11. L!Units(L!RoundCash(d, i)) = y
  <2>1. -2 \in Int /\ -2 + Scale >= 0 /\ -2 + Scale = Scale - 2 /\ k * i \in Int
    BY ScaleFits
  <2>2. L!Units(L!Dec(k * i, -2)) = (k * i) * h
    BY <1>7, <2>1, UnitsOfDec
  <2>3. (k * i) * h = k * (i * h)
    OBVIOUS
  <2>. QED BY <1>6, <1>8, <1>10, <2>2, <2>3
<1>12. L!Units(r1) = y * c
  <2>1. L!Units(r1) = k * (coin * c)
    BY <1>5, <1>9, UnitsOfInteger
  <2>2. k * (coin * c) = (k * coin) * c
    OBVIOUS
  <2>. QED BY <1>10, <2>1, <2>2
<1>13. step = coin * c
  <2>1. Scale - 0 = Scale
    BY ScaleFits
  <2>. QED BY <1>4, <1>9, <2>1 DEF RoundShape
<1>14. /\ 2 * L!Magnitude(y * c - x * c) <= step
       /\ 2 * L!Magnitude(y * c - x * c) = step => L!Magnitude(y * c) > L!Magnitude(x * c)
  BY <1>2, <1>4, <1>12 DEF RoundShape, Closest
<1>15. PICK a \in Nat : a = L!Magnitude(y - x) /\ L!Magnitude((y - x) * c) = a * c
  <2>1. y - x \in Int
    OBVIOUS
  <2>. QED BY <2>1, MagnitudeTimes
<1>16. y * c - x * c = (y - x) * c /\ 2 * (a * c) = (2 * a) * c
  OBVIOUS
<1>17. (2 * a) * c <= coin * c /\ ((2 * a) * c = coin * c => L!Magnitude(y * c) > L!Magnitude(x * c))
  BY <1>13, <1>14, <1>15, <1>16
<1>18. 2 * a <= coin /\ (2 * a = coin => (2 * a) * c = coin * c)
  <2>1. 2 * a \in Int /\ coin \in Int
    OBVIOUS
  <2>. QED BY <1>17, <2>1, Scaled
<1>19. L!Magnitude(y * c) > L!Magnitude(x * c) => L!Magnitude(y) > L!Magnitude(x)
  <2>1. PICK f, g \in Nat : f = L!Magnitude(y) /\ g = L!Magnitude(x)
    BY MagnitudeTimes
  <2>2. L!Magnitude(y * c) = f * c /\ L!Magnitude(x * c) = g * c
    BY <2>1, MagnitudeTimes
  <2>3. g < f <=> g * c < f * c
    BY Scaled
  <2>. QED BY <2>1, <2>2, <2>3
<1>20. y % coin = 0
  BY <1>10, Multiple
<1>. QED BY <1>7, <1>8, <1>11, <1>15, <1>17, <1>18, <1>19, <1>20

\* RoundCash of a balance.
LEMMA CashRight == EInv => L!CashNearest
<1> SUFFICES ASSUME EInv PROVE L!CashNearest
  OBVIOUS
<1>1. PICK d : d = balance /\ IsUnit(d) /\ L!Units(d) = exact
  BY DEF EInv, L!Exact
<1>2. PICK x \in Int : x = L!Units(d)
  BY <1>1, UnitsType
<1>3. ASSUME NEW i \in {5, 10, 25, 50, 100}
      PROVE  \E c \in Nat \ {0} : i \in Nat \ {0} /\ Coins(c, i) /\ c = L!iVal(i) /\ i # 15
  <2>1. L!iVal(5) = 20 /\ L!iVal(10) = 10 /\ L!iVal(25) = 4 /\ L!iVal(50) = 2 /\ L!iVal(100) = 1
    BY DEF L!iVal
  <2>. QED BY <2>1 DEF Coins
<1>4. ASSUME NEW i \in {5, 10, 25, 50, 100}
      PROVE  LET r == L!RoundCash(d, i)
                 coin == i * L!Ten[Scale - 2]
                 err == L!Magnitude(L!Units(r) - x)
             IN /\ L!Units(r) % coin = 0
                /\ 2 * err <= coin
                /\ 2 * err = coin => L!Magnitude(L!Units(r)) > L!Magnitude(x)
  <2>1. PICK c \in Nat \ {0} : i \in Nat \ {0} /\ Coins(c, i) /\ c = L!iVal(i) /\ i # 15
    BY <1>3
  <2>. QED BY <1>1, <1>2, <2>1, CashOne
<1>. QED BY <1>1, <1>2, <1>4, Zenon DEF L!CashNearest

-----------------------------------------------------------------------------
(* Floats                                                                  *)

LEMMA SmallPowers ==
    /\ L!Two[0] = 1 /\ L!Two[1] = 2 /\ L!Two[2] = 4 /\ L!Two[3] = 8 /\ L!Two[4] = 16
    /\ L!Five[0] = 1 /\ L!Five[1] = 5 /\ L!Five[2] = 25
<1>1. \A n \in Nat : L!Two[n] = IF n = 0 THEN 1 ELSE 2 * L!Two[n - 1]
  BY TwoIs
<1>2. \A n \in Nat : L!Five[n] = IF n = 0 THEN 1 ELSE 5 * L!Five[n - 1]
  BY FiveIs
<1>3. 0 \in Nat /\ 1 \in Nat /\ 2 \in Nat /\ 3 \in Nat /\ 4 \in Nat
  OBVIOUS
<1>4. 1 - 1 = 0 /\ 2 - 1 = 1 /\ 3 - 1 = 2 /\ 4 - 1 = 3
  OBVIOUS
<1>5. L!Two[0] = 1 /\ L!Five[0] = 1
  BY <1>1, <1>2
<1>6. L!Two[1] = 2 /\ L!Five[1] = 5
  BY <1>1, <1>2, <1>4, <1>5
<1>7. L!Two[2] = 4 /\ L!Five[2] = 25
  BY <1>1, <1>2, <1>4, <1>6
<1>8. L!Two[3] = 8
  BY <1>1, <1>4, <1>7
<1>9. L!Two[4] = 16
  BY <1>1, <1>4, <1>8
<1>. QED BY <1>5, <1>6, <1>7, <1>8, <1>9

\* 10^e in hundredths.
Cents(e) == CASE e = -2 -> 1 [] e = -1 -> 10 [] e = 0 -> 100 [] e = 1 -> 1000

LEMMA CentsAre == Cents(-2) = 1 /\ Cents(-1) = 10 /\ Cents(0) = 100 /\ Cents(1) = 1000
  BY DEF Cents

\* The exponent used, and the factors the mantissa is multiplied with and divided by.
FloatShape(exp2, exp, ex, t, a) ==
    /\ ex \in -2 .. 1 /\ t \in Nat \ {0} /\ a \in Nat \ {0}
    /\ a * (4 * Cents(ex)) = t * (100 * L!Two[exp2 + 2])
    /\ ex >= exp /\ (ex > exp => t = 1)

LEMMA FloatIs ==
    ASSUME NEW mant \in Nat \ {0}, NEW exp2 \in -2 .. 2, NEW exp \in -2 .. 1, NEW neg \in BOOLEAN
    PROVE  \E ex, t, a, m :
              /\ FloatShape(exp2, exp, ex, t, a)
              /\ m = (mant * a + (t \div 2)) \div t
              /\ L!NewFromFloatWithExponent(neg, mant, exp2, exp) = L!Dec(IF neg THEN -m ELSE m, ex)
<1> DEFINE ex == IF exp < 0 /\ exp < exp2 THEN IF exp2 < 0 THEN exp2 ELSE 0 ELSE exp
           shift == exp2 - ex
           f == IF ex > 0 THEN L!Five[ex] ELSE 1
           s == IF shift < 0 THEN L!Two[-shift] ELSE 1
           g == IF ex < 0 THEN L!Five[-ex] ELSE 1
           h == IF shift > 0 THEN L!Two[shift] ELSE 1
           m == IF ex > 0 \/ shift < 0 THEN (mant * g * h + L!halfDown(f * s)) \div (f * s) ELSE mant * g * h
<1>1. L!NewFromFloatWithExponent(neg, mant, exp2, exp) = L!Dec(IF neg THEN -m ELSE m, ex)
  BY DEF L!NewFromFloatWithExponent
<1>2. \/ ex = 1 /\ shift = -3 /\ exp2 = -2 /\ exp = 1
      \/ ex = 1 /\ shift = -2 /\ exp2 = -1 /\ exp = 1
      \/ ex = 1 /\ shift = -1 /\ exp2 = 0 /\ exp = 1
      \/ ex = 1 /\ shift = 0 /\ exp2 = 1 /\ exp = 1
      \/ ex = 1 /\ shift = 1 /\ exp2 = 2 /\ exp = 1
      \/ ex = 0 /\ shift = -2 /\ exp2 = -2 /\ exp = 0
      \/ ex = 0 /\ shift = -1 /\ exp2 = -1 /\ exp = 0
      \/ ex = 0 /\ shift = 0 /\ exp2 = 0 /\ exp <= 0
      \/ ex = 0 /\ shift = 1 /\ exp2 = 1 /\ exp <= 0
      \/ ex = 0 /\ shift = 2 /\ exp2 = 2 /\ exp <= 0
      \/ ex = -1 /\ shift = -1 /\ exp2 = -2 /\ exp = -1
      \/ ex = -1 /\ shift = 0 /\ exp2 = -1 /\ exp <= -1
      \/ ex = -2 /\ shift = 0 /\ exp2 = -2 /\ exp = -2
  OBVIOUS
<1> HIDE DEF ex, shift
<1>3. -2 + 2 = 0 /\ -1 + 2 = 1 /\ 0 + 2 = 2 /\ 1 + 2 = 3 /\ 2 + 2 = 4
  OBVIOUS
<1>4. \E t, a : /\ t = f * s /\ a = g * h /\ FloatShape(exp2, exp, ex, t, a)
                /\ t \in Nat \ {0} /\ a \in Nat
                /\ (ex > 0 \/ shift < 0) \/ t = 1
                /\ mant * g * h = mant * a
  <2>1. CASE ex = 1 /\ shift = -3 /\ exp2 = -2 /\ exp = 1
    <3>1. f = 5 /\ s = 8 /\ g = 1 /\ h = 1
      BY <1>3, <2>1, SmallPowers
    <3>. QED BY <1>3, <2>1, <3>1, SmallPowers, CentsAre DEF FloatShape
  <2>2. CASE ex = 1 /\ shift = -2 /\ exp2 = -1 /\ exp = 1
    <3>1. f = 5 /\ s = 4 /\ g = 1 /\ h = 1
      BY <1>3, <2>2, SmallPowers
    <3>. QED BY <1>3, <2>2, <3>1, SmallPowers, CentsAre DEF FloatShape
  <2>3. CASE ex = 1 /\ shift = -1 /\ exp2 = 0 /\ exp = 1
    <3>1. f = 5 /\ s = 2 /\ g = 1 /\ h = 1
      BY <1>3, <2>3, SmallPowers
    <3>. QED BY <1>3, <2>3, <3>1, SmallPowers, CentsAre DEF FloatShape
  <2>4. CASE ex = 1 /\ shift = 0 /\ exp2 = 1 /\ exp = 1
    <3>1. f = 5 /\ s = 1 /\ g = 1 /\ h = 1
      BY <1>3, <2>4, SmallPowers
    <3>. QED BY <1>3, <2>4, <3>1, SmallPowers, CentsAre DEF FloatShape
  <2>5. CASE ex = 1 /\ shift = 1 /\ exp2 = 2 /\ exp = 1
    <3>1. f = 5 /\ s = 1 /\ g = 1 /\ h = 2
      BY <1>3, <2>5, SmallPowers
    <3>. QED BY <1>3, <2>5, <3>1, SmallPowers, CentsAre DEF FloatShape
  <2>6. CASE ex = 0 /\ shift = -2 /\ exp2 = -2 /\ exp = 0
    <3>1. f = 1 /\ s = 4 /\ g = 1 /\ h = 1
      BY <1>3, <2>6, SmallPowers
    <3>. QED BY <1>3, <2>6, <3>1, SmallPowers, CentsAre DEF FloatShape
  <2>7. CASE ex = 0 /\ shift = -1 /\ exp2 = -1 /\ exp = 0
    <3>1. f = 1 /\ s = 2 /\ g = 1 /\ h = 1
      BY <1>3, <2>7, SmallPowers
    <3>. QED BY <1>3, <2>7, <3>1, SmallPowers, CentsAre DEF FloatShape
  <2>8. CASE ex = 0 /\ shift = 0 /\ exp2 = 0 /\ exp <= 0
    <3>1. f = 1 /\ s = 1 /\ g = 1 /\ h = 1
      BY <1>3, <2>8, SmallPowers
    <3>. QED BY <1>3, <2>8, <3>1, SmallPowers, CentsAre DEF FloatShape
  <2>9. CASE ex = 0 /\ shift = 1 /\ exp2 = 1 /\ exp <= 0
    <3>1. f = 1 /\ s = 1 /\ g = 1 /\ h = 2
      BY <1>3, <2>9, SmallPowers
    <3>. QED BY <1>3, <2>9, <3>1, SmallPowers, CentsAre DEF FloatShape
  <2>10. CASE ex = 0 /\ shift = 2 /\ exp2 = 2 /\ exp <= 0
    <3>1. f = 1 /\ s = 1 /\ g = 1 /\ h = 4
      BY <1>3, <2>10, SmallPowers
    <3>. QED BY <1>3, <2>10, <3>1, SmallPowers, CentsAre DEF FloatShape
  <2>11. CASE ex = -1 /\ shift = -1 /\ exp2 = -2 /\ exp = -1
    <3>1. f = 1 /\ s = 2 /\ g = 5 /\ h = 1
      BY <1>3, <2>11, SmallPowers
    <3>. QED BY <1>3, <2>11, <3>1, SmallPowers, CentsAre DEF FloatShape
  <2>12. CASE ex = -1 /\ shift = 0 /\ exp2 = -1 /\ exp <= -1
    <3>1. f = 1 /\ s = 1 /\ g = 5 /\ h = 1
      BY <1>3, <2>12, SmallPowers
    <3>. QED BY <1>3, <2>12, <3>1, SmallPowers, CentsAre DEF FloatShape
  <2>13. CASE ex = -2 /\ shift = 0 /\ exp2 = -2 /\ exp = -2
    <3>1. f = 1 /\ s = 1 /\ g = 25 /\ h = 1
      BY <1>3, <2>13, SmallPowers
    <3>. QED BY <1>3, <2>13, <3>1, SmallPowers, CentsAre DEF FloatShape
  <2>. QED BY <1>2, <2>1, <2>2, <2>3, <2>4, <2>5, <2>6, <2>7, <2>8, <2>9, <2>10, <2>11, <2>12, <2>13
<1>5. PICK t, a : /\ t = f * s /\ a = g * h /\ FloatShape(exp2, exp, ex, t, a)
                  /\ t \in Nat \ {0} /\ a \in Nat
                  /\ (ex > 0 \/ shift < 0) \/ t = 1
                  /\ mant * g * h = mant * a
  BY <1>4
<1>6. m = IF ex > 0 \/ shift < 0 THEN (mant * a + (t \div 2)) \div t ELSE mant * a
  BY <1>5 DEF L!halfDown
<1> HIDE DEF m, f, s, g, h
<1>7. PICK x \in Nat : x = mant * a
  BY <1>5
<1>8. t = 1 => (x + (t \div 2)) \div t = x
  <2>1. (x + (1 \div 2)) \div 1 = x
    OBVIOUS
  <2>. QED BY <2>1
<1>9. m = (mant * a + (t \div 2)) \div t
  BY <1>5, <1>6, <1>7, <1>8
<1>. QED BY <1>1, <1>5, <1>9

LEMMA CentsOf ==
    ASSUME NEW e \in -2 .. 1
    PROVE  L!Ten[e + Scale] = Cents(e) * L!Ten[Scale - 2] /\ Cents(e) \in Nat \ {0}
<1>1. PICK h \in Nat : h = L!Ten[Scale - 2]
  BY ScaleFits, TenType
<1>2. PICK n \in Nat : n = Scale - 2
  BY ScaleFits
<1>3. -2 + Scale = n /\ -1 + Scale = n + 1 /\ 0 + Scale = (n + 1) + 1 /\ 1 + Scale = ((n + 1) + 1) + 1
  BY <1>2, ScaleFits
<1>4. L!Ten[n] = 1 * h /\ L!Ten[n + 1] = 10 * h
  BY <1>1, <1>2, TenSteps
<1>5. L!Ten[(n + 1) + 1] = 100 * h
  BY <1>4, TenSteps
<1>6. L!Ten[((n + 1) + 1) + 1] = 1000 * h
  BY <1>5, TenSteps
<1>7. e = -2 \/ e = -1 \/ e = 0 \/ e = 1
  OBVIOUS
<1>8. CASE e = -2
  BY <1>1, <1>3, <1>4, <1>8, CentsAre
<1>9. CASE e = -1
  BY <1>1, <1>3, <1>4, <1>9, CentsAre
<1>10. CASE e = 0
  BY <1>1, <1>3, <1>5, <1>10, CentsAre
<1>11. CASE e = 1
  BY <1>1, <1>3, <1>6, <1>11, CentsAre
<1>. QED BY <1>7, <1>8, <1>9, <1>10, <1>11

\* Half the divisor added before a division makes it a rounding.
LEMMA HalfAdded ==
    ASSUME NEW x \in Nat, NEW t \in Nat \ {0}, NEW m, m = (x + (t \div 2)) \div t
    PROVE  m \in Nat /\ 2 * L!Magnitude(t * m - x) <= t
<1>1. PICK h \in Nat : h = t \div 2 /\ 2 * h <= t /\ t <= 2 * h + 1
  OBVIOUS
<1>2. PICK y \in Nat : y = x + h
  OBVIOUS
<1>3. m \in Nat
  BY <1>1, <1>2, DivMod
<1>4. PICK r \in 0 .. t - 1 : y = t * m + r
  <2>1. y % t \in 0 .. t - 1 /\ y = t * (y \div t) + (y % t)
    BY DivMod
  <2>. QED BY <1>1, <1>2, <2>1
<1>5. PICK z \in Int : z = t * m
  BY <1>3
<1>6. z - x = h - r
  BY <1>2, <1>4, <1>5
<1>. QED BY <1>1, <1>3, <1>5, <1>6 DEF L!Magnitude

LEMMA FloatOne ==
    ASSUME NEW mant \in Nat \ {0}, NEW exp2 \in -2 .. 2, NEW exp \in -2 .. 1, NEW neg \in BOOLEAN
    PROVE  LET r == L!NewFromFloatWithExponent(neg, mant, exp2, exp)
               err == L!Magnitude(4 * L!Magnitude(L!Units(r)) - mant * L!Two[exp2 + 2] * L!Ten[Scale])
           IN r.e >= exp /\ err <= 2 * L!Ten[Scale + exp] /\ (neg => r.v <= 0)
<1>1. PICK ex, t, a, m :
              /\ FloatShape(exp2, exp, ex, t, a)
              /\ m = (mant * a + (t \div 2)) \div t
              /\ L!NewFromFloatWithExponent(neg, mant, exp2, exp) = L!Dec(IF neg THEN -m ELSE m, ex)
  BY FloatIs
<1>2. /\ ex \in -2 .. 1 /\ t \in Nat \ {0} /\ a \in Nat \ {0}
      /\ a * (4 * Cents(ex)) = t * (100 * L!Two[exp2 + 2])
      /\ ex >= exp /\ (ex > exp => t = 1)
  BY <1>1 DEF FloatShape
<1>3. PICK x \in Nat : x = mant * a
  BY <1>2
<1>4. m \in Nat /\ 2 * L!Magnitude(t * m - x) <= t
  BY <1>1, <1>2, <1>3, HalfAdded
<1>5. PICK K \in Nat \ {0} : K = Cents(ex)
  BY <1>2, CentsOf
<1>6. PICK w \in Nat : w = L!Two[exp2 + 2]
  <2>1. exp2 + 2 \in {0, 1, 2, 3, 4}
    OBVIOUS
  <2>. QED BY <2>1, SmallPowers
<1>7. PICK d \in Int : d = 4 * (m * K) - mant * w * 100
  <2>1. m * K \in Int /\ mant * w \in Int
    BY <1>4
  <2>2. \A p, q \in Int : 4 * p - q * 100 \in Int
    OBVIOUS
  <2>. QED BY <2>1, <2>2
<1>8. PICK y \in Int : y = t * m - x
  BY <1>2, <1>4
<1>9. t * d = y * (4 * K)
  <2>1. t * (4 * (m * K) - mant * w * 100) = (t * m) * (4 * K) - mant * (t * (100 * w))
    BY <1>2, <1>4
  <2>2. mant * (t * (100 * w)) = mant * (a * (4 * K))
    BY <1>2, <1>5, <1>6
  <2>3. mant * (a * (4 * K)) = (mant * a) * (4 * K)
    BY <1>2
  <2>4. (t * m) * (4 * K) - x * (4 * K) = (t * m - x) * (4 * K)
    BY <1>2, <1>4
  <2>. QED BY <1>3, <1>7, <1>8, <2>1, <2>2, <2>3, <2>4
<1>10. L!Magnitude(d) <= 2 * Cents(exp)
  <2>1. CASE ex = exp
    <3>1. PICK n \in Nat : n = L!Magnitude(d) /\ L!Magnitude(d * t) = n * t
      BY <1>2, MagnitudeTimes
    <3>2. PICK k \in Nat : k = L!Magnitude(y) /\ L!Magnitude(y * (4 * K)) = k * (4 * K)
      <4>1. 4 * K \in Nat
        OBVIOUS
      <4>. QED BY <4>1, MagnitudeTimes
    <3>3. n * t = k * (4 * K)
      <4>1. t * d = d * t
        BY <1>2
      <4>. QED BY <1>9, <3>1, <3>2, <4>1
    <3>4. 2 * k <= t
      BY <1>4, <1>8, <3>2
    <3>5. (2 * k) * (2 * K) <= t * (2 * K)
      <4>1. 2 * k \in Int /\ t \in Int /\ 2 * K \in Nat \ {0}
        BY <1>2
      <4>. QED BY <3>4, <4>1, Scaled
    <3>6. n * t <= (2 * K) * t
      <4>1. (2 * k) * (2 * K) = k * (4 * K) /\ t * (2 * K) = (2 * K) * t
        BY <1>2
      <4>. QED BY <3>3, <3>5, <4>1
    <3>7. n <= 2 * K
      <4>1. n \in Int /\ 2 * K \in Int
        OBVIOUS
      <4>. QED BY <1>2, <3>6, <4>1, Scaled
    <3>. QED BY <1>5, <2>1, <3>1, <3>7
  <2>2. CASE ex > exp
    <3>1. t = 1
      BY <1>2, <2>2
    <3>2. y = 0
      BY <1>4, <1>8, <3>1 DEF L!Magnitude
    <3>3. 1 * d = d /\ 0 * (4 * K) = 0
      OBVIOUS
    <3>4. d = 0
      BY <1>9, <3>1, <3>2, <3>3
    <3>. QED BY <3>4, CentsOf DEF L!Magnitude
  <2>. QED BY <1>2, <2>1, <2>2
<1>11. PICK h \in Nat \ {0} : h = L!Ten[Scale - 2]
  BY ScaleFits, TenType
<1>12. PICK r : r = L!NewFromFloatWithExponent(neg, mant, exp2, exp)
  OBVIOUS
<1>13. PICK v \in Int : v = (IF neg THEN -m ELSE m) /\ L!Magnitude(v) = m /\ (neg => v <= 0)
  <2>1. CASE neg
    BY <1>4, <2>1 DEF L!Magnitude
  <2>2. CASE ~neg
    BY <1>4, <2>2 DEF L!Magnitude
  <2>. QED BY <2>1, <2>2
<1>14. r.v = v /\ r.e = ex
  BY <1>1, <1>12, <1>13, DecFields
<1>15. L!Magnitude(L!Units(r)) = m * (K * h)
  <2>1. K * h \in Nat
    OBVIOUS
  <2>2. L!Units(r) = v * (K * h)
    BY <1>2, <1>5, <1>11, <1>14, CentsOf DEF L!Units
  <2>. QED BY <1>13, <2>1, <2>2, MagnitudeTimes
<1>16. L!Ten[Scale] = 100 * h
  <2>1. 0 \in -2 .. 1 /\ 0 + Scale = Scale
    BY ScaleFits
  <2>. QED BY <1>11, <2>1, CentsOf, CentsAre
<1>17. L!Ten[Scale + exp] = Cents(exp) * h
  <2>1. Scale + exp = exp + Scale
    BY ScaleFits
  <2>. QED BY <1>11, <2>1, CentsOf
<1>18. 4 * (m * (K * h)) - mant * w * (100 * h) = d * h
  <2>1. 4 * (m * (K * h)) - mant * w * (100 * h) = (4 * (m * K) - mant * w * 100) * h
    BY <1>4
  <2>. QED BY <1>7, <2>1
<1>19. L!Magnitude(d * h) <= 2 * (Cents(exp) * h)
  <2>1. PICK n \in Nat : n = L!Magnitude(d) /\ L!Magnitude(d * h) = n * h
    BY MagnitudeTimes
  <2>2. PICK c \in Nat : c = Cents(exp)
    BY CentsOf
  <2>3. n * h <= (2 * c) * h
    <3>1. n \in Int /\ 2 * c \in Int /\ n <= 2 * c
      BY <1>10, <2>1, <2>2
    <3>. QED BY <3>1, Scaled
  <2>4. (2 * c) * h = 2 * (c * h)
    OBVIOUS
  <2>. QED BY <2>1, <2>2, <2>3, <2>4
<1>20. L!Magnitude(4 * L!Magnitude(L!Units(r)) - mant * L!Two[exp2 + 2] * L!Ten[Scale]) <= 2 * L!Ten[Scale + exp]
  BY <1>6, <1>15, <1>16, <1>17, <1>18, <1>19
<1>. QED BY <1>2, <1>12, <1>13, <1>14, <1>20

\* NewFromFloatWithExponent.
LEMMA FloatsRight == EInv => L!FloatsNearest
<1> SUFFICES ASSUME EInv PROVE L!FloatsNearest
  OBVIOUS
<1>1. PICK v \in Int : v = balance.v
  BY DEF EInv, IsUnit, IsDec
<1>2. PICK n \in Nat : n = L!Magnitude(v)
  BY MagnitudeIs
<1>3. PICK mant \in Nat \ {0} : mant = 2 * (n % 100) + 1
  OBVIOUS
<1>4. mant = 2 * (L!Magnitude(balance.v) % 100) + 1
  BY <1>1, <1>2, <1>3
<1>. QED BY <1>4, FloatOne DEF L!FloatsNearest

-----------------------------------------------------------------------------
(* Lists                                                                   *)

\* The loops of Min, Max and Sum, as functions of the number of rounds.
SmallestLoop(first, rest, f) ==
    f = [i \in 0 .. Len(rest) |->
            IF i = 0 THEN first ELSE IF L!Cmp(rest[i], f[i - 1]) < 0 THEN rest[i] ELSE f[i - 1]]
LargestLoop(first, rest, f) ==
    f = [i \in 0 .. Len(rest) |->
            IF i = 0 THEN first ELSE IF L!Cmp(rest[i], f[i - 1]) > 0 THEN rest[i] ELSE f[i - 1]]
SumLoop(first, rest, f) ==
    f = [i \in 0 .. Len(rest) |-> IF i = 0 THEN first ELSE L!Add(f[i - 1], rest[i])]

\* A table of three rows.
Rows(x, y, z) == [i \in 0 .. 2 |-> IF i = 0 THEN x ELSE IF i = 1 THEN y ELSE z]

LEMMA RowsAre ==
    ASSUME NEW x, NEW y, NEW z
    PROVE  /\ Rows(x, y, z)[0] = x /\ Rows(x, y, z)[1] = y /\ Rows(x, y, z)[2] = z
           /\ DOMAIN Rows(x, y, z) = 0 .. 2
  BY DEF Rows

LEMMA TwoRest ==
    ASSUME NEW a, NEW b, NEW rest, rest = <<a, b>>
    PROVE  Len(rest) = 2 /\ rest[1] = a /\ rest[2] = b /\ 0 .. Len(rest) = 0 .. 2
  OBVIOUS

LEMMA SumIs ==
    ASSUME NEW d, NEW a, NEW b
    PROVE  L!Sum(d, <<a, b>>) = L!Add(L!Add(d, a), b)
<1>1. PICK rest : rest = <<a, b>>
  OBVIOUS
<1>2. Len(rest) = 2 /\ rest[1] = a /\ rest[2] = b /\ 0 .. Len(rest) = 0 .. 2
  BY <1>1, TwoRest
<1>3. PICK g : g = Rows(d, L!Add(d, a), L!Add(L!Add(d, a), b))
  OBVIOUS
<1>4. SumLoop(d, rest, g)
  <2>1. \A i \in 0 .. 2 : g[i] = IF i = 0 THEN d ELSE L!Add(g[i - 1], rest[i])
    <3>1. 1 - 1 = 0 /\ 2 - 1 = 1
      OBVIOUS
    <3>2. \A i \in 0 .. 2 : i = 0 \/ i = 1 \/ i = 2
      OBVIOUS
    <3>. QED BY <1>2, <1>3, <3>1, <3>2, RowsAre
  <2>2. g = [i \in 0 .. 2 |-> g[i]]
    BY <1>3 DEF Rows
  <2>. QED BY <1>2, <2>1, <2>2 DEF SumLoop
<1>5. PICK f : f = CHOOSE h : SumLoop(d, rest, h)
  OBVIOUS
<1>6. SumLoop(d, rest, f)
  BY <1>4, <1>5
<1>7. L!Sum(d, rest) = f[Len(rest)]
  BY <1>5 DEF L!Sum, SumLoop
<1>8. \A i \in 0 .. 2 : f[i] = IF i = 0 THEN d ELSE L!Add(f[i - 1], rest[i])
  BY Zenon, <1>2, <1>6 DEF SumLoop
<1>9. f[0] = d /\ f[1] = L!Add(d, a) /\ f[2] = L!Add(L!Add(d, a), b)
  <2>1. 1 - 1 = 0 /\ 2 - 1 = 1
    OBVIOUS
  <2>2. f[0] = d
    BY <1>8
  <2>3. f[1] = L!Add(d, a)
    BY <1>2, <1>8, <2>1, <2>2
  <2>. QED BY <1>2, <1>8, <2>1, <2>2, <2>3
<1>. QED BY <1>1, <1>2, <1>7, <1>9

LEMMA SmallestIs ==
    ASSUME NEW d, NEW a, NEW b, IsUnit(d), IsUnit(a), IsUnit(b)
    PROVE  \E m \in {d, a, b} :
              /\ L!SmallestOf(d, <<a, b>>) = m
              /\ L!Units(m) <= L!Units(d) /\ L!Units(m) <= L!Units(a) /\ L!Units(m) <= L!Units(b)
<1>1. PICK rest : rest = <<a, b>>
  OBVIOUS
<1>2. Len(rest) = 2 /\ rest[1] = a /\ rest[2] = b /\ 0 .. Len(rest) = 0 .. 2
  BY <1>1, TwoRest
<1>3. PICK k : k = IF L!Cmp(a, d) < 0 THEN a ELSE d
  OBVIOUS
<1>4. PICK m : m = IF L!Cmp(b, k) < 0 THEN b ELSE k
  OBVIOUS
<1>5. PICK g : g = Rows(d, k, m)
  OBVIOUS
<1>6. SmallestLoop(d, rest, g)
  <2>1. \A i \in 0 .. 2 : g[i] = IF i = 0 THEN d ELSE IF L!Cmp(rest[i], g[i - 1]) < 0 THEN rest[i] ELSE g[i - 1]
    <3>1. 1 - 1 = 0 /\ 2 - 1 = 1
      OBVIOUS
    <3>2. \A i \in 0 .. 2 : i = 0 \/ i = 1 \/ i = 2
      OBVIOUS
    <3>. QED BY <1>2, <1>3, <1>4, <1>5, <3>1, <3>2, RowsAre
  <2>2. g = [i \in 0 .. 2 |-> g[i]]
    BY <1>5 DEF Rows
  <2>. QED BY <1>2, <2>1, <2>2 DEF SmallestLoop
<1>7. PICK f : f = CHOOSE h : SmallestLoop(d, rest, h)
  OBVIOUS
<1>8. SmallestLoop(d, rest, f)
  BY <1>6, <1>7
<1>9. L!SmallestOf(d, rest) = f[Len(rest)]
  BY <1>7 DEF L!SmallestOf, SmallestLoop
<1>10. \A i \in 0 .. 2 : f[i] = IF i = 0 THEN d ELSE IF L!Cmp(rest[i], f[i - 1]) < 0 THEN rest[i] ELSE f[i - 1]
  BY Zenon, <1>2, <1>8 DEF SmallestLoop
<1>11. f[2] = m
  <2>1. 1 - 1 = 0 /\ 2 - 1 = 1
    OBVIOUS
  <2>2. f[0] = d
    BY <1>10
  <2>3. f[1] = k
    BY <1>2, <1>3, <1>10, <2>1, <2>2
  <2>. QED BY <1>2, <1>4, <1>10, <2>1, <2>3
<1>12. PICK x, y, z \in Int : x = L!Units(d) /\ y = L!Units(a) /\ z = L!Units(b)
  BY UnitsType
<1>13. IsUnit(k) /\ k \in {d, a} /\ L!Units(k) <= x /\ L!Units(k) <= y
  <2>1. L!Cmp(a, d) < 0 <=> y < x
    BY <1>12, CmpUnits
  <2>. QED BY <1>3, <1>12, <2>1
<1>14. m \in {d, a, b} /\ L!Units(m) <= L!Units(k) /\ L!Units(m) <= z
  <2>1. PICK w \in Int : w = L!Units(k)
    BY <1>13, UnitsType
  <2>2. L!Cmp(b, k) < 0 <=> z < w
    BY <1>12, <1>13, <2>1, CmpUnits
  <2>. QED BY <1>4, <1>12, <1>13, <2>1, <2>2
<1>15. PICK w, t \in Int : w = L!Units(k) /\ t = L!Units(m)
  BY <1>13, <1>14, UnitsType
<1>. QED BY <1>1, <1>2, <1>9, <1>11, <1>12, <1>13, <1>14, <1>15


LEMMA LargestIs ==
    ASSUME NEW d, NEW a, NEW b, IsUnit(d), IsUnit(a), IsUnit(b)
    PROVE  \E m \in {d, a, b} :
              /\ L!LargestOf(d, <<a, b>>) = m
              /\ L!Units(m) >= L!Units(d) /\ L!Units(m) >= L!Units(a) /\ L!Units(m) >= L!Units(b)
<1>1. PICK rest : rest = <<a, b>>
  OBVIOUS
<1>2. Len(rest) = 2 /\ rest[1] = a /\ rest[2] = b /\ 0 .. Len(rest) = 0 .. 2
  BY <1>1, TwoRest
<1>3. PICK k : k = IF L!Cmp(a, d) > 0 THEN a ELSE d
  OBVIOUS
<1>4. PICK m : m = IF L!Cmp(b, k) > 0 THEN b ELSE k
  OBVIOUS
<1>5. PICK g : g = Rows(d, k, m)
  OBVIOUS
<1>6. LargestLoop(d, rest, g)
  <2>1. \A i \in 0 .. 2 : g[i] = IF i = 0 THEN d ELSE IF L!Cmp(rest[i], g[i - 1]) > 0 THEN rest[i] ELSE g[i - 1]
    <3>1. 1 - 1 = 0 /\ 2 - 1 = 1
      OBVIOUS
    <3>2. \A i \in 0 .. 2 : i = 0 \/ i = 1 \/ i = 2
      OBVIOUS
    <3>. QED BY <1>2, <1>3, <1>4, <1>5, <3>1, <3>2, RowsAre
  <2>2. g = [i \in 0 .. 2 |-> g[i]]
    BY <1>5 DEF Rows
  <2>. QED BY <1>2, <2>1, <2>2 DEF LargestLoop
<1>7. PICK f : f = CHOOSE h : LargestLoop(d, rest, h)
  OBVIOUS
<1>8. LargestLoop(d, rest, f)
  BY <1>6, <1>7
<1>9. L!LargestOf(d, rest) = f[Len(rest)]
  BY <1>7 DEF L!LargestOf, LargestLoop
<1>10. \A i \in 0 .. 2 : f[i] = IF i = 0 THEN d ELSE IF L!Cmp(rest[i], f[i - 1]) > 0 THEN rest[i] ELSE f[i - 1]
  BY Zenon, <1>2, <1>8 DEF LargestLoop
<1>11. f[2] = m
  <2>1. 1 - 1 = 0 /\ 2 - 1 = 1
    OBVIOUS
  <2>2. f[0] = d
    BY <1>10
  <2>3. f[1] = k
    BY <1>2, <1>3, <1>10, <2>1, <2>2
  <2>. QED BY <1>2, <1>4, <1>10, <2>1, <2>3
<1>12. PICK x, y, z \in Int : x = L!Units(d) /\ y = L!Units(a) /\ z = L!Units(b)
  BY UnitsType
<1>13. IsUnit(k) /\ k \in {d, a} /\ L!Units(k) >= x /\ L!Units(k) >= y
  <2>1. L!Cmp(a, d) > 0 <=> y > x
    BY <1>12, CmpUnits
  <2>. QED BY <1>3, <1>12, <2>1
<1>14. m \in {d, a, b} /\ L!Units(m) >= L!Units(k) /\ L!Units(m) >= z
  <2>1. PICK w \in Int : w = L!Units(k)
    BY <1>13, UnitsType
  <2>2. L!Cmp(b, k) > 0 <=> z > w
    BY <1>12, <1>13, <2>1, CmpUnits
  <2>. QED BY <1>4, <1>12, <1>13, <2>1, <2>2
<1>15. PICK w, t \in Int : w = L!Units(k) /\ t = L!Units(m)
  BY <1>13, <1>14, UnitsType
<1>. QED BY <1>1, <1>2, <1>9, <1>11, <1>12, <1>13, <1>14, <1>15


\* A number with no more digits than Div keeps is a whole number of its steps.
LEMMA StepsOf ==
    ASSUME NEW d, IsUnit(d), d.e + DivisionPrecision >= 0, NEW G \in Nat \ {0}, G = L!Ten[Scale - DivisionPrecision]
    PROVE  \E k \in Int : L!Units(d) = k * G
<1>1. PICK p \in Nat : p = DivisionPrecision /\ p <= Scale
  BY ScaleFits
<1>2. PICK v \in Int : v = d.v
  BY DEF IsUnit, IsDec
<1>3. PICK e \in Int : e = d.e /\ e + p >= 0
  BY <1>1 DEF IsUnit, IsDec
<1>4. PICK t \in Nat : t = L!Ten[e + p]
  BY <1>3, TenType
<1>5. L!Ten[e + Scale] = t * G
  <2>1. e + p \in Nat /\ Scale - p \in Nat /\ e + Scale = (e + p) + (Scale - p)
    BY <1>1, <1>3, Consts
  <2>2. L!Ten[(e + p) + (Scale - p)] = L!Ten[e + p] * L!Ten[Scale - p]
    BY <2>1, TenSum
  <2>. QED BY <1>1, <1>4, <2>1, <2>2
<1>6. v * (t * G) = (v * t) * G /\ v * t \in Int
  OBVIOUS
<1>7. L!Units(d) = (v * t) * G
  BY <1>2, <1>3, <1>5, <1>6 DEF L!Units
<1>. QED BY <1>6, <1>7

LEMMA AverageOne ==
    ASSUME NEW d, NEW a, NEW b, IsUnit(d), IsUnit(a), IsUnit(b), \A x \in {d, a, b} : x.e + DivisionPrecision >= 0
    PROVE  /\ L!Cmp(L!SmallestOf(d, <<a, b>>), L!Avg(d, <<a, b>>)) <= 0
           /\ L!Cmp(L!Avg(d, <<a, b>>), L!LargestOf(d, <<a, b>>)) <= 0
<1>1. PICK s : s = L!Add(L!Add(d, a), b)
  OBVIOUS
<1>2. PICK x, y, z \in Int : x = L!Units(d) /\ y = L!Units(a) /\ z = L!Units(b)
  BY UnitsType
<1>3. IsUnit(s) /\ L!Units(s) = x + y + z
  <2>1. IsUnit(L!Add(d, a)) /\ L!Units(L!Add(d, a)) = x + y
    BY <1>2, UnitsOfSum
  <2>. QED BY <1>1, <1>2, <2>1, UnitsOfSum
<1>4. PICK w \in Int : w = x + y + z
  OBVIOUS
<1>5. PICK n \in Int, G \in Nat \ {0} :
              /\ G = L!Ten[Scale - DivisionPrecision]
              /\ L!Div(s, L!Dec(3, 0)) = L!Dec(n, -DivisionPrecision)
              /\ 2 * L!Magnitude(w - 3 * n * G) <= 3 * G
  <2>1. 3 \in Nat \ {0}
    OBVIOUS
  <2>. QED BY <1>3, <1>4, <2>1, DivByWhole
<1>6. L!Avg(d, <<a, b>>) = L!Dec(n, -DivisionPrecision)
  <2>1. Len(<<a, b>>) + 1 = 3
    OBVIOUS
  <2>. QED BY <1>1, <1>5, <2>1, SumIs DEF L!Avg
<1>7. PICK r : r = L!Avg(d, <<a, b>>)
  OBVIOUS
<1>8. IsUnit(r) /\ L!Units(r) = n * G
  <2>1. -DivisionPrecision \in Int /\ -DivisionPrecision + Scale >= 0 /\ -DivisionPrecision + Scale = Scale - DivisionPrecision
    BY ScaleFits
  <2>. QED BY <1>5, <1>6, <1>7, <2>1, UnitsOfDec
<1>9. PICK c \in Int : c = n * G /\ 3 * n * G = 3 * c
  OBVIOUS
<1>10. 2 * L!Magnitude(w - 3 * c) <= 3 * G
  BY <1>5, <1>9
<1>11. ASSUME NEW m \in {d, a, b} PROVE IsUnit(m) /\ \E k \in Int : L!Units(m) = k * G
  BY <1>5, StepsOf
<1>12. ASSUME NEW k \in Int PROVE (k * G >= c + G => k >= n + 1) /\ (k >= n + 1 => k * G >= c + G)
                               /\ (k <= n - 1 => k * G <= c - G)
  <2>1. (n + 1) * G = c + G /\ (n - 1) * G = c - G /\ n + 1 \in Int /\ n - 1 \in Int
    BY <1>9
  <2>2. (n + 1 <= k <=> (n + 1) * G <= k * G) /\ (k <= n - 1 <=> k * G <= (n - 1) * G)
    BY <2>1, Scaled
  <2>3. k * G \in Int
    OBVIOUS
  <2>. QED BY <2>1, <2>2, <2>3
<1>13. ASSUME NEW k \in Int PROVE (3 * (k * G) <= w => k * G <= c) /\ (3 * (k * G) >= w => k * G >= c)
  <2>1. PICK h \in Int : h = k * G
    OBVIOUS
  <2>2. k = n => h = c
    BY <1>9, <2>1
  <2>3. k >= n + 1 \/ k = n \/ k <= n - 1
    OBVIOUS
  <2>4. (k >= n + 1 => h >= c + G) /\ (k <= n - 1 => h <= c - G)
    BY <1>12, <2>1
  <2>. QED BY <1>10, <2>1, <2>2, <2>3, <2>4 DEF L!Magnitude
<1>14. L!Cmp(L!SmallestOf(d, <<a, b>>), r) <= 0
  <2>1. PICK m \in {d, a, b} :
              /\ L!SmallestOf(d, <<a, b>>) = m
              /\ L!Units(m) <= x /\ L!Units(m) <= y /\ L!Units(m) <= z
    BY <1>2, SmallestIs
  <2>2. PICK k \in Int : L!Units(m) = k * G
    BY <1>11
  <2>3. PICK h \in Int : h = k * G
    OBVIOUS
  <2>4. 3 * h <= w
    BY <1>4, <2>1, <2>2, <2>3
  <2>5. L!Units(m) <= L!Units(r)
    BY <1>8, <1>9, <1>13, <2>2, <2>3, <2>4
  <2>6. IsUnit(m) /\ L!Units(m) \in Int /\ L!Units(r) \in Int
    BY <1>8, <1>11, UnitsType
  <2>7. L!Cmp(m, r) \in {-1, 0, 1} /\ ~(L!Cmp(m, r) > 0)
    BY <1>8, <2>5, <2>6, CmpUnits
  <2>. QED BY <2>1, <2>7
<1>15. L!Cmp(r, L!LargestOf(d, <<a, b>>)) <= 0
  <2>1. PICK m \in {d, a, b} :
              /\ L!LargestOf(d, <<a, b>>) = m
              /\ L!Units(m) >= x /\ L!Units(m) >= y /\ L!Units(m) >= z
    BY <1>2, LargestIs
  <2>2. PICK k \in Int : L!Units(m) = k * G
    BY <1>11
  <2>3. PICK h \in Int : h = k * G
    OBVIOUS
  <2>4. 3 * h >= w
    BY <1>4, <2>1, <2>2, <2>3
  <2>5. L!Units(r) <= L!Units(m)
    BY <1>8, <1>9, <1>13, <2>2, <2>3, <2>4
  <2>6. IsUnit(m) /\ L!Units(m) \in Int /\ L!Units(r) \in Int
    BY <1>8, <1>11, UnitsType
  <2>7. L!Cmp(r, m) \in {-1, 0, 1} /\ ~(L!Cmp(r, m) > 0)
    BY <1>8, <2>5, <2>6, CmpUnits
  <2>. QED BY <2>1, <2>7
<1>. QED BY <1>7, <1>14, <1>15

-----------------------------------------------------------------------------
(* Powers                                                                  *)

\* One round of Pow: what it makes of t, the power with half the exponent.
PowRound(d, k, t) ==
    IF k = 0 THEN L!Dec(1, 0)
    ELSE IF k % 2 = 0 THEN L!Mul(t, t)
    ELSE IF k > 0 THEN L!Mul(L!Mul(t, t), d) ELSE L!Div(L!Mul(t, t), d)

PowRun(d, n, f) ==
    f = [k \in -L!Magnitude(n) .. L!Magnitude(n) |-> PowRound(d, k, f[L!Quo(k, 2)])]

Halves(n) == CASE n \in {-5, -4} -> -2 [] n \in {-3, -2} -> -1 [] n \in {-1, 0, 1} -> 0
               [] n \in {2, 3} -> 1 [] n \in {4, 5} -> 2

LEMMA HalfOf == \A k \in -5 .. 5 : L!Quo(k, 2) = Halves(k)
<1>1. ASSUME NEW k \in -5 .. 5 PROVE L!Quo(k, 2) = Halves(k)
  <2>1. PICK j \in Nat, r \in Nat :
              /\ r < L!Magnitude(2) /\ L!Magnitude(k) = L!Magnitude(2) * j + r
              /\ L!Quo(k, 2) = IF (k < 0) = (2 < 0) THEN j ELSE -j
    <3>1. k \in Int /\ 2 \in Int \ {0}
      OBVIOUS
    <3>. QED BY <3>1, QuoIs
  <2>2. L!Magnitude(2) = 2
    BY DEF L!Magnitude
  <2>3. r < 2 /\ L!Magnitude(k) = 2 * j + r /\ L!Quo(k, 2) = IF k < 0 THEN -j ELSE j
    BY <2>1, <2>2
  <2>4. \/ k = -5 \/ k = -4 \/ k = -3 \/ k = -2 \/ k = -1 \/ k = 0
        \/ k = 1 \/ k = 2 \/ k = 3 \/ k = 4 \/ k = 5
    OBVIOUS
  <2>. QED BY <2>3, <2>4 DEF L!Magnitude, Halves
<1>. QED BY <1>1

\* The powers of d up to the fifth and down to the minus fifth, as Pow makes them.
Level1(d, k) == PowRound(d, k, L!Dec(1, 0))
Level2(d, k) == PowRound(d, k, Level1(d, Halves(k)))
Level3(d, k) == PowRound(d, k, Level2(d, Halves(k)))

LEMMA PowRuns ==
    ASSUME NEW d, NEW n \in 0 .. 5
    PROVE  \E f : PowRun(d, n, f)
<1>1. L!Magnitude(n) = n
  BY DEF L!Magnitude
<1>2. PICK f : f = [k \in -n .. n |-> Level3(d, k)]
  OBVIOUS
<1>3. ASSUME NEW k \in -n .. n PROVE Level3(d, k) = PowRound(d, k, Level3(d, Halves(k)))
  <2>1. k \in -5 .. 5
    OBVIOUS
  <2>2. CASE k = 0
    BY <2>2 DEF Level3, PowRound
  <2>3. CASE k # 0
    <3>1. Level2(d, Halves(k)) = Level3(d, Halves(k))
      <4>1. Halves(k) \in {-2, -1, 0, 1, 2}
        BY <2>1 DEF Halves
      <4>2. Halves(-2) = -1 /\ Halves(-1) = 0 /\ Halves(0) = 0 /\ Halves(1) = 0 /\ Halves(2) = 1
        BY DEF Halves
      <4>3. ASSUME NEW j \in {-1, 0, 1} PROVE Level1(d, j) = Level2(d, j)
        <5>1. Level1(d, 0) = L!Dec(1, 0)
          BY DEF Level1, PowRound
        <5>. QED BY <4>2, <5>1 DEF Level1, Level2
      <4>4. ASSUME NEW j \in {-2, -1, 0, 1, 2} PROVE Level2(d, j) = Level3(d, j)
        <5>1. Halves(j) \in {-1, 0, 1}
          BY <4>2
        <5>. QED BY <4>3, <5>1 DEF Level2, Level3
      <4>. QED BY <4>1, <4>4
    <3>. QED BY <3>1 DEF Level3
  <2>. QED BY <2>2, <2>3
<1>4. ASSUME NEW k \in -n .. n PROVE L!Quo(k, 2) = Halves(k) /\ Halves(k) \in -n .. n
  <2>1. k \in -5 .. 5
    OBVIOUS
  <2>. QED BY <2>1, HalfOf DEF Halves
<1>5. ASSUME NEW k \in -n .. n PROVE f[k] = PowRound(d, k, f[L!Quo(k, 2)])
  BY <1>2, <1>3, <1>4
<1>6. f = [k \in -n .. n |-> PowRound(d, k, f[L!Quo(k, 2)])]
  BY <1>2, <1>5
<1>. QED BY <1>1, <1>6 DEF PowRun

\* d to the n, by multiplying n times.
TimesRun(d, f) == f = [n \in 0 .. 5 |-> IF n = 0 THEN L!Dec(1, 0) ELSE L!Mul(f[n - 1], d)]

LEMMA TimesRuns == ASSUME NEW d PROVE \E f : TimesRun(d, f)
<1>1. PICK p0 : p0 = L!Dec(1, 0)
  OBVIOUS
<1>2. PICK p1 : p1 = L!Mul(p0, d)
  OBVIOUS
<1>3. PICK p2 : p2 = L!Mul(p1, d)
  OBVIOUS
<1>4. PICK p3 : p3 = L!Mul(p2, d)
  OBVIOUS
<1>5. PICK p4 : p4 = L!Mul(p3, d)
  OBVIOUS
<1>6. PICK p5 : p5 = L!Mul(p4, d)
  OBVIOUS
<1>7. PICK f : f = [n \in 0 .. 5 |-> IF n = 0 THEN p0 ELSE IF n = 1 THEN p1 ELSE IF n = 2 THEN p2
                                     ELSE IF n = 3 THEN p3 ELSE IF n = 4 THEN p4 ELSE p5]
  OBVIOUS
<1>8. f[0] = p0 /\ f[1] = p1 /\ f[2] = p2 /\ f[3] = p3 /\ f[4] = p4 /\ f[5] = p5
  BY <1>7
<1>9. 1 - 1 = 0 /\ 2 - 1 = 1 /\ 3 - 1 = 2 /\ 4 - 1 = 3 /\ 5 - 1 = 4
  OBVIOUS
<1>10. ASSUME NEW n \in 0 .. 5 PROVE f[n] = IF n = 0 THEN L!Dec(1, 0) ELSE L!Mul(f[n - 1], d)
  <2>1. n = 0 \/ n = 1 \/ n = 2 \/ n = 3 \/ n = 4 \/ n = 5
    OBVIOUS
  <2>. QED BY <1>1, <1>2, <1>3, <1>4, <1>5, <1>6, <1>8, <1>9, <2>1
<1>11. f = [n \in 0 .. 5 |-> f[n]]
  BY <1>7
<1>. QED BY <1>10, <1>11 DEF TimesRun

LEMMA MulDec ==
    ASSUME NEW v, NEW e, NEW w, NEW g
    PROVE  L!Mul(L!Dec(v, e), L!Dec(w, g)) = L!Dec(v * w, e + g)
  BY DecFields DEF L!Mul

LEMMA MulBy ==
    ASSUME NEW d, NEW v, NEW e
    PROVE  L!Mul(L!Dec(v, e), d) = L!Dec(v * d.v, e + d.e)
  BY DecFields DEF L!Mul

\* The coefficient of the n-th power.
Coefficient(v, n) == CASE n = 0 -> 1 [] n = 1 -> v [] n = 2 -> v * v [] n = 3 -> v * v * v
                       [] n = 4 -> v * v * v * v [] n = 5 -> v * v * v * v * v

LEMMA Coefficients ==
    ASSUME NEW v
    PROVE  /\ Coefficient(v, 0) = 1 /\ Coefficient(v, 1) = v /\ Coefficient(v, 2) = v * v
           /\ Coefficient(v, 3) = v * v * v /\ Coefficient(v, 4) = v * v * v * v
           /\ Coefficient(v, 5) = v * v * v * v * v
  BY DEF Coefficient

LEMMA TimesIs ==
    ASSUME NEW d, IsDec(d), NEW f, TimesRun(d, f), NEW n \in 0 .. 5
    PROVE  f[n] = L!Dec(Coefficient(d.v, n), n * d.e)
<1>1. PICK v \in Int : v = d.v
  BY DEF IsDec
<1>2. PICK e \in Int : e = d.e
  BY DEF IsDec
<1>3. \A k \in 0 .. 5 : f[k] = IF k = 0 THEN L!Dec(1, 0) ELSE L!Mul(f[k - 1], d)
  BY Zenon DEF TimesRun
<1>4. 1 - 1 = 0 /\ 2 - 1 = 1 /\ 3 - 1 = 2 /\ 4 - 1 = 3 /\ 5 - 1 = 4
  OBVIOUS
<1>5. 0 * e = 0 /\ 0 + e = e /\ 1 * e = e /\ e + e = 2 * e /\ 2 * e + e = 3 * e /\ 3 * e + e = 4 * e /\ 4 * e + e = 5 * e
      /\ 1 * v = v
  OBVIOUS
<1>6. f[0] = L!Dec(1, 0)
  BY <1>3
<1>7. f[1] = L!Dec(v, e)
  BY <1>1, <1>2, <1>3, <1>4, <1>5, <1>6, MulBy
<1>8. f[2] = L!Dec(v * v, 2 * e)
  BY <1>1, <1>2, <1>3, <1>4, <1>5, <1>7, MulBy
<1>9. f[3] = L!Dec(v * v * v, 3 * e)
  BY <1>1, <1>2, <1>3, <1>4, <1>5, <1>8, MulBy
<1>10. f[4] = L!Dec(v * v * v * v, 4 * e)
  BY <1>1, <1>2, <1>3, <1>4, <1>5, <1>9, MulBy
<1>11. f[5] = L!Dec(v * v * v * v * v, 5 * e)
  BY <1>1, <1>2, <1>3, <1>4, <1>5, <1>10, MulBy
<1>12. n = 0 \/ n = 1 \/ n = 2 \/ n = 3 \/ n = 4 \/ n = 5
  OBVIOUS
<1>. QED BY <1>1, <1>2, <1>5, <1>6, <1>7, <1>8, <1>9, <1>10, <1>11, <1>12, Coefficients

LEMMA PowIs ==
    ASSUME NEW d, IsDec(d), NEW n \in 0 .. 5
    PROVE  L!Pow(d, n) = L!Dec(Coefficient(d.v, n), n * d.e)
<1>1. PICK v \in Int : v = d.v
  BY DEF IsDec
<1>2. PICK e \in Int : e = d.e
  BY DEF IsDec
<1>3. PICK f : f = CHOOSE h : PowRun(d, n, h)
  OBVIOUS
<1>4. PowRun(d, n, f)
  BY <1>3, PowRuns
<1>5. L!Pow(d, n) = f[n]
  BY <1>3 DEF L!Pow, PowRun, PowRound
<1>6. L!Magnitude(n) = n
  BY DEF L!Magnitude
<1>7. \A k \in -n .. n : f[k] = PowRound(d, k, f[L!Quo(k, 2)])
  BY Zenon, <1>4, <1>6 DEF PowRun
<1>8. \A k \in 0 .. n : f[k] = PowRound(d, k, f[Halves(k)])
  <2>1. ASSUME NEW k \in 0 .. n PROVE k \in -n .. n /\ k \in -5 .. 5
    OBVIOUS
  <2>. QED BY <1>7, <2>1, HalfOf
<1>9. f[0] = L!Dec(1, 0)
  BY <1>8 DEF PowRound
<1>10. Halves(1) = 0 /\ Halves(2) = 1 /\ Halves(3) = 1 /\ Halves(4) = 2 /\ Halves(5) = 2
  BY DEF Halves
<1>11. /\ 0 * e = 0 /\ 1 * 1 = 1 /\ 0 + 0 = 0 /\ 1 * v = v /\ 0 + e = e /\ 1 * e = e /\ e + e = 2 * e
       /\ 2 * e + e = 3 * e /\ 2 * e + 2 * e = 4 * e /\ 4 * e + e = 5 * e
  OBVIOUS
<1>12. n >= 1 => f[1] = L!Dec(v, e)
  <2>1. n >= 1 => f[1] = L!Mul(L!Mul(f[0], f[0]), d)
    BY <1>8, <1>10 DEF PowRound
  <2>2. L!Mul(L!Dec(1, 0), L!Dec(1, 0)) = L!Dec(1, 0)
    <3>1. L!Mul(L!Dec(1, 0), L!Dec(1, 0)) = L!Dec(1 * 1, 0 + 0)
      BY MulDec
    <3>. QED BY <1>11, <3>1
  <2>3. L!Mul(L!Dec(1, 0), d) = L!Dec(v, e)
    <3>1. L!Mul(L!Dec(1, 0), d) = L!Dec(1 * v, 0 + e)
      BY <1>1, <1>2, MulBy
    <3>. QED BY <1>11, <3>1
  <2>. QED BY <1>9, <2>1, <2>2, <2>3
<1>13. n >= 2 => f[2] = L!Dec(v * v, 2 * e)
  <2>1. n >= 2 => f[2] = L!Mul(f[1], f[1])
    BY <1>8, <1>10 DEF PowRound
  <2>2. L!Mul(L!Dec(v, e), L!Dec(v, e)) = L!Dec(v * v, e + e)
    BY MulDec
  <2>. QED BY <1>11, <1>12, <2>1, <2>2
<1>14. n >= 3 => f[3] = L!Dec(v * v * v, 3 * e)
  <2>1. n >= 3 => f[3] = L!Mul(L!Mul(f[1], f[1]), d)
    BY <1>8, <1>10 DEF PowRound
  <2>2. L!Mul(L!Dec(v, e), L!Dec(v, e)) = L!Dec(v * v, e + e)
    BY MulDec
  <2>3. L!Mul(L!Dec(v * v, 2 * e), d) = L!Dec(v * v * v, 2 * e + e)
    BY <1>1, <1>2, MulBy
  <2>. QED BY <1>11, <1>12, <2>1, <2>2, <2>3
<1>15. PICK q \in Int : q = v * v
  OBVIOUS
<1>16. q * q = v * v * v * v /\ q * q * v = v * v * v * v * v
  <2>1. (v * v) * (v * v) = v * v * v * v
    OBVIOUS
  <2>. QED BY <1>15, <2>1
<1>17. n >= 4 => f[4] = L!Dec(v * v * v * v, 4 * e)
  <2>1. n >= 4 => f[4] = L!Mul(f[2], f[2])
    BY <1>8, <1>10 DEF PowRound
  <2>2. n >= 4 => f[4] = L!Dec(q * q, 4 * e)
    BY <1>11, <1>13, <1>15, <2>1, MulDec
  <2>. QED BY <1>16, <2>2
<1>18. n >= 5 => f[5] = L!Dec(v * v * v * v * v, 5 * e)
  <2>1. n >= 5 => f[5] = L!Mul(L!Mul(f[2], f[2]), d)
    BY <1>8, <1>10 DEF PowRound
  <2>2. n >= 5 => f[5] = L!Dec(q * q * v, 5 * e)
    <3>1. L!Mul(L!Dec(q, 2 * e), L!Dec(q, 2 * e)) = L!Dec(q * q, 2 * e + 2 * e)
      BY MulDec
    <3>2. L!Mul(L!Dec(q * q, 4 * e), d) = L!Dec(q * q * v, 4 * e + e)
      BY <1>1, <1>2, MulBy
    <3>. QED BY <1>11, <1>13, <1>15, <2>1, <3>1, <3>2
  <2>. QED BY <1>16, <2>2
<1>19. n = 0 \/ n = 1 \/ n = 2 \/ n = 3 \/ n = 4 \/ n = 5
  OBVIOUS
<1>. QED BY <1>1, <1>2, <1>5, <1>9, <1>11, <1>12, <1>13, <1>14, <1>17, <1>18, <1>19, Coefficients

LEMMA CmpSelf == ASSUME NEW d, IsDec(d) PROVE L!Cmp(d, d) = 0
<1>1. PICK b : b = L!Lower(d.e, d.e)
  OBVIOUS
<1>2. b = d.e /\ b \in Int
  BY <1>1 DEF L!Lower, IsDec
<1>3. L!rescale(d, b).v \in Int
  BY <1>2, RescaleDown
<1>4. L!rescale(d, b).v - L!rescale(d, b).v = 0
  BY <1>3
<1>. QED BY <1>1, <1>4, DecFields DEF L!Cmp, L!Sign

LEMMA PowersRight ==
    ASSUME NEW d, IsDec(d)
    PROVE  LET times[n \in 0 .. 5] == IF n = 0 THEN L!Dec(1, 0) ELSE L!Mul(times[n - 1], d)
           IN \A n \in 0 .. 5 : L!Cmp(L!Pow(d, n), times[n]) = 0
<1>1. PICK f : f = CHOOSE h : TimesRun(d, h)
  OBVIOUS
<1>2. TimesRun(d, f)
  BY <1>1, TimesRuns
<1>3. ASSUME NEW n \in 0 .. 5 PROVE L!Cmp(L!Pow(d, n), f[n]) = 0
  <2>1. PICK x : x = L!Dec(Coefficient(d.v, n), n * d.e)
    OBVIOUS
  <2>2. L!Pow(d, n) = x /\ f[n] = x
    BY <1>2, <2>1, PowIs, TimesIs
  <2>3. IsDec(x)
    <3>1. PICK v \in Int : v = d.v
      BY DEF IsDec
    <3>2. v * v \in Int
      OBVIOUS
    <3>3. v * v * v \in Int
      BY <3>2
    <3>4. v * v * v * v \in Int
      BY <3>3
    <3>5. v * v * v * v * v \in Int
      BY <3>4
    <3>6. n = 0 \/ n = 1 \/ n = 2 \/ n = 3 \/ n = 4 \/ n = 5
      OBVIOUS
    <3>7. Coefficient(v, n) \in Int
      BY <3>2, <3>3, <3>4, <3>5, <3>6, Coefficients
    <3>8. n * d.e \in Int
      BY DEF IsDec
    <3>. QED BY <2>1, <3>1, <3>7, <3>8, DecFields DEF IsDec
  <2>. QED BY <2>2, <2>3, CmpSelf
<1>. QED BY <1>1, <1>3 DEF TimesRun

\* Min, Max, Avg and Pow of a balance.
LEMMA ListsRight == EInv => L!ListsAndPowers
<1> SUFFICES ASSUME EInv PROVE L!ListsAndPowers
  OBVIOUS
<1>1. PICK d : d = balance /\ IsUnit(d)
  BY DEF EInv
<1>2. \A a, b \in Amounts : (\A x \in {d, a, b} : x.e + DivisionPrecision >= 0) =>
         /\ L!Cmp(L!SmallestOf(d, <<a, b>>), L!Avg(d, <<a, b>>)) <= 0
         /\ L!Cmp(L!Avg(d, <<a, b>>), L!LargestOf(d, <<a, b>>)) <= 0
  BY <1>1, AmountsAreUnits, AverageOne
<1>3. LET times[n \in 0 .. 5] == IF n = 0 THEN L!Dec(1, 0) ELSE L!Mul(times[n - 1], d)
      IN \A n \in 0 .. 5 : L!Cmp(L!Pow(d, n), times[n]) = 0
  BY <1>1, PowersRight DEF IsUnit
<1>. QED BY <1>1, <1>2, <1>3, Zenon DEF L!ListsAndPowers

\* Everything else pkg/util/decimal.go computes from such a balance, for every amount,
\* scale and division precision of two digits or more: Round and RoundBank go to the
\* nearest multiple and know their ties, DivRound and QuoRem leave less than a step,
\* Floor, Ceil, Truncate and Mod agree with each other, cash rounding gives whole
\* coins, a float becomes the nearest decimal, the mean of a list lies within it,
\* Pow multiplies as often as it says, and text is read back as it was written.
THEOREM DecimalsAreRight == AllSpec => []DecimalsRight
<1>1. EInv => DecimalsRight
  BY RoundsRight, DividesRight, IntegralRight, TextsRight, CashRight, FloatsRight, ListsRight DEF DecimalsRight
<1>. QED BY <1>1, EInvAlways, PTL
==============================================================================
