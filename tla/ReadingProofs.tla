---------------------------- MODULE ReadingProofs ----------------------------
(***************************************************************************)
(* What the library reads from outside: the text of a UUID, whatever its   *)
(* length, and a configuration, whatever the file and the environment say. *)
(***************************************************************************)
EXTENDS Library, SequenceTheorems, TLAPS

-----------------------------------------------------------------------------
(* The text of a UUID                                                      *)

Dashes == {9, 14, 19, 24}
Mark(i) == IF i \in Dashes THEN "-" ELSE "h"

\* The first 36 characters are those of a printed UUID.
Regular(t) == Len(t) >= 36 /\ \A i \in 1 .. 36 : t[i] = Mark(i)

LEMMA HexIs ==
    ASSUME NEW n \in Nat
    PROVE  U!Hex(n) \in Seq(U!Characters) /\ Len(U!Hex(n)) = n /\ \A i \in 1 .. n : U!Hex(n)[i] = "h"
<1>1. U!Hex(n) \in [1 .. n -> U!Characters]
  BY DEF U!Hex, U!Characters
<1>. QED BY <1>1 DEF U!Hex

\* What is known of two texts is known of the one behind the other.
LEMMA Behind ==
    ASSUME NEW s \in Seq(U!Characters), NEW t \in Seq(U!Characters)
    PROVE  /\ s \o t \in Seq(U!Characters) /\ Len(s \o t) = Len(s) + Len(t)
           /\ \A i \in 1 .. Len(s) : (s \o t)[i] = s[i]
           /\ \A i \in 1 .. Len(t) : (s \o t)[Len(s) + i] = t[i]
  BY ConcatProperties

LEMMA DashIs == <<"-">> \in Seq(U!Characters) /\ Len(<<"-">>) = 1 /\ <<"-">>[1] = "-"
  BY DEF U!Characters

\* A text of n hexadecimal digits, with dashes at the places D.
Shape(s, n, D) ==
    s \in Seq(U!Characters) /\ Len(s) = n /\ \A i \in 1 .. n : s[i] = IF i \in D THEN "-" ELSE "h"

\* One group and the dash before it.
LEMMA NextGroup ==
    ASSUME NEW s, NEW k \in Nat, NEW n \in Nat, NEW D \in SUBSET (1 .. k), Shape(s, k, D)
    PROVE  Shape(s \o <<"-">> \o U!Hex(n), k + 1 + n, D \cup {k + 1})
<1>0. s \in Seq(U!Characters) /\ Len(s) = k /\ \A i \in 1 .. k : s[i] = IF i \in D THEN "-" ELSE "h"
  BY DEF Shape
<1>1. PICK u : u = s \o <<"-">>
  OBVIOUS
<1>2. /\ u \in Seq(U!Characters) /\ Len(u) = k + 1
      /\ (\A i \in 1 .. k : u[i] = s[i]) /\ u[k + 1] = "-"
  BY <1>0, <1>1, DashIs, Behind
<1>4. PICK h \in Seq(U!Characters) : h = U!Hex(n) /\ Len(h) = n /\ \A i \in 1 .. n : h[i] = "h"
  BY HexIs
<1>5. PICK w : w = u \o h
  OBVIOUS
<1>6. w \in Seq(U!Characters) /\ Len(w) = k + 1 + n
  <2>1. w \in Seq(U!Characters) /\ Len(w) = Len(u) + Len(h)
    BY <1>2, <1>4, <1>5, Behind, Zenon
  <2>. QED BY <1>2, <1>4, <2>1
<1>7. \A i \in 1 .. k + 1 : w[i] = u[i]
  BY <1>2, <1>4, <1>5, Behind
<1>8. \A i \in 1 .. n : w[(k + 1) + i] = h[i]
  BY <1>2, <1>4, <1>5, Behind
<1>9. ASSUME NEW i \in 1 .. k + 1 + n PROVE w[i] = IF i \in D \cup {k + 1} THEN "-" ELSE "h"
  <2>1. CASE i <= k
    <3>1. i \in 1 .. k /\ i \in 1 .. k + 1 /\ (i \in D \cup {k + 1} <=> i \in D)
      BY <2>1
    <3>. QED BY <1>0, <1>2, <1>7, <3>1
  <2>2. CASE i = k + 1
    BY <1>2, <1>7, <2>2
  <2>3. CASE i > k + 1
    <3>1. i - (k + 1) \in 1 .. n /\ (k + 1) + (i - (k + 1)) = i /\ i \notin D \cup {k + 1}
      BY <2>3
    <3>. QED BY <1>4, <1>8, <3>1
  <2>. QED BY <2>1, <2>2, <2>3
<1>11. w = s \o <<"-">> \o U!Hex(n)
  BY <1>1, <1>4, <1>5
<1>. QED BY <1>6, <1>9, <1>11 DEF Shape

LEMMA CanonicalIs == Shape(U!Canonical, 36, Dashes)
<1>1. PICK a : a = U!Hex(8) /\ Shape(a, 8, {})
  BY HexIs DEF Shape
<1>2. PICK b : b = a \o <<"-">> \o U!Hex(4) /\ Shape(b, 13, {9})
  <2>1. {} \in SUBSET (1 .. 8) /\ 8 \in Nat /\ 4 \in Nat
    OBVIOUS
  <2>2. Shape(a \o <<"-">> \o U!Hex(4), 8 + 1 + 4, {} \cup {8 + 1})
    BY <1>1, <2>1, NextGroup, Zenon
  <2>3. {} \cup {8 + 1} = {9} /\ 8 + 1 + 4 = 13
    OBVIOUS
  <2>. QED BY <2>2, <2>3
<1>3. PICK c : c = b \o <<"-">> \o U!Hex(4) /\ Shape(c, 18, {9, 14})
  <2>1. {9} \in SUBSET (1 .. 13) /\ 13 \in Nat /\ 4 \in Nat
    OBVIOUS
  <2>2. Shape(b \o <<"-">> \o U!Hex(4), 13 + 1 + 4, {9} \cup {13 + 1})
    BY <1>2, <2>1, NextGroup, Zenon
  <2>3. {9} \cup {13 + 1} = {9, 14} /\ 13 + 1 + 4 = 18
    OBVIOUS
  <2>. QED BY <2>2, <2>3
<1>4. PICK d : d = c \o <<"-">> \o U!Hex(4) /\ Shape(d, 23, {9, 14, 19})
  <2>1. {9, 14} \in SUBSET (1 .. 18) /\ 18 \in Nat /\ 4 \in Nat
    OBVIOUS
  <2>2. Shape(c \o <<"-">> \o U!Hex(4), 18 + 1 + 4, {9, 14} \cup {18 + 1})
    BY <1>3, <2>1, NextGroup, Zenon
  <2>3. {9, 14} \cup {18 + 1} = {9, 14, 19} /\ 18 + 1 + 4 = 23
    OBVIOUS
  <2>. QED BY <2>2, <2>3
<1>5. PICK e : e = d \o <<"-">> \o U!Hex(12) /\ Shape(e, 36, {9, 14, 19, 24})
  <2>1. {9, 14, 19} \in SUBSET (1 .. 23) /\ 23 \in Nat /\ 12 \in Nat
    OBVIOUS
  <2>2. Shape(d \o <<"-">> \o U!Hex(12), 23 + 1 + 12, {9, 14, 19} \cup {23 + 1})
    BY <1>4, <2>1, NextGroup, Zenon
  <2>3. {9, 14, 19} \cup {23 + 1} = {9, 14, 19, 24} /\ 23 + 1 + 12 = 36
    OBVIOUS
  <2>. QED BY <2>2, <2>3
<1>. QED BY <1>1, <1>2, <1>3, <1>4, <1>5 DEF U!Canonical, Dashes

LEMMA Tables ==
    /\ U!Offset[1] = 1 /\ U!Offset[2] = 10 /\ U!Offset[3] = 15 /\ U!Offset[4] = 20 /\ U!Offset[5] = 25
    /\ U!Group[1] = 8 /\ U!Group[2] = 4 /\ U!Group[3] = 4 /\ U!Group[4] = 4 /\ U!Group[5] = 12
  BY DEF U!Offset, U!Group

\* One pass of the loop, without the words for what is wrong: of a text t of
\* length n the group of g digits at o.
Passes(t, braced, i, o, g, n) ==
    /\ i > 1 => n >= o - 1 /\ t[o - 1] = "-"
    /\ n >= o + g - 1
    /\ i = 5 => \/ n = o + g - 1
                \/ n = o + g /\ braced /\ t[n] = "close"
    /\ \A k \in o .. o + g - 1 : k <= n => t[k] = "h"

(* A group of g characters at offset o: what the lengths compared by
   UnmarshalText say of the length n of the text. *)
LEMMA GroupLengths ==
    ASSUME NEW o \in Nat, NEW g \in Nat, NEW n \in Nat
    PROVE  /\ n - o + 1 >= g => (n = o + g - 1 <=> ~(n - o + 1 > g))
           /\ n - o + 1 > g => (n = o + g <=> n - o + 1 <= g + 1)
           /\ n - o + 1 \in Int
           /\ n - o + 1 > g + 1 <=> ~(n - o + 1 <= g + 1)
  OBVIOUS

LEMMA PassOK ==
    ASSUME NEW s, NEW i \in 1 .. 5, NEW o \in Nat, NEW g \in Nat, o = U!Offset[i], g = U!Group[i],
           NEW n \in Nat, n = Len(U!Body(s))
    PROVE  U!GroupError(s, i) = "ok" <=> Passes(U!Body(s), U!IsBraced(s), i, o, g, n)
<1> DEFINE t == U!Body(s)
           c1 == i > 1 /\ n < o - 1
           c2 == i > 1 /\ n >= o - 1 /\ t[o - 1] # "-"
           c3 == n - o + 1 < g
           c4 == /\ i = 5 /\ n - o + 1 > g
                 /\ (n - o + 1 > g + 1 \/ ~U!IsBraced(s) \/ t[n] # "close")
           c5 == \E k \in o .. o + g - 1 : k <= n /\ t[k] # "h"
<1>1. U!GroupError(s, i) = CASE c1 -> "panic" [] c2 -> "format" [] c3 -> "short" [] c4 -> "long"
                             [] c5 -> "hex" [] OTHER -> "ok"
  BY DEF U!GroupError
<1> HIDE DEF t, c1, c2, c3, c4, c5
<1>2. U!GroupError(s, i) = "ok" <=> ~c1 /\ ~c2 /\ ~c3 /\ ~c4 /\ ~c5
  BY <1>1
<1>3. ~c1 /\ ~c2 /\ ~c3 <=> (i > 1 => n >= o - 1 /\ t[o - 1] = "-") /\ n >= o + g - 1
  BY DEF c1, c2, c3
<1>4. ~c3 => (~c4 <=> (i = 5 => n = o + g - 1 \/ (n = o + g /\ U!IsBraced(s) /\ t[n] = "close")))
  <2>1. ~c4 <=> (i = 5 /\ n - o + 1 > g => n - o + 1 <= g + 1 /\ U!IsBraced(s) /\ t[n] = "close")
    <3> DEFINE b == U!IsBraced(s)
               m == n - o + 1
    <3>1. c4 <=> i = 5 /\ m > g /\ (m > g + 1 \/ ~b \/ t[n] # "close")
      BY Zenon DEF c4
    <3>2. m \in Int /\ (m > g + 1 <=> ~(m <= g + 1))
      BY GroupLengths, Zenon
    <3> HIDE DEF b, m
    <3>3. ~c4 <=> (i = 5 /\ m > g => m <= g + 1 /\ b /\ t[n] = "close")
      BY <3>1, <3>2
    <3>. QED BY <3>3, Zenon DEF b, m
  <2>2. ~c3 => n - o + 1 >= g
    BY DEF c3
  <2>3. n - o + 1 >= g => (n = o + g - 1 <=> ~(n - o + 1 > g))
    BY GroupLengths, SMTT(30)
  <2>4. n - o + 1 > g => (n = o + g <=> n - o + 1 <= g + 1)
    BY GroupLengths, Zenon
  <2>. QED BY <2>1, <2>2, <2>3, <2>4
<1>5. ~c5 <=> \A k \in o .. o + g - 1 : k <= n => t[k] = "h"
  BY DEF c5
<1>6. U!GroupError(s, i) = "ok" <=>
         /\ (i > 1 => n >= o - 1 /\ t[o - 1] = "-") /\ n >= o + g - 1
         /\ (i = 5 => n = o + g - 1 \/ (n = o + g /\ U!IsBraced(s) /\ t[n] = "close"))
         /\ \A k \in o .. o + g - 1 : k <= n => t[k] = "h"
  BY <1>2, <1>3, <1>4, <1>5, Zenon
<1>. QED BY <1>6, Zenon DEF Passes, t

LEMMA UnmarshalOK ==
    ASSUME NEW s, NEW n \in Nat, n = Len(U!Body(s)), Len(s) >= 32
    PROVE  U!UnmarshalText(s) = "ok" <=>
              /\ Regular(U!Body(s))
              /\ n = 36 \/ (n = 37 /\ U!IsBraced(s) /\ U!Body(s)[37] = "close")
<1> DEFINE bad == {i \in 1 .. 5 : U!GroupError(s, i) # "ok"}
<1>1. U!UnmarshalText(s) = IF bad = {} THEN "ok" ELSE U!GroupError(s, U!Min(bad))
  BY DEF U!UnmarshalText
<1>2. bad # {} => U!Min(bad) \in bad
  <2> SUFFICES ASSUME bad # {} PROVE U!Min(bad) \in bad
    OBVIOUS
  <2>1. \E i \in bad : \A j \in bad : i =< j
    <3>1. bad \subseteq {1, 2, 3, 4, 5}
      OBVIOUS
    <3> HIDE DEF bad
    <3>2. CASE 1 \in bad
      BY <3>1, <3>2
    <3>3. CASE 1 \notin bad /\ 2 \in bad
      BY <3>1, <3>3
    <3>4. CASE 1 \notin bad /\ 2 \notin bad /\ 3 \in bad
      BY <3>1, <3>4
    <3>5. CASE 1 \notin bad /\ 2 \notin bad /\ 3 \notin bad /\ 4 \in bad
      BY <3>1, <3>5
    <3>6. CASE 1 \notin bad /\ 2 \notin bad /\ 3 \notin bad /\ 4 \notin bad
      <4>1. \A j \in bad : j = 5
        BY <3>1, <3>6
      <4>2. PICK i : i \in bad
        OBVIOUS
      <4>. QED BY <4>1, <4>2
    <3>. QED BY <3>2, <3>3, <3>4, <3>5, <3>6
  <2> HIDE DEF bad
  <2>. QED BY <2>1 DEF U!Min
<1>3. U!UnmarshalText(s) = "ok" <=> \A i \in 1 .. 5 : U!GroupError(s, i) = "ok"
  <2>1. U!UnmarshalText(s) = "ok" <=> bad = {}
    <3>1. \A i \in bad : U!GroupError(s, i) # "ok"
      OBVIOUS
    <3> HIDE DEF bad
    <3>. QED BY <1>1, <1>2, <3>1
  <2>. QED BY <2>1
<1>4. PICK t : t = U!Body(s)
  OBVIOUS
<1>11. U!GroupError(s, 1) = "ok" <=> n >= 8 /\ \A k \in 1 .. 8 : k <= n => t[k] = "h"
  <2>1. 1 \in 1 .. 5 /\ 1 \in Nat /\ 8 \in Nat
    OBVIOUS
  <2>2. U!GroupError(s, 1) = "ok" <=> Passes(t, U!IsBraced(s), 1, 1, 8, n)
    BY <1>4, <2>1, Tables, PassOK, Zenon
  <2>. QED BY <2>2 DEF Passes
<1>12. U!GroupError(s, 2) = "ok" <=>
          n >= 9 /\ t[9] = "-" /\ n >= 13 /\ \A k \in 10 .. 13 : k <= n => t[k] = "h"
  <2>1. 2 \in 1 .. 5 /\ 10 \in Nat /\ 4 \in Nat
    OBVIOUS
  <2>2. U!GroupError(s, 2) = "ok" <=> Passes(t, U!IsBraced(s), 2, 10, 4, n)
    BY <1>4, <2>1, Tables, PassOK, Zenon
  <2>. QED BY <2>2 DEF Passes
<1>13. U!GroupError(s, 3) = "ok" <=>
          n >= 14 /\ t[14] = "-" /\ n >= 18 /\ \A k \in 15 .. 18 : k <= n => t[k] = "h"
  <2>1. 3 \in 1 .. 5 /\ 15 \in Nat /\ 4 \in Nat
    OBVIOUS
  <2>2. U!GroupError(s, 3) = "ok" <=> Passes(t, U!IsBraced(s), 3, 15, 4, n)
    BY <1>4, <2>1, Tables, PassOK, Zenon
  <2>. QED BY <2>2 DEF Passes
<1>14. U!GroupError(s, 4) = "ok" <=>
          n >= 19 /\ t[19] = "-" /\ n >= 23 /\ \A k \in 20 .. 23 : k <= n => t[k] = "h"
  <2>1. 4 \in 1 .. 5 /\ 20 \in Nat /\ 4 \in Nat
    OBVIOUS
  <2>2. U!GroupError(s, 4) = "ok" <=> Passes(t, U!IsBraced(s), 4, 20, 4, n)
    BY <1>4, <2>1, Tables, PassOK, Zenon
  <2>. QED BY <2>2 DEF Passes
<1>15. U!GroupError(s, 5) = "ok" <=>
          /\ n >= 24 /\ t[24] = "-" /\ n >= 36
          /\ n = 36 \/ (n = 37 /\ U!IsBraced(s) /\ t[37] = "close")
          /\ \A k \in 25 .. 36 : k <= n => t[k] = "h"
  <2>1. 5 \in 1 .. 5 /\ 25 \in Nat /\ 12 \in Nat
    OBVIOUS
  <2>2. U!GroupError(s, 5) = "ok" <=> Passes(t, U!IsBraced(s), 5, 25, 12, n)
    BY <1>4, <2>1, Tables, PassOK, Zenon
  <2> DEFINE b == U!IsBraced(s)
  <2> HIDE DEF b
  <2>3. Passes(t, b, 5, 25, 12, n) <=>
          /\ n >= 24 /\ t[24] = "-" /\ n >= 36
          /\ n = 36 \/ (n = 37 /\ b /\ t[37] = "close")
          /\ \A k \in 25 .. 36 : k <= n => t[k] = "h"
    <3>1. 25 - 1 = 24 /\ 25 + 12 - 1 = 36 /\ 25 + 12 = 37 /\ 5 > 1
      OBVIOUS
    <3>2. n = 37 /\ b /\ t[n] = "close" <=> n = 37 /\ b /\ t[37] = "close"
      OBVIOUS
    <3>. QED BY <3>1, <3>2, Zenon DEF Passes
  <2>. QED BY <2>2, <2>3 DEF b
<1>16. U!UnmarshalText(s) = "ok" <=>
          /\ n >= 36 /\ (n = 36 \/ (n = 37 /\ U!IsBraced(s) /\ t[37] = "close"))
          /\ t[9] = "-" /\ t[14] = "-" /\ t[19] = "-" /\ t[24] = "-"
          /\ (\A k \in 1 .. 8 : t[k] = "h") /\ (\A k \in 10 .. 13 : t[k] = "h")
          /\ (\A k \in 15 .. 18 : t[k] = "h") /\ (\A k \in 20 .. 23 : t[k] = "h")
          /\ (\A k \in 25 .. 36 : t[k] = "h")
  <2>1. U!UnmarshalText(s) = "ok" <=>
          /\ U!GroupError(s, 1) = "ok" /\ U!GroupError(s, 2) = "ok" /\ U!GroupError(s, 3) = "ok"
          /\ U!GroupError(s, 4) = "ok" /\ U!GroupError(s, 5) = "ok"
    <3>1. \A i : i \in 1 .. 5 <=> i \in {1, 2, 3, 4, 5}
      OBVIOUS
    <3>. QED BY <1>3, <3>1
  <2> DEFINE fits == n = 36 \/ (n = 37 /\ U!IsBraced(s) /\ t[37] = "close")
  <2>2. U!GroupError(s, 5) = "ok" <=>
          n >= 24 /\ t[24] = "-" /\ n >= 36 /\ fits /\ \A k \in 25 .. 36 : k <= n => t[k] = "h"
    BY <1>15, Zenon
  <2> HIDE DEF fits
  <2>3. U!UnmarshalText(s) = "ok" <=>
          /\ n >= 36 /\ fits
          /\ t[9] = "-" /\ t[14] = "-" /\ t[19] = "-" /\ t[24] = "-"
          /\ (\A k \in 1 .. 8 : t[k] = "h") /\ (\A k \in 10 .. 13 : t[k] = "h")
          /\ (\A k \in 15 .. 18 : t[k] = "h") /\ (\A k \in 20 .. 23 : t[k] = "h")
          /\ (\A k \in 25 .. 36 : t[k] = "h")
    <3> DEFINE h1 == \A k \in 1 .. 8 : t[k] = "h"
               h2 == \A k \in 10 .. 13 : t[k] = "h"
               h3 == \A k \in 15 .. 18 : t[k] = "h"
               h4 == \A k \in 20 .. 23 : t[k] = "h"
               h5 == \A k \in 25 .. 36 : t[k] = "h"
    <3>1a. U!GroupError(s, 1) = "ok" <=> n >= 8 /\ h1
      BY <1>11
    <3>1b. U!GroupError(s, 2) = "ok" <=> n >= 13 /\ t[9] = "-" /\ h2
      BY <1>12
    <3>1c. U!GroupError(s, 3) = "ok" <=> n >= 18 /\ t[14] = "-" /\ h3
      BY <1>13
    <3>1d. U!GroupError(s, 4) = "ok" <=> n >= 23 /\ t[19] = "-" /\ h4
      BY <1>14
    <3>2. U!GroupError(s, 5) = "ok" <=> n >= 36 /\ t[24] = "-" /\ fits /\ h5
      BY <2>2
    <3> HIDE DEF h1, h2, h3, h4, h5
    <3>3. n >= 36 => n >= 8 /\ n >= 13 /\ n >= 18 /\ n >= 23
      OBVIOUS
    <3>4. U!UnmarshalText(s) = "ok" <=>
            /\ n >= 36 /\ fits /\ t[9] = "-" /\ t[14] = "-" /\ t[19] = "-" /\ t[24] = "-"
            /\ h1 /\ h2 /\ h3 /\ h4 /\ h5
      BY <2>1, <3>1a, <3>1b, <3>1c, <3>1d, <3>2, <3>3, Zenon
    <3>. QED BY <3>4 DEF h1, h2, h3, h4, h5
  <2>. QED BY <2>3, Zenon DEF fits
<1>17. Regular(t) <=>
          /\ n >= 36 /\ t[9] = "-" /\ t[14] = "-" /\ t[19] = "-" /\ t[24] = "-"
          /\ (\A k \in 1 .. 8 : t[k] = "h") /\ (\A k \in 10 .. 13 : t[k] = "h")
          /\ (\A k \in 15 .. 18 : t[k] = "h") /\ (\A k \in 20 .. 23 : t[k] = "h")
          /\ (\A k \in 25 .. 36 : t[k] = "h")
  BY <1>4 DEF Regular, Mark, Dashes
<1>. QED BY <1>4, <1>16, <1>17

LEMMA PrefixIs ==
    U!urnPrefix \in Seq(U!Characters) /\ Len(U!urnPrefix) = 9 /\ \A i \in 1 .. 9 : U!urnPrefix[i] = "u"
<1>1. U!urnPrefix \in [1 .. 9 -> U!Characters]
  BY DEF U!urnPrefix, U!Characters
<1>. QED BY <1>1 DEF U!urnPrefix

LEMMA BracesAre ==
    /\ <<"open">> \in Seq(U!Characters) /\ Len(<<"open">>) = 1 /\ <<"open">>[1] = "open"
    /\ <<"close">> \in Seq(U!Characters) /\ Len(<<"close">>) = 1 /\ <<"close">>[1] = "close"
  BY DEF U!Characters

\* A prefix can be taken off both sides.
LEMMA SamePrefix ==
    ASSUME NEW p \in Seq(U!Characters), NEW t \in Seq(U!Characters), NEW w \in Seq(U!Characters),
           p \o t = p \o w
    PROVE  t = w
<1>1. Len(p) \in Nat /\ Len(t) \in Nat /\ Len(w) \in Nat
  BY LenProperties
<1>2. Len(t) = Len(w)
  BY <1>1, Behind
<1>3. ASSUME NEW i \in 1 .. Len(t) PROVE t[i] = w[i]
  <2>1. (p \o t)[Len(p) + i] = t[i]
    BY Behind
  <2>2. (p \o w)[Len(p) + i] = w[i]
    BY <1>2, Behind
  <2>. QED BY <2>1, <2>2
<1>. QED BY <1>2, <1>3, SeqEqual

\* w is the text s of length m and behind it the text t of length n.
Joins(w, s, t, m, n) ==
    /\ w \in Seq(U!Characters) /\ Len(w) = m + n
    /\ \A i \in 1 .. m : w[i] = s[i]
    /\ \A i \in 1 .. n : w[m + i] = t[i]

LEMMA Joined ==
    ASSUME NEW s, NEW t, s \in Seq(U!Characters), t \in Seq(U!Characters),
           NEW m, NEW n, Len(s) = m, Len(t) = n
    PROVE  Joins(s \o t, s, t, m, n)
  BY Behind DEF Joins

LEMMA SameText ==
    ASSUME NEW s, NEW t, s \in Seq(U!Characters), t \in Seq(U!Characters),
           NEW n \in Nat, Len(s) = n, Len(t) = n, \A i \in 1 .. n : s[i] = t[i]
    PROVE  s = t
  BY SeqEqual

\* The printed form is the one regular text of its length.
LEMMA RegularIs ==
    ASSUME NEW t, t \in Seq(U!Characters)
    PROVE  t = U!Canonical <=> Regular(t) /\ Len(t) = 36
<1>1. PICK c : c = U!Canonical /\ c \in Seq(U!Characters)
  BY CanonicalIs DEF Shape
<1>2. Len(c) = 36
  BY <1>1, CanonicalIs DEF Shape
<1>3. \A i \in 1 .. 36 : c[i] = Mark(i)
  BY <1>1, CanonicalIs DEF Shape, Mark
<1>4. Regular(c)
  BY <1>2, <1>3 DEF Regular
<1>5. ASSUME Regular(t), Len(t) = 36 PROVE t = c
  <2>1. \A i \in 1 .. 36 : t[i] = c[i]
    BY <1>3, <1>5 DEF Regular
  <2>2. 36 \in Nat
    OBVIOUS
  <2>. QED BY <1>1, <1>2, <1>5, <2>1, <2>2, SameText, ZenonT(30)
<1>. QED BY <1>1, <1>2, <1>4, <1>5

\* The same with a closing brace.
LEMMA RegularClosed ==
    ASSUME NEW t, t \in Seq(U!Characters)
    PROVE  t = U!Canonical \o <<"close">> <=> Regular(t) /\ Len(t) = 37 /\ t[37] = "close"
<1>1. PICK c : c = U!Canonical /\ c \in Seq(U!Characters)
  BY CanonicalIs DEF Shape
<1>2. Len(c) = 36
  BY <1>1, CanonicalIs DEF Shape
<1>3. \A i \in 1 .. 36 : c[i] = Mark(i)
  BY <1>1, CanonicalIs DEF Shape, Mark
<1>4. PICK z : z = <<"close">> /\ z \in Seq(U!Characters) /\ Len(z) = 1 /\ z[1] = "close"
  BY BracesAre
<1>5. PICK d : d = c \o z
  OBVIOUS
<1>6. /\ d \in Seq(U!Characters) /\ Len(d) = 36 + 1
      /\ \A i \in 1 .. 36 : d[i] = c[i]
      /\ \A i \in 1 .. 1 : d[36 + i] = z[i]
  <2>1. Joins(d, c, z, 36, 1)
    BY <1>1, <1>2, <1>4, <1>5, Joined, Zenon
  <2>. QED BY <2>1, Zenon DEF Joins
<1>7. Len(d) = 37 /\ d[37] = "close" /\ \A i \in 1 .. 36 : d[i] = Mark(i)
  <2>1. Len(d) = 37
    BY <1>6
  <2>2. 1 \in 1 .. 1 /\ 36 + 1 = 37
    OBVIOUS
  <2>3. d[37] = "close"
    <3>1. d[36 + 1] = z[1]
      BY <1>6, <2>2
    <3>. QED BY <1>4, <2>2, <3>1
  <2>. QED BY <1>3, <1>6, <2>1, <2>3, Zenon
<1>8. Regular(d)
  BY <1>7 DEF Regular
<1>9. ASSUME Regular(t), Len(t) = 37, t[37] = "close" PROVE t = d
  <2>1. \A i \in 1 .. 37 : i \in 1 .. 36 \/ i = 37
    OBVIOUS
  <2>2. \A i \in 1 .. 37 : t[i] = d[i]
    BY <1>7, <1>9, <2>1, Zenon DEF Regular
  <2>3. 37 \in Nat
    OBVIOUS
  <2>4. d \in Seq(U!Characters) /\ Len(d) = 37
    BY <1>6, <1>7
  <2>. QED BY <1>9, <2>2, <2>3, <2>4, SameText, Zenon
<1>. QED BY <1>1, <1>4, <1>5, <1>7, <1>8, <1>9

Forms == {U!Canonical, U!urnPrefix \o U!Canonical, <<"open">> \o U!Canonical,
          <<"open">> \o U!Canonical \o <<"close">>}

LEMMA UrnIs ==
    ASSUME NEW s, s \in Seq(U!Characters), NEW n \in Nat, Len(s) = n, n >= 9
    PROVE  U!IsUrn(s) <=> \A i \in 1 .. 9 : s[i] = "u"
<1>1. \A i \in 1 .. 9 : s[i] \in U!Characters
  BY ElementOfSeq
<1>2. PICK h : h = SubSeq(s, 1, 9)
  OBVIOUS
<1>3. h \in Seq(U!Characters) /\ Len(h) = 9
  BY <1>1, <1>2, SubSeqProperties
<1>4. \A i \in 1 .. 9 : h[i] = s[i]
  <2>1. \A i \in 1 .. 9 - 1 + 1 : h[i] = s[1 + i - 1]
    BY <1>1, <1>2, SubSeqProperties
  <2>. QED BY <2>1
<1>5. PICK p : p = U!urnPrefix /\ p \in Seq(U!Characters)
  BY PrefixIs
<1>6. Len(p) = 9 /\ \A i \in 1 .. 9 : p[i] = "u"
  BY <1>5, PrefixIs
<1>7. h = p <=> \A i \in 1 .. 9 : h[i] = "u"
  <2>1. ASSUME \A i \in 1 .. 9 : h[i] = "u" PROVE h = p
    <3>1. \A i \in 1 .. 9 : h[i] = p[i]
      BY <1>6, <2>1
    <3>2. 9 \in Nat
      OBVIOUS
    <3>. QED BY <1>3, <1>5, <1>6, <3>1, <3>2, SameText, Zenon
  <2>. QED BY <1>6, <2>1
<1>8. U!IsUrn(s) <=> h = p
  BY <1>2, <1>5 DEF U!IsUrn
<1>. QED BY <1>4, <1>7, <1>8

\* The first character tells the forms apart, and all of them are long enough.
LEMMA FormsStart ==
    /\ U!Canonical \in Seq(U!Characters) /\ Len(U!Canonical) = 36 /\ U!Canonical[1] = "h"
    /\ U!urnPrefix \o U!Canonical \in Seq(U!Characters) /\ Len(U!urnPrefix \o U!Canonical) = 45
    /\ U!IsUrn(U!urnPrefix \o U!Canonical) /\ (U!urnPrefix \o U!Canonical)[1] = "u"
    /\ Len(<<"open">> \o U!Canonical) = 37 /\ (<<"open">> \o U!Canonical)[1] = "open"
    /\ Len(<<"open">> \o U!Canonical \o <<"close">>) = 38
    /\ (<<"open">> \o U!Canonical \o <<"close">>)[1] = "open"
<1>1. PICK c : c = U!Canonical /\ c \in Seq(U!Characters)
  BY CanonicalIs DEF Shape
<1>2. Len(c) = 36 /\ c[1] = "h"
  <2>1. Len(c) = 36
    BY <1>1, CanonicalIs DEF Shape
  <2>2. 1 \in 1 .. 36 /\ 1 \notin Dashes
    BY DEF Dashes
  <2>. QED BY <1>1, <2>1, <2>2, CanonicalIs, Zenon DEF Shape
<1>3. PICK p : p = U!urnPrefix /\ p \in Seq(U!Characters)
  BY PrefixIs
<1>4. Len(p) = 9 /\ \A i \in 1 .. 9 : p[i] = "u"
  BY <1>3, PrefixIs
<1>5. PICK b : b = <<"open">> /\ b \in Seq(U!Characters) /\ Len(b) = 1 /\ b[1] = "open"
  BY BracesAre
<1>6. PICK z : z = <<"close">> /\ z \in Seq(U!Characters) /\ Len(z) = 1
  BY BracesAre
<1>7. 1 \in Nat /\ 9 \in Nat /\ 36 \in Nat /\ 37 \in Nat /\ 45 \in Nat
  OBVIOUS
<1>8. p \o c \in Seq(U!Characters) /\ Len(p \o c) = 9 + 36 /\ \A i \in 1 .. 9 : (p \o c)[i] = p[i]
  <2>1. Joins(p \o c, p, c, 9, 36)
    BY <1>1, <1>2, <1>3, <1>4, Joined, Zenon
  <2>. QED BY <2>1, Zenon DEF Joins
<1>9. Len(p \o c) = 45 /\ \A i \in 1 .. 9 : (p \o c)[i] = "u"
  <2>1. Len(p \o c) = 45
    BY <1>8
  <2>. QED BY <1>4, <1>8, <2>1, Zenon
<1>10. U!IsUrn(p \o c)
  <2>1. 45 >= 9
    OBVIOUS
  <2>. QED BY <1>7, <1>8, <1>9, <2>1, UrnIs, ZenonT(30)
<1>11. b \o c \in Seq(U!Characters) /\ Len(b \o c) = 1 + 36 /\ \A i \in 1 .. 1 : (b \o c)[i] = b[i]
  <2>1. Joins(b \o c, b, c, 1, 36)
    BY <1>1, <1>2, <1>5, Joined, Zenon
  <2>. QED BY <2>1, Zenon DEF Joins
<1>12. Len(b \o c) = 37 /\ (b \o c)[1] = "open"
  <2>1. Len(b \o c) = 37 /\ 1 \in 1 .. 1
    BY <1>11
  <2>. QED BY <1>5, <1>11, <2>1, Zenon
<1>13. Len((b \o c) \o z) = 37 + 1 /\ \A i \in 1 .. 37 : ((b \o c) \o z)[i] = (b \o c)[i]
  <2>1. Joins((b \o c) \o z, b \o c, z, 37, 1)
    BY <1>6, <1>11, <1>12, Joined, Zenon
  <2>. QED BY <2>1, Zenon DEF Joins
<1>14. Len((b \o c) \o z) = 38 /\ ((b \o c) \o z)[1] = "open"
  <2>1. Len((b \o c) \o z) = 38 /\ 1 \in 1 .. 37
    BY <1>13
  <2>. QED BY <1>12, <1>13, <2>1, Zenon
<1>15. (p \o c)[1] = "u"
  <2>1. 1 \in 1 .. 9
    OBVIOUS
  <2>. QED BY <1>9, <2>1, Zenon
<1>. QED BY <1>1, <1>2, <1>3, <1>5, <1>6, <1>8, <1>9, <1>10, <1>12, <1>14, <1>15, Zenon

\* What follows the prefix.
LEMMA UrnBody ==
    ASSUME NEW s, s \in Seq(U!Characters), NEW n \in Nat, Len(s) = n, n >= 9, U!IsUrn(s)
    PROVE  /\ U!Body(s) \in Seq(U!Characters) /\ Len(U!Body(s)) \in Nat
           /\ s = U!urnPrefix \o U!Body(s) /\ ~U!IsBraced(s)
<1>1. PICK t : t = SubSeq(s, 10, n)
  OBVIOUS
<1>2. U!Body(s) = t /\ ~U!IsBraced(s)
  BY <1>1 DEF U!Body, U!IsBraced
<1>3. \A i \in 10 .. n : s[i] \in U!Characters
  BY ElementOfSeq
<1>4. t \in Seq(U!Characters) /\ Len(t) = n - 9
  BY <1>1, <1>3, SubSeqProperties
<1>5. \A i \in 1 .. n - 9 : t[i] = s[i + 9]
  <2>1. \A i \in 1 .. n - 10 + 1 : t[i] = s[10 + i - 1]
    BY <1>1, <1>3, SubSeqProperties
  <2>2. \A i \in 1 .. n - 9 : i \in 1 .. n - 10 + 1 /\ 10 + i - 1 = i + 9
    OBVIOUS
  <2>. QED BY <2>1, <2>2
<1>6. PICK p : p = U!urnPrefix /\ p \in Seq(U!Characters) /\ Len(p) = 9
  BY PrefixIs
<1>7. \A i \in 1 .. 9 : p[i] = s[i]
  BY <1>6, PrefixIs, UrnIs
<1>8. PICK w : w = p \o t /\ Joins(w, p, t, 9, n - 9)
  BY <1>4, <1>6, Joined, Zenon
<1>9. Len(w) = n
  BY <1>8 DEF Joins
<1>10. ASSUME NEW i \in 1 .. n PROVE w[i] = s[i]
  <2>0. (\A j \in 1 .. 9 : w[j] = p[j]) /\ (\A j \in 1 .. n - 9 : w[9 + j] = t[j])
    BY <1>8 DEF Joins
  <2>1. CASE i <= 9
    BY <1>7, <2>0, <2>1
  <2>2. CASE i > 9
    <3>1. i - 9 \in 1 .. n - 9 /\ 9 + (i - 9) = i /\ (i - 9) + 9 = i
      BY <2>2
    <3>. QED BY <1>5, <2>0, <3>1, ZenonT(30)
  <2>. QED BY <2>1, <2>2
<1>11. w \in Seq(U!Characters)
  BY <1>8 DEF Joins
<1>12. w = s
  BY <1>9, <1>10, <1>11, SameText, Zenon
<1>13. Len(t) \in Nat
  BY <1>4, LenProperties
<1>. QED BY <1>2, <1>4, <1>6, <1>8, <1>12, <1>13

LEMMA BracedBody ==
    ASSUME NEW s, s \in Seq(U!Characters), NEW n \in Nat, Len(s) = n, n >= 1, U!IsBraced(s)
    PROVE  /\ U!Body(s) \in Seq(U!Characters) /\ Len(U!Body(s)) \in Nat
           /\ s = <<"open">> \o U!Body(s)
<1>1. PICK t : t = Tail(s)
  OBVIOUS
<1>2. U!Body(s) = t /\ s[1] = "open"
  BY <1>1 DEF U!Body, U!IsBraced
<1>3. s # <<>>
  <2>1. Len(<<>>) = 0
    OBVIOUS
  <2>. QED BY <2>1
<1>4. t \in Seq(U!Characters) /\ Len(t) = n - 1 /\ \A i \in 1 .. Len(t) : t[i] = s[i + 1]
  BY <1>1, <1>3, HeadTailProperties
<1>5. PICK b : b = <<"open">> /\ b \in Seq(U!Characters) /\ Len(b) = 1 /\ b[1] = "open"
  BY BracesAre
<1>6. PICK w : w = b \o t /\ Joins(w, b, t, 1, n - 1)
  BY <1>4, <1>5, Joined, Zenon
<1>7. Len(w) = n
  BY <1>6 DEF Joins
<1>8. ASSUME NEW i \in 1 .. n PROVE w[i] = s[i]
  <2>0. (\A j \in 1 .. 1 : w[j] = b[j]) /\ (\A j \in 1 .. n - 1 : w[1 + j] = t[j])
    BY <1>6 DEF Joins
  <2>1. CASE i = 1
    BY <1>2, <1>5, <2>0, <2>1
  <2>2. CASE i # 1
    <3>1. i - 1 \in 1 .. n - 1 /\ 1 + (i - 1) = i /\ (i - 1) + 1 = i
      BY <2>2
    <3>2. \A j \in 1 .. n - 1 : t[j] = s[j + 1]
      BY <1>4
    <3>. QED BY <2>0, <3>1, <3>2
  <2>. QED BY <2>1, <2>2
<1>9. w \in Seq(U!Characters)
  BY <1>6 DEF Joins
<1>10. w = s
  BY <1>7, <1>8, <1>9, SameText, Zenon
<1>11. Len(t) \in Nat
  BY <1>4, LenProperties
<1>. QED BY <1>2, <1>4, <1>5, <1>6, <1>10, <1>11

\* UnmarshalText reads the four forms and no other text of any length.
LEMMA ReadsExactly ==
    ASSUME NEW s, s \in Seq(U!Characters)
    PROVE  U!UnmarshalText(s) = "ok" <=> s \in Forms
<1>0. PICK n \in Nat : n = Len(s)
  BY LenProperties
<1>1. U!Canonical \in Seq(U!Characters) /\ U!urnPrefix \in Seq(U!Characters)
      /\ <<"open">> \in Seq(U!Characters) /\ U!Canonical \o <<"close">> \in Seq(U!Characters)
  <2>1. U!Canonical \in Seq(U!Characters)
    BY FormsStart
  <2>2. <<"open">> \in Seq(U!Characters) /\ <<"close">> \in Seq(U!Characters)
    BY BracesAre
  <2>3. U!Canonical \o <<"close">> \in Seq(U!Characters)
    BY <2>1, <2>2, Behind
  <2>. QED BY <2>1, <2>2, <2>3, PrefixIs
<1>2. <<"open">> \o U!Canonical \o <<"close">> = <<"open">> \o (U!Canonical \o <<"close">>)
  <2>1. <<"open">> \in Seq(U!Characters) /\ <<"close">> \in Seq(U!Characters)
    BY BracesAre
  <2>. QED BY <1>1, <2>1, ConcatAssociative
<1>3. CASE n < 32
  <2>1. U!UnmarshalText(s) # "ok"
    BY <1>0, <1>3 DEF U!UnmarshalText
  <2>2. s \notin Forms
    BY <1>0, <1>3, FormsStart DEF Forms
  <2>. QED BY <2>1, <2>2
<1>4. CASE n >= 32 /\ U!IsUrn(s)
  <2>1. n >= 9
    BY <1>4
  <2>2. PICK t : t = U!Body(s) /\ t \in Seq(U!Characters) /\ Len(t) \in Nat
                 /\ s = U!urnPrefix \o t /\ ~U!IsBraced(s)
    BY <1>0, <1>4, <2>1, UrnBody, Zenon
  <2>3. U!UnmarshalText(s) = "ok" <=> Regular(t) /\ Len(t) = 36
    BY <1>0, <1>4, <2>2, UnmarshalOK
  <2>4. U!UnmarshalText(s) = "ok" <=> t = U!Canonical
    BY <2>2, <2>3, RegularIs
  <2>5. s = U!urnPrefix \o U!Canonical => t = U!Canonical
    BY <1>1, <2>2, SamePrefix
  <2>6. s[1] = "u"
    <3>1. 1 \in 1 .. 9
      OBVIOUS
    <3>. QED BY <1>0, <1>4, <2>1, <3>1, UrnIs
  <2>7. s \in Forms <=> s = U!urnPrefix \o U!Canonical
    BY <2>6, FormsStart DEF Forms
  <2>. QED BY <2>2, <2>4, <2>5, <2>7
<1>5. CASE n >= 32 /\ U!IsBraced(s)
  <2>1. n >= 1
    BY <1>5
  <2>2. PICK t : t = U!Body(s) /\ t \in Seq(U!Characters) /\ Len(t) \in Nat /\ s = <<"open">> \o t
    BY <1>0, <1>5, <2>1, BracedBody, Zenon
  <2>3. U!UnmarshalText(s) = "ok" <=> Regular(t) /\ (Len(t) = 36 \/ (Len(t) = 37 /\ t[37] = "close"))
    BY <1>0, <1>5, <2>2, UnmarshalOK
  <2>4. U!UnmarshalText(s) = "ok" <=> t = U!Canonical \/ t = U!Canonical \o <<"close">>
    BY <2>2, <2>3, RegularIs, RegularClosed
  <2>5. s = <<"open">> \o U!Canonical => t = U!Canonical
    BY <1>1, <2>2, SamePrefix
  <2>6. s = <<"open">> \o (U!Canonical \o <<"close">>) => t = U!Canonical \o <<"close">>
    BY <1>1, <2>2, SamePrefix
  <2>7. s[1] = "open" /\ ~U!IsUrn(s)
    BY <1>5 DEF U!IsBraced
  <2>8. s \in Forms <=> s = <<"open">> \o U!Canonical \/ s = <<"open">> \o (U!Canonical \o <<"close">>)
    BY <1>2, <2>7, FormsStart DEF Forms
  <2>. QED BY <2>2, <2>4, <2>5, <2>6, <2>8
<1>6. CASE n >= 32 /\ ~U!IsUrn(s) /\ ~U!IsBraced(s)
  <2>1. U!Body(s) = s
    BY <1>6 DEF U!Body
  <2>2. U!UnmarshalText(s) = "ok" <=> Regular(s) /\ n = 36
    BY <1>0, <1>6, <2>1, UnmarshalOK, ZenonT(30)
  <2>3. U!UnmarshalText(s) = "ok" <=> s = U!Canonical
    BY <1>0, <2>2, RegularIs
  <2>4. s[1] # "open"
    BY <1>6 DEF U!IsBraced
  <2>5. s \in Forms <=> s = U!Canonical
    BY <1>6, <2>4, FormsStart DEF Forms
  <2>. QED BY <2>3, <2>5
<1>. QED BY <1>3, <1>4, <1>5, <1>6

\* FromString and Scan of pkg/util/uuid.go: of all texts, of any length, just
\* four give a UUID: the three documented forms, and the braced one without its
\* closing brace, which is not documented.
THEOREM ReadsTheForms == AllSpec => []ReadsForms
<1> DEFINE Inv == text \in Seq(U!Characters) /\ (parsed # "none" => parsed = U!UnmarshalText(text))
<1>1. AllInit => Inv
  BY EmptySeq DEF AllInit, U!Init
<1>2. Inv /\ [AllNext]_AllVars => Inv'
  <2> SUFFICES ASSUME Inv, [AllNext]_AllVars PROVE Inv'
    OBVIOUS
  <2>1. CASE UNCHANGED <<text, parsed>>
    <3>1. PICK s, r : s = text /\ r = U!UnmarshalText(s)
      OBVIOUS
    <3>2. text' = s /\ parsed' = parsed
      BY <2>1, <3>1
    <3>. QED BY <3>1, <3>2
  <2>2. ASSUME NEW s \in Texts, U!FromString(s) PROVE Inv'
    <3>1. s \in Seq(U!Characters)
      BY LibraryAssumption DEF U!UuidAssumption
    <3>2. PICK r : r = U!UnmarshalText(s)
      OBVIOUS
    <3>3. text' = s /\ parsed' = r
      BY <2>2, <3>2 DEF U!FromString
    <3>. QED BY <3>1, <3>2, <3>3
  <2>3. U!Next => UNCHANGED <<text, parsed>> \/ \E s \in Texts : U!FromString(s)
    BY DEF U!Next, U!NewV1, U!NewV2, U!ClockMoves
  <2>4. UNCHANGED uuidVars => UNCHANGED <<text, parsed>>
    BY DEF uuidVars
  <2>. QED BY <2>1, <2>2, <2>3, <2>4 DEF AllNext, AllVars
<1>3. Inv => ReadsForms
  <2> SUFFICES ASSUME Inv, parsed # "none"
               PROVE  parsed = "ok" <=> text \in Forms
    BY DEF ReadsForms, U!ReadsForms, Forms
  <2>. QED BY ReadsExactly
<1>. QED BY <1>1, <1>2, <1>3, PTL DEF AllSpec

-----------------------------------------------------------------------------
(* The configuration                                                       *)

Fields == {"mode", "appName", "rootDir", "welcome", "ip", "webLogin", "base", "h5", "api", "level",
           "dir", "fileService", "minio", "upload", "download", "key", "secret", "token", "text",
           "expire", "number", "flag", "addrs", "detail"}

IsConfig(c) == DOMAIN c = Fields /\ c = [f \in Fields |-> c[f]]

\* What differs between c and d is within the fields F.
OnlyIn(c, d, F) == IsConfig(d) /\ \A f \in Fields \ F : d[f] = c[f]

LEMMA NewIs ==
    /\ IsConfig(S!New) /\ S!New.mode = <<"release">> /\ S!New.appName = <<"app">>
    /\ S!New.rootDir = <<"data">> /\ S!New.welcome = <<"welcome to ", "placeholder">>
    /\ S!New.ip = <<>> /\ S!New.webLogin = <<>> /\ S!New.base = <<>> /\ S!New.h5 = <<>> /\ S!New.api = <<>>
    /\ S!New.fileService = <<"minio">> /\ S!New.minio = <<>> /\ S!New.upload = <<>> /\ S!New.download = <<>>
  BY DEF S!New, S!Empty, IsConfig, Fields

LEMMA BasicIs ==
    ASSUME NEW c, IsConfig(c)
    PROVE  LET d == S!Basic(c)
               name == S!getString(file.appName, c.appName)
               t == S!getString(file.welcome, c.welcome)
           IN /\ OnlyIn(c, d, {"mode", "appName", "rootDir", "welcome"})
              /\ d.mode = S!getString(file.mode, <<"debug">>) /\ d.appName = name
              /\ d.rootDir = S!getString(file.rootDir, c.rootDir)
              /\ d.welcome = IF S!Blank(t) THEN t ELSE S!Filled(t, name)
  BY DEF IsConfig, Fields, OnlyIn, S!Basic

LEMMA ExternalIs ==
    ASSUME NEW c, IsConfig(c)
    PROVE  LET d == S!External(c)
               ip == S!Either(S!getString(file.ip, c.ip), IntranetIP)
               base == S!Either(S!getString(file.base, c.base), <<"http://">> \o ip \o <<":8090">>)
           IN /\ OnlyIn(c, d, {"ip", "webLogin", "base", "h5", "api"})
              /\ d.ip = ip /\ d.base = base
              /\ d.webLogin = S!Either(S!getString(file.webLogin, c.webLogin),
                                       <<"http://">> \o ip \o <<":82">>)
              /\ d.h5 = S!Either(c.h5, base \o <<"/web">>)
              /\ d.api = S!Either(c.api, base \o <<"/v1">>)
  BY ZenonT(30) DEF IsConfig, Fields, OnlyIn, S!External

LEMMA LogIs ==
    ASSUME NEW c, IsConfig(c)
    PROVE  LET d == S!configureLog(c)
               dir == S!Either(S!getString(file.dir, S!Empty), <<"logs">>)
           IN /\ OnlyIn(c, d, {"level", "dir"})
              /\ d.level = IF file.level # 0 THEN file.level - 2
                           ELSE IF c.mode = <<"debug">> THEN -1 ELSE 0
              /\ d.dir = IF dir[1] = "/" THEN dir ELSE c.rootDir \o <<"/">> \o dir
  BY DEF IsConfig, Fields, OnlyIn, S!configureLog

LEMMA FilesAre ==
    ASSUME NEW c, IsConfig(c)
    PROVE  LET d == S!FileServices(c)
               service == S!getString(file.fileService, c.fileService)
               url == S!getString(file.minio, c.minio)
               at == IF service = <<"minio">> /\ S!Blank(url)
                     THEN <<"http://">> \o c.ip \o <<":9000">> ELSE url
           IN /\ OnlyIn(c, d, {"fileService", "minio", "upload", "download"})
              /\ d.fileService = service /\ d.minio = at
              /\ d.upload = S!Either(S!getString(file.upload, c.upload), at)
              /\ d.download = S!Either(S!getString(file.download, c.download), at)
  BY DEF IsConfig, Fields, OnlyIn, S!FileServices

LEMMA CredentialsAre ==
    ASSUME NEW c, IsConfig(c)
    PROVE  LET d == S!Credentials(c)
           IN /\ OnlyIn(c, d, {"key", "secret", "token"})
              /\ d.key = S!StringEnv(S!StringEnv(S!getString(file.key, c.key), environ.awsKey), environ.tsKey)
              /\ d.secret = S!StringEnv(S!StringEnv(S!getString(file.secret, c.secret), environ.awsSecret),
                                        environ.tsSecret)
              /\ d.token = S!StringEnv(S!StringEnv(S!getString(file.token, c.token), environ.awsToken),
                                       environ.tsToken)
  BY DEF IsConfig, Fields, OnlyIn, S!Credentials

LEMMA SmallerAre ==
    ASSUME NEW c, IsConfig(c)
    PROVE  /\ OnlyIn(c, S!Stores(c), {"text", "expire"})
           /\ S!Stores(c).text = S!getString(file.text, c.text)
           /\ S!Stores(c).expire = S!getInt(file.expire, c.expire)
           /\ OnlyIn(c, S!Services(c), {"number", "flag"})
           /\ S!Services(c).number = S!getInt(file.number, c.number)
           /\ S!Services(c).flag = S!getBool(file.flag, c.flag)
           /\ OnlyIn(c, S!Search(c), {"addrs"})
           /\ S!Search(c).addrs = S!getStringSlice(file.addrs, c.addrs)
           /\ OnlyIn(c, S!Push(c), {"detail"})
           /\ S!Push(c).detail = S!getBool(file.detail, c.detail)
<1>1. OnlyIn(c, S!Stores(c), {"text", "expire"})
      /\ S!Stores(c).text = S!getString(file.text, c.text)
      /\ S!Stores(c).expire = S!getInt(file.expire, c.expire)
  BY DEF IsConfig, Fields, OnlyIn, S!Stores
<1>2. OnlyIn(c, S!Services(c), {"number", "flag"})
      /\ S!Services(c).number = S!getInt(file.number, c.number)
      /\ S!Services(c).flag = S!getBool(file.flag, c.flag)
  BY DEF IsConfig, Fields, OnlyIn, S!Services
<1>3. OnlyIn(c, S!Search(c), {"addrs"})
      /\ S!Search(c).addrs = S!getStringSlice(file.addrs, c.addrs)
  BY DEF IsConfig, Fields, OnlyIn, S!Search
<1>4. OnlyIn(c, S!Push(c), {"detail"})
      /\ S!Push(c).detail = S!getBool(file.detail, c.detail)
  BY DEF IsConfig, Fields, OnlyIn, S!Push
<1>. QED BY <1>1, <1>2, <1>3, <1>4

\* The values that the sections give to the fields, from the configuration before.
Name(c)    == S!getString(file.appName, c.appName)
Root(c)    == S!getString(file.rootDir, c.rootDir)
Greeting(c) == S!getString(file.welcome, c.welcome)
Host(c)    == S!Either(S!getString(file.ip, c.ip), IntranetIP)
BaseUrl(c) == S!Either(S!getString(file.base, c.base), <<"http://">> \o Host(c) \o <<":8090">>)
LogDir     == S!Either(S!getString(file.dir, S!Empty), <<"logs">>)
Service(c) == S!getString(file.fileService, c.fileService)
Store(c)   == IF Service(c) = <<"minio">> /\ S!Blank(S!getString(file.minio, c.minio))
              THEN <<"http://">> \o Host(c) \o <<":9000">> ELSE S!getString(file.minio, c.minio)

IsBasic(c, e) ==
    /\ e.mode = S!getString(file.mode, <<"debug">>) /\ e.appName = Name(c) /\ e.rootDir = Root(c)
    /\ e.welcome = IF S!Blank(Greeting(c)) THEN Greeting(c) ELSE S!Filled(Greeting(c), Name(c))

IsExternal(c, e) ==
    /\ e.ip = Host(c) /\ e.base = BaseUrl(c)
    /\ e.webLogin = S!Either(S!getString(file.webLogin, c.webLogin), <<"http://">> \o Host(c) \o <<":82">>)
    /\ e.h5 = S!Either(c.h5, BaseUrl(c) \o <<"/web">>)
    /\ e.api = S!Either(c.api, BaseUrl(c) \o <<"/v1">>)

IsLog(c, e) ==
    /\ e.level = IF file.level # 0 THEN file.level - 2 ELSE IF e.mode = <<"debug">> THEN -1 ELSE 0
    /\ e.dir = IF LogDir[1] = "/" THEN LogDir ELSE Root(c) \o <<"/">> \o LogDir

IsFiles(c, e) ==
    /\ e.fileService = Service(c) /\ e.minio = Store(c)
    /\ e.upload = S!Either(S!getString(file.upload, c.upload), Store(c))
    /\ e.download = S!Either(S!getString(file.download, c.download), Store(c))

IsCredentials(c, e) ==
    /\ e.key = S!StringEnv(S!StringEnv(S!getString(file.key, c.key), environ.awsKey), environ.tsKey)
    /\ e.secret = S!StringEnv(S!StringEnv(S!getString(file.secret, c.secret), environ.awsSecret),
                              environ.tsSecret)
    /\ e.token = S!StringEnv(S!StringEnv(S!getString(file.token, c.token), environ.awsToken),
                             environ.tsToken)

IsRest(c, e) ==
    /\ e.text = S!getString(file.text, c.text) /\ e.expire = S!getInt(file.expire, c.expire)
    /\ e.number = S!getInt(file.number, c.number) /\ e.flag = S!getBool(file.flag, c.flag)
    /\ e.addrs = S!getStringSlice(file.addrs, c.addrs) /\ e.detail = S!getBool(file.detail, c.detail)

LEMMA ConfiguredIs ==
    ASSUME NEW c, IsConfig(c)
    PROVE  LET e == S!Configured(c)
           IN /\ IsConfig(e) /\ IsBasic(c, e) /\ IsExternal(c, e) /\ IsLog(c, e)
              /\ IsFiles(c, e) /\ IsCredentials(c, e) /\ IsRest(c, e)
<1> USE DEF Fields
<1>1. PICK d1 : d1 = S!Basic(c) /\ OnlyIn(c, d1, {"mode", "appName", "rootDir", "welcome"})
                /\ IsBasic(c, d1)
  BY BasicIs DEF IsBasic, Name, Root, Greeting
<1>2. PICK d2 : d2 = S!External(d1) /\ OnlyIn(d1, d2, {"ip", "webLogin", "base", "h5", "api"})
                /\ IsExternal(c, d2)
  <2>1. IsConfig(d1) /\ d1.ip = c.ip /\ d1.base = c.base /\ d1.webLogin = c.webLogin
        /\ d1.h5 = c.h5 /\ d1.api = c.api
    BY <1>1 DEF OnlyIn
  <2>. QED BY <2>1, ExternalIs DEF IsExternal, Host, BaseUrl
<1>3. PICK d3 : d3 = S!configureLog(d2) /\ OnlyIn(d2, d3, {"level", "dir"}) /\ IsLog(c, d3)
  <2>1. IsConfig(d2) /\ d2.rootDir = Root(c)
    BY <1>1, <1>2 DEF OnlyIn, IsBasic
  <2>2. PICK d3 : d3 = S!configureLog(d2)
    OBVIOUS
  <2>3. d3.mode = d2.mode
    BY <2>1, <2>2, LogIs DEF OnlyIn
  <2>. QED BY <2>1, <2>2, <2>3, LogIs DEF IsLog, LogDir
<1>4. PICK d4 : d4 = S!Stores(d3) /\ OnlyIn(d3, d4, {"text", "expire"})
                /\ d4.text = S!getString(file.text, c.text) /\ d4.expire = S!getInt(file.expire, c.expire)
  <2>1. IsConfig(d3) /\ d3.text = c.text /\ d3.expire = c.expire
    BY <1>1, <1>2, <1>3 DEF OnlyIn
  <2>. QED BY <2>1, SmallerAre
<1>5. PICK d5 : d5 = S!FileServices(d4) /\ OnlyIn(d4, d5, {"fileService", "minio", "upload", "download"})
                /\ IsFiles(c, d5)
  <2>1. IsConfig(d4) /\ d4.fileService = c.fileService /\ d4.minio = c.minio /\ d4.upload = c.upload
        /\ d4.download = c.download /\ d4.ip = Host(c)
    BY <1>1, <1>2, <1>3, <1>4 DEF OnlyIn, IsExternal
  <2>. QED BY <2>1, FilesAre DEF IsFiles, Service, Store
<1>6. PICK d6 : d6 = S!Credentials(d5) /\ OnlyIn(d5, d6, {"key", "secret", "token"}) /\ IsCredentials(c, d6)
  <2>1. IsConfig(d5) /\ d5.key = c.key /\ d5.secret = c.secret /\ d5.token = c.token
    BY <1>1, <1>2, <1>3, <1>4, <1>5 DEF OnlyIn
  <2>. QED BY <2>1, CredentialsAre DEF IsCredentials
<1>7. PICK d7 : d7 = S!Services(d6) /\ OnlyIn(d6, d7, {"number", "flag"})
                /\ d7.number = S!getInt(file.number, c.number) /\ d7.flag = S!getBool(file.flag, c.flag)
  <2>1. IsConfig(d6) /\ d6.number = c.number /\ d6.flag = c.flag
    BY <1>1, <1>2, <1>3, <1>4, <1>5, <1>6 DEF OnlyIn
  <2>. QED BY <2>1, SmallerAre
<1>8. PICK d8 : d8 = S!Search(d7) /\ OnlyIn(d7, d8, {"addrs"})
                /\ d8.addrs = S!getStringSlice(file.addrs, c.addrs)
  <2>1. IsConfig(d7) /\ d7.addrs = c.addrs
    BY <1>1, <1>2, <1>3, <1>4, <1>5, <1>6, <1>7 DEF OnlyIn
  <2>. QED BY <2>1, SmallerAre
<1>9. PICK e : e = S!Push(d8) /\ OnlyIn(d8, e, {"detail"}) /\ e.detail = S!getBool(file.detail, c.detail)
  <2>1. IsConfig(d8) /\ d8.detail = c.detail
    BY <1>1, <1>2, <1>3, <1>4, <1>5, <1>6, <1>7, <1>8 DEF OnlyIn
  <2>. QED BY <2>1, SmallerAre
<1>10. e = S!Configured(c)
  BY <1>1, <1>2, <1>3, <1>4, <1>5, <1>6, <1>7, <1>8, <1>9 DEF S!Configured
<1>11. IsConfig(e)
  BY <1>9 DEF OnlyIn
<1>12. IsBasic(c, e)
  <2>1. e.mode = d1.mode /\ e.appName = d1.appName /\ e.rootDir = d1.rootDir /\ e.welcome = d1.welcome
    BY <1>2, <1>3, <1>4, <1>5, <1>6, <1>7, <1>8, <1>9 DEF OnlyIn
  <2>. QED BY <1>1, <2>1 DEF IsBasic
<1>13. IsExternal(c, e)
  <2>1. e.ip = d2.ip /\ e.base = d2.base /\ e.webLogin = d2.webLogin /\ e.h5 = d2.h5 /\ e.api = d2.api
    BY <1>3, <1>4, <1>5, <1>6, <1>7, <1>8, <1>9 DEF OnlyIn
  <2>. QED BY <1>2, <2>1 DEF IsExternal
<1>14. IsLog(c, e)
  <2>1. e.level = d3.level /\ e.dir = d3.dir /\ e.mode = d3.mode
    BY <1>4, <1>5, <1>6, <1>7, <1>8, <1>9 DEF OnlyIn
  <2>. QED BY <1>3, <2>1 DEF IsLog
<1>15. IsFiles(c, e)
  <2>1. e.fileService = d5.fileService /\ e.minio = d5.minio /\ e.upload = d5.upload
        /\ e.download = d5.download
    BY <1>6, <1>7, <1>8, <1>9 DEF OnlyIn
  <2>. QED BY <1>5, <2>1 DEF IsFiles
<1>16. IsCredentials(c, e)
  <2>1. e.key = d6.key /\ e.secret = d6.secret /\ e.token = d6.token
    BY <1>7, <1>8, <1>9 DEF OnlyIn
  <2>. QED BY <1>6, <2>1 DEF IsCredentials
<1>17. IsRest(c, e)
  <2>1. e.text = d4.text /\ e.expire = d4.expire
    BY <1>5, <1>6, <1>7, <1>8, <1>9 DEF OnlyIn
  <2>2. e.number = d7.number /\ e.flag = d7.flag /\ e.addrs = d8.addrs
    BY <1>8, <1>9 DEF OnlyIn
  <2>. QED BY <1>4, <1>7, <1>8, <1>9, <2>1, <2>2 DEF IsRest
<1>. QED BY <1>10, <1>11, <1>12, <1>13, <1>14, <1>15, <1>16, <1>17

LEMMA ListsSettle ==
    ASSUME NEW v, v.kind \in {"unset", "list", "comma"}
    PROVE  \A x, d, e : d = S!getStringSlice(v, x) /\ e = S!getStringSlice(v, d) => e = d
<1> SUFFICES ASSUME NEW x, NEW d, NEW e, d = S!getStringSlice(v, x), e = S!getStringSlice(v, d)
             PROVE  e = d
  OBVIOUS
<1>1. CASE v.kind = "unset"
  BY <1>1 DEF S!getStringSlice
<1>2. CASE v.kind = "list"
  BY <1>2 DEF S!getStringSlice
<1>3. CASE v.kind = "comma"
  BY <1>3 DEF S!getStringSlice
<1>. QED BY <1>1, <1>2, <1>3

LEMMA FilledSettles ==
    ASSUME NEW v, NEW name, name[1] # "placeholder"
    PROVE  S!Filled(S!Filled(v, name), name) = S!Filled(v, name)
  BY DEF S!Filled

\* ConfigureWithViper on its own result changes nothing, whatever the file, the
\* environment and the configuration before.
LEMMA ConfiguredSettles ==
    ASSUME NEW c, IsConfig(c), Name(c)[1] # "placeholder",
           file.addrs.kind \in {"unset", "list", "comma"}
    PROVE  S!Configured(S!Configured(c)) = S!Configured(c)
<1>1. PICK d : d = S!Configured(c) /\ IsConfig(d) /\ IsBasic(c, d) /\ IsExternal(c, d) /\ IsLog(c, d)
               /\ IsFiles(c, d) /\ IsCredentials(c, d) /\ IsRest(c, d)
  BY ConfiguredIs
<1>2. PICK e : e = S!Configured(d) /\ IsConfig(e) /\ IsBasic(d, e) /\ IsExternal(d, e) /\ IsLog(d, e)
               /\ IsFiles(d, e) /\ IsCredentials(d, e) /\ IsRest(d, e)
  BY <1>1, ConfiguredIs
<1>3. Name(d) = Name(c) /\ Root(d) = Root(c)
  BY <1>1 DEF IsBasic, Name, Root, S!getString
<1>4. e.mode = d.mode /\ e.appName = d.appName /\ e.rootDir = d.rootDir
  BY <1>1, <1>2, <1>3 DEF IsBasic
<1>5. e.welcome = d.welcome
  <2>1. PICK t : t = Greeting(c)
    OBVIOUS
  <2>2. d.welcome = IF S!Blank(t) THEN t ELSE S!Filled(t, Name(c))
    BY <1>1, <2>1 DEF IsBasic
  <2>3. PICK u : u = Greeting(d)
    OBVIOUS
  <2>4. e.welcome = IF S!Blank(u) THEN u ELSE S!Filled(u, Name(c))
    BY <1>2, <1>3, <2>3 DEF IsBasic
  <2>5. u = t \/ u = d.welcome
    BY <2>1, <2>3 DEF Greeting, S!getString
  <2>6. CASE u = d.welcome
    <3>1. S!Filled(S!Filled(t, Name(c)), Name(c)) = S!Filled(t, Name(c))
      BY FilledSettles
    <3>. QED BY <2>2, <2>4, <2>6, <3>1
  <2>. QED BY <2>2, <2>4, <2>5, <2>6
<1>6. Host(d) = Host(c)
  <2>1. d.ip = Host(c)
    BY <1>1 DEF IsExternal
  <2>2. d.ip = S!Either(S!getString(file.ip, c.ip), IntranetIP)
    BY <2>1 DEF Host
  <2>3. Host(d) = S!Either(S!getString(file.ip, d.ip), IntranetIP)
    BY DEF Host
  <2>4. Host(d) = d.ip
    BY <2>2, <2>3 DEF S!Either, S!getString, S!Blank
  <2>. QED BY <2>1, <2>4
<1>7. BaseUrl(d) = BaseUrl(c)
  <2>1. PICK y : y = <<"http://">> \o Host(c) \o <<":8090">>
    OBVIOUS
  <2>2. d.base = S!Either(S!getString(file.base, c.base), y)
    BY <1>1, <2>1 DEF IsExternal, BaseUrl
  <2>3. BaseUrl(d) = S!Either(S!getString(file.base, d.base), y)
    BY <1>6, <2>1 DEF BaseUrl
  <2>4. BaseUrl(c) = S!Either(S!getString(file.base, c.base), y)
    BY <2>1 DEF BaseUrl
  <2>5. BaseUrl(d) = d.base
    BY <2>2, <2>3 DEF S!Either, S!getString, S!Blank
  <2>. QED BY <2>2, <2>4, <2>5
<1>8. e.ip = d.ip /\ e.base = d.base
  BY <1>1, <1>2, <1>6, <1>7 DEF IsExternal
<1>9. e.webLogin = d.webLogin /\ e.h5 = d.h5 /\ e.api = d.api
  <2>1. PICK y : y = <<"http://">> \o Host(c) \o <<":82">>
    OBVIOUS
  <2>2. PICK h : h = BaseUrl(c) \o <<"/web">>
    OBVIOUS
  <2>3. PICK a : a = BaseUrl(c) \o <<"/v1">>
    OBVIOUS
  <2>4. /\ d.webLogin = S!Either(S!getString(file.webLogin, c.webLogin), y)
        /\ d.h5 = S!Either(c.h5, h) /\ d.api = S!Either(c.api, a)
    BY <1>1, <2>1, <2>2, <2>3 DEF IsExternal
  <2>5. /\ e.webLogin = S!Either(S!getString(file.webLogin, d.webLogin), y)
        /\ e.h5 = S!Either(d.h5, h) /\ e.api = S!Either(d.api, a)
    BY <1>2, <1>6, <1>7, <2>1, <2>2, <2>3 DEF IsExternal
  <2>6. e.webLogin = d.webLogin
    BY <2>4, <2>5 DEF S!Either, S!getString, S!Blank
  <2>7. e.h5 = d.h5
    BY <2>4, <2>5 DEF S!Either, S!Blank
  <2>8. e.api = d.api
    BY <2>4, <2>5 DEF S!Either, S!Blank
  <2>. QED BY <2>6, <2>7, <2>8
<1>10. e.level = d.level /\ e.dir = d.dir
  BY <1>1, <1>2, <1>3, <1>4 DEF IsLog
<1>11. Service(d) = Service(c)
  BY <1>1 DEF IsFiles, Service, S!getString
<1>12. Store(d) = Store(c)
  <2>1. PICK y : y = <<"http://">> \o Host(c) \o <<":9000">>
    OBVIOUS
  <2>2. PICK m : m = S!getString(file.minio, c.minio)
    OBVIOUS
  <2>3. Store(c) = IF Service(c) = <<"minio">> /\ S!Blank(m) THEN y ELSE m
    BY <2>1, <2>2 DEF Store
  <2>4. d.minio = Store(c)
    BY <1>1 DEF IsFiles
  <2>5. PICK n : n = S!getString(file.minio, d.minio)
    OBVIOUS
  <2>6. Store(d) = IF Service(c) = <<"minio">> /\ S!Blank(n) THEN y ELSE n
    BY <1>6, <1>11, <2>1, <2>5 DEF Store
  <2>7. n = m \/ n = Store(c)
    BY <2>2, <2>4, <2>5 DEF S!getString
  <2>8. PICK q, a, b : q = Service(c) /\ a = Store(c) /\ b = Store(d)
    OBVIOUS
  <2>9. PICK isMinio \in BOOLEAN : isMinio <=> q = <<"minio">>
    OBVIOUS
  <2>10. a = (IF isMinio /\ S!Blank(m) THEN y ELSE m) /\ b = (IF isMinio /\ S!Blank(n) THEN y ELSE n)
    BY <2>3, <2>6, <2>8, <2>9, Zenon
  <2>11. n = m \/ n = a
    BY <2>7, <2>8
  <2>12. a = b
    BY <2>10, <2>11, Zenon
  <2>. QED BY <2>8, <2>12
<1>13. e.fileService = d.fileService /\ e.minio = d.minio /\ e.upload = d.upload /\ e.download = d.download
  <2>1. PICK y : y = Store(c)
    OBVIOUS
  <2>2. /\ d.upload = S!Either(S!getString(file.upload, c.upload), y)
        /\ d.download = S!Either(S!getString(file.download, c.download), y)
        /\ d.fileService = Service(c) /\ d.minio = y
    BY <1>1, <2>1 DEF IsFiles
  <2>3. /\ e.upload = S!Either(S!getString(file.upload, d.upload), y)
        /\ e.download = S!Either(S!getString(file.download, d.download), y)
        /\ e.fileService = Service(c) /\ e.minio = y
    BY <1>2, <1>11, <1>12, <2>1 DEF IsFiles
  <2>4. e.upload = d.upload
    BY <2>2, <2>3 DEF S!Either, S!getString, S!Blank
  <2>5. e.download = d.download
    BY <2>2, <2>3 DEF S!Either, S!getString, S!Blank
  <2>. QED BY <2>2, <2>3, <2>4, <2>5
<1>14. e.key = d.key /\ e.secret = d.secret /\ e.token = d.token
  <2>1. e.key = d.key
    BY <1>1, <1>2 DEF IsCredentials, S!StringEnv, S!getString
  <2>2. e.secret = d.secret
    BY <1>1, <1>2 DEF IsCredentials, S!StringEnv, S!getString
  <2>3. e.token = d.token
    BY <1>1, <1>2 DEF IsCredentials, S!StringEnv, S!getString
  <2>. QED BY <2>1, <2>2, <2>3
<1>15. e.text = d.text /\ e.expire = d.expire /\ e.number = d.number
  <2>1. e.text = d.text
    BY <1>1, <1>2 DEF IsRest, S!getString
  <2>2. e.expire = d.expire
    BY <1>1, <1>2 DEF IsRest, S!getInt
  <2>3. e.number = d.number
    BY <1>1, <1>2 DEF IsRest, S!getInt
  <2>. QED BY <2>1, <2>2, <2>3
<1>16. e.flag = d.flag /\ e.detail = d.detail
  <2>1. e.flag = d.flag
    BY <1>1, <1>2 DEF IsRest, S!getBool
  <2>2. e.detail = d.detail
    BY <1>1, <1>2 DEF IsRest, S!getBool
  <2>. QED BY <2>1, <2>2
<1>17. e.addrs = d.addrs
  <2>1. PICK v : v = file.addrs
    OBVIOUS
  <2>2. d.addrs = S!getStringSlice(v, c.addrs) /\ e.addrs = S!getStringSlice(v, d.addrs)
    BY <1>1, <1>2, <2>1 DEF IsRest
  <2>3. v.kind \in {"unset", "list", "comma"}
    BY <2>1
  <2>4. PICK x, a, b : x = c.addrs /\ a = d.addrs /\ b = e.addrs
    OBVIOUS
  <2>5. a = S!getStringSlice(v, x) /\ b = S!getStringSlice(v, a)
    BY <2>2, <2>4
  <2>6. b = a
    <3>1. \A w : w.kind \in {"unset", "list", "comma"} =>
             \A i, j, k : j = S!getStringSlice(w, i) /\ k = S!getStringSlice(w, j) => k = j
      BY ListsSettle, Zenon
    <3>2. \A i, j, k : j = S!getStringSlice(v, i) /\ k = S!getStringSlice(v, j) => k = j
      BY <2>3, <3>1
    <3>. QED BY <2>5, <3>2, Zenon
  <2>. QED BY <2>4, <2>6
<1>18. \A f \in Fields : e[f] = d[f]
  BY <1>4, <1>5, <1>8, <1>9, <1>10, <1>13, <1>14, <1>15, <1>16, <1>17 DEF Fields
<1>. QED BY <1>1, <1>2, <1>18 DEF IsConfig

\* The pieces values are made of.
Pieces == STRING \cup {"http://", ":8090", ":82", ":9000", "/web", "/v1", "/", "unset", " ", "data", "logs",
                       "root", "sub", "var", "1.2.3.4", "base", "login", "minio", "up", "down"}

\* What the file has to be like: its values are values, the name of the
\* application is no placeholder and the greeting names it by the placeholder.
WellFormed ==
    /\ file.rootDir \in Seq(Pieces) /\ file.dir \in Seq(Pieces)
    /\ file.ip \in Seq(Pieces) /\ file.base \in Seq(Pieces) /\ file.minio \in Seq(Pieces)
    /\ file.appName[1] # "placeholder"
    /\ \A i \in DOMAIN file.welcome : file.welcome[i] \notin {"app", "Octo"}
    /\ file.level \in Int
    /\ file.addrs.kind \in {"unset", "list", "comma"}

LEMMA OnePiece == \A x \in Pieces : <<x>> \in Seq(Pieces) /\ Len(<<x>>) = 1
  OBVIOUS

LEMMA SomePieces ==
    {"http://", ":8090", ":82", ":9000", "/", "data", "logs"} \subseteq Pieces /\ STRING \subseteq Pieces
  BY DEF Pieces

\* The places of short values.
LEMMA ShortValues ==
    /\ DOMAIN <<>> = {}
    /\ \A a : DOMAIN <<a>> = {1} /\ <<a>>[1] = a
    /\ \A a, b : DOMAIN <<a, b>> = {1, 2} /\ <<a, b>>[1] = a /\ <<a, b>>[2] = b
    /\ \A a, b, c : DOMAIN <<a, b, c>> = {1, 2, 3}
                    /\ <<a, b, c>>[1] = a /\ <<a, b, c>>[2] = b /\ <<a, b, c>>[3] = c
<1>1. \A a : DOMAIN <<a>> = {1} /\ <<a>>[1] = a
  OBVIOUS
<1>2. \A a, b : DOMAIN <<a, b>> = {1, 2} /\ <<a, b>>[1] = a /\ <<a, b>>[2] = b
  OBVIOUS
<1>3. DOMAIN <<>> = {}
  OBVIOUS
<1>4. \A a, b, c : DOMAIN <<a, b, c>> = {1, 2, 3}
                   /\ <<a, b, c>>[1] = a /\ <<a, b, c>>[2] = b /\ <<a, b, c>>[3] = c
  OBVIOUS
<1>. QED BY <1>1, <1>2, <1>3, <1>4

LEMMA BlankIs == \A v : S!Blank(v) <=> v = <<>> \/ v = <<" ">>
  BY DEF S!Blank

\* A URL is never blank and has the host behind the scheme.
LEMMA UrlIs ==
    ASSUME NEW v, v \in Seq(Pieces), ~S!Blank(v), NEW p, p \in {":8090", ":82", ":9000"}
    PROVE  /\ <<"http://">> \o v \o <<p>> \in Seq(Pieces)
           /\ ~S!Blank(<<"http://">> \o v \o <<p>>)
           /\ (<<"http://">> \o v \o <<p>>)[2] = v[1]
<1>1. PICK h : h = <<"http://">> /\ h \in Seq(Pieces) /\ Len(h) = 1
  BY OnePiece, SomePieces
<1>2. PICK q : q = <<p>> /\ q \in Seq(Pieces) /\ Len(q) = 1
  BY OnePiece, SomePieces
<1>3. PICK n \in Nat : n = Len(v)
  BY LenProperties
<1>4. n # 0
  <2>1. v # <<>>
    BY BlankIs
  <2>. QED BY <1>3, <2>1, EmptySeq
<1>5. PICK u : u = h \o v
  OBVIOUS
<1>6. u \in Seq(Pieces) /\ Len(u) = 1 + n
  BY <1>1, <1>3, <1>5, ConcatProperties
<1>7. u[2] = v[1]
  <2>1. \A i \in 1 .. Len(h) + Len(v) : (h \o v)[i] = IF i <= Len(h) THEN h[i] ELSE v[i - Len(h)]
    BY <1>1, ConcatProperties
  <2>2. 2 \in 1 .. 1 + n /\ ~(2 <= 1) /\ 2 - 1 = 1
    BY <1>4
  <2>. QED BY <1>1, <1>3, <1>5, <2>1, <2>2
<1>8. PICK w : w = u \o q
  OBVIOUS
<1>9. w \in Seq(Pieces) /\ Len(w) = (1 + n) + 1
  BY <1>2, <1>6, <1>8, ConcatProperties
<1>10. w[2] = u[2]
  <2>1. \A i \in 1 .. Len(u) + Len(q) : (u \o q)[i] = IF i <= Len(u) THEN u[i] ELSE q[i - Len(u)]
    BY <1>2, <1>6, ConcatProperties
  <2>2. 2 \in 1 .. (1 + n) + 1 /\ 2 <= 1 + n
    BY <1>4
  <2>. QED BY <1>2, <1>6, <1>8, <2>1, <2>2
<1>11. ~S!Blank(w)
  <2>1. Len(<<>>) = 0 /\ Len(<<" ">>) = 1
    OBVIOUS
  <2>2. Len(w) # 0 /\ Len(w) # 1
    BY <1>4, <1>9
  <2>. QED BY <2>1, <2>2, BlankIs
<1>12. w = <<"http://">> \o v \o <<p>>
  BY <1>1, <1>2, <1>5, <1>8
<1>. QED BY <1>7, <1>9, <1>10, <1>11, <1>12

LEMMA NewName == WellFormed => Name(S!New)[1] # "placeholder"
<1> SUFFICES ASSUME WellFormed PROVE Name(S!New)[1] # "placeholder"
  OBVIOUS
<1>1. Name(S!New) = file.appName \/ Name(S!New) = <<"app">>
  BY NewIs DEF Name, S!getString
<1>2. file.appName[1] # "placeholder"
  BY DEF WellFormed
<1>3. <<"app">>[1] # "placeholder"
  BY ShortValues
<1>. QED BY <1>1, <1>2, <1>3

\* The configuration that New and ConfigureWithViper give.
LEMMA SoundOnce ==
    ASSUME WellFormed, config = S!Configured(S!New), configured > 0
    PROVE  ConfigSound
<1>0. PICK n : n = S!New /\ IsConfig(n)
  BY NewIs
<1>1. PICK e : e = config /\ IsBasic(n, e) /\ IsExternal(n, e) /\ IsLog(n, e) /\ IsFiles(n, e)
               /\ IsCredentials(n, e) /\ IsRest(n, e)
  BY <1>0, ConfiguredIs
<1>2. Name(n)[1] # "placeholder"
  BY <1>0, NewName
<1>3. S!ConfigureTwice
  BY <1>0, <1>2, ConfiguredSettles DEF S!ConfigureTwice, WellFormed
<1>4. S!AddressesUsable
  <2>1. PICK ip : ip = Host(n) /\ ip \in Seq(Pieces) /\ ~S!Blank(ip)
    <3>1. IntranetIP \in Seq(Pieces) /\ ~S!Blank(IntranetIP)
      <4>1. STRING \subseteq Pieces
        BY DEF Pieces
      <4>2. IntranetIP \in Seq(STRING) /\ ~S!Blank(IntranetIP)
        BY LibraryAssumption DEF S!SettingsAssumption
      <4>. QED BY <4>1, <4>2, SeqMonotonic
    <3>2. PICK a : a = file.ip /\ a \in Seq(Pieces)
      BY DEF WellFormed
    <3>3. Host(n) = IF S!Blank(S!getString(a, <<>>)) THEN IntranetIP ELSE S!getString(a, <<>>)
      BY <1>0, <3>2, NewIs DEF Host, S!Either
    <3>4. S!getString(a, <<>>) \in {a, <<>>}
      BY DEF S!getString
    <3>5. S!Blank(<<>>)
      BY BlankIs
    <3>. QED BY <3>1, <3>2, <3>3, <3>4, <3>5
  <2>2. e.ip = ip
    BY <1>1, <2>1 DEF IsExternal
  <2>3. PICK u : u = <<"http://">> \o ip \o <<":8090">> /\ ~S!Blank(u) /\ u[2] = ip[1]
    BY <2>1, UrlIs
  <2>4. PICK w : w = <<"http://">> \o ip \o <<":82">> /\ ~S!Blank(w)
    BY <2>1, UrlIs
  <2>5. PICK m : m = <<"http://">> \o ip \o <<":9000">> /\ ~S!Blank(m) /\ m[2] = ip[1]
    BY <2>1, UrlIs
  <2>6. e.base = S!Either(S!getString(file.base, S!Empty), u)
    BY <1>0, <1>1, <2>1, <2>3, NewIs DEF IsExternal, BaseUrl, S!Empty
  <2>7. ~S!Blank(e.base) /\ (S!Blank(S!getString(file.base, S!Empty)) => e.base[2] = ip[1])
    BY <2>3, <2>6 DEF S!Either
  <2>8. ~S!Blank(e.webLogin)
    <3>1. e.webLogin = S!Either(S!getString(file.webLogin, n.webLogin), w)
      BY <1>1, <2>1, <2>4 DEF IsExternal
    <3>. QED BY <2>4, <3>1 DEF S!Either
  <2>9. e.h5 = e.base \o <<"/web">> /\ e.api = e.base \o <<"/v1">>
    <3>1. n.h5 = <<>> /\ n.api = <<>> /\ S!Blank(<<>>)
      BY <1>0, NewIs, BlankIs
    <3>. QED BY <1>1, <3>1 DEF IsExternal, S!Either
  <2>10. ASSUME e.fileService = <<"minio">>
         PROVE  /\ ~S!Blank(e.upload) /\ ~S!Blank(e.download)
                /\ S!Blank(S!getString(file.minio, S!Empty)) => e.minio[2] = ip[1]
    <3>1. PICK g : g = S!getString(file.minio, S!Empty)
      OBVIOUS
    <3>2. Store(n) = IF S!Blank(g) THEN m ELSE g
      <4>1. Service(n) = <<"minio">>
        BY <1>1, <2>10 DEF IsFiles
      <4>2. g = S!getString(file.minio, n.minio)
        BY <1>0, <3>1, NewIs DEF S!Empty
      <4>. QED BY <2>1, <2>5, <4>1, <4>2 DEF Store
    <3>3. PICK s : s = Store(n) /\ ~S!Blank(s) /\ (S!Blank(g) => s[2] = ip[1])
      BY <2>5, <3>2
    <3>4. /\ e.minio = s /\ e.upload = S!Either(S!getString(file.upload, n.upload), s)
          /\ e.download = S!Either(S!getString(file.download, n.download), s)
      BY <1>1, <3>3 DEF IsFiles
    <3>5. ~S!Blank(e.upload) /\ ~S!Blank(e.download)
      BY <3>3, <3>4 DEF S!Either
    <3>. QED BY <3>1, <3>3, <3>4, <3>5
  <2>. QED BY <1>1, <2>1, <2>2, <2>7, <2>8, <2>9, <2>10 DEF S!AddressesUsable
<1>5. S!WelcomeNamed
  <2>1. PICK a : a = Name(n) /\ a[1] # "placeholder" /\ e.appName = a
    BY <1>1, <1>2 DEF IsBasic
  <2>2. PICK t : t = Greeting(n) /\ e.welcome = IF S!Blank(t) THEN t ELSE S!Filled(t, a)
    BY <1>1, <2>1 DEF IsBasic
  <2>3. \A i \in DOMAIN t : t[i] \notin {"app", "Octo"}
    <3>1. CASE t = file.welcome
      BY <3>1 DEF WellFormed
    <3>2. CASE t = <<"welcome to ", "placeholder">>
      <4>1. DOMAIN t = {1, 2} /\ t[1] = "welcome to " /\ t[2] = "placeholder"
        BY <3>2, ShortValues
      <4>. QED BY <4>1
    <3>3. t = file.welcome \/ t = <<"welcome to ", "placeholder">>
      BY <1>0, <2>2, NewIs DEF Greeting, S!getString
    <3>. QED BY <3>1, <3>2, <3>3
  <2>4. ASSUME NEW i \in DOMAIN e.welcome
        PROVE  e.welcome[i] # "placeholder" /\ (e.welcome[i] \in {"app", "Octo"} => e.welcome[i] = a[1])
    <3>1. CASE S!Blank(t)
      <4>1. e.welcome = t
        BY <2>2, <3>1
      <4>2. t = <<>> \/ t = <<" ">>
        BY <3>1, BlankIs
      <4>3. t[i] = " "
        <5>1. t = <<>> => DOMAIN t = {}
          BY ShortValues, Zenon
        <5>2. t = <<" ">> => DOMAIN t = {1} /\ t[1] = " "
          BY ShortValues, Zenon
        <5>. QED BY <4>1, <4>2, <5>1, <5>2
      <4>. QED BY <4>1, <4>3
    <3>2. CASE ~S!Blank(t)
      <4>1. e.welcome = [j \in DOMAIN t |-> IF t[j] = "placeholder" THEN a[1] ELSE t[j]]
        BY <2>2, <3>2 DEF S!Filled
      <4>. QED BY <2>1, <2>3, <4>1
    <3>. QED BY <3>1, <3>2
  <2>. QED BY <1>1, <2>1, <2>4 DEF S!WelcomeNamed
<1>6. S!CredentialsRanked
  <2>1. n.key = <<>> /\ n.secret = <<>> /\ n.token = <<>>
    BY <1>0 DEF S!New, S!Empty
  <2>2. ASSUME NEW u, NEW app, NEW aws, NEW own, u = S!StringEnv(S!StringEnv(S!getString(own, <<>>), aws), app)
        PROVE  /\ app # <<>> => u = app
               /\ app = <<>> /\ aws # <<>> => u = aws
               /\ app = <<>> /\ aws = <<>> => u = S!getString(own, <<>>)
    BY <2>2 DEF S!StringEnv, S!Empty
  <2>3. /\ config.key = S!StringEnv(S!StringEnv(S!getString(file.key, <<>>), environ.awsKey), environ.tsKey)
        /\ config.secret = S!StringEnv(S!StringEnv(S!getString(file.secret, <<>>), environ.awsSecret), environ.tsSecret)
        /\ config.token = S!StringEnv(S!StringEnv(S!getString(file.token, <<>>), environ.awsToken), environ.tsToken)
    BY <1>1, <2>1 DEF IsCredentials
  <2>. QED BY <2>2, <2>3 DEF S!CredentialsRanked, S!Empty
<1>7. S!FileDecides
  <2>1. file.flag # S!Unset => (e.flag <=> file.flag = <<"true">>)
    BY <1>1 DEF IsRest, S!getBool
  <2>2. file.detail # S!Unset => (e.detail <=> file.detail = <<"true">>)
    BY <1>1 DEF IsRest, S!getBool
  <2>3. PICK r : r = Root(n) /\ e.rootDir = r /\ r \in Seq(Pieces) /\ r # <<>>
    <3>1. PICK a : a = file.rootDir /\ a \in Seq(Pieces)
      BY DEF WellFormed
    <3>2. <<"data">> \in Seq(Pieces) /\ <<"data">> # <<>>
      BY DEF Pieces
    <3>3. Root(n) = S!getString(a, <<"data">>)
      BY <1>0, <3>1, NewIs DEF Root
    <3>4. S!getString(a, <<"data">>) = <<"data">> \/ (S!getString(a, <<"data">>) = a /\ a # <<>>)
      BY DEF S!getString, S!Empty
    <3>. QED BY <1>1, <3>1, <3>2, <3>3, <3>4 DEF IsBasic
  <2>4. PICK l : l = LogDir /\ l \in Seq(Pieces)
    <3>1. PICK a : a = file.dir /\ a \in Seq(Pieces)
      BY DEF WellFormed
    <3>2. <<"logs">> \in Seq(Pieces)
      BY DEF Pieces
    <3>3. LogDir \in {a, <<>>, <<"logs">>}
      BY <3>1 DEF LogDir, S!Either, S!getString, S!Empty
    <3>. QED BY <3>1, <3>2, <3>3, EmptySeq
  <2>5. e.dir[1] \in {"/", r[1]}
    <3>1. e.dir = IF l[1] = "/" THEN l ELSE r \o <<"/">> \o l
      BY <1>1, <2>3, <2>4 DEF IsLog
    <3>2. (r \o <<"/">> \o l)[1] = r[1]
      <4>1. PICK k \in Nat : k = Len(r) /\ k # 0
        BY <2>3, LenProperties, EmptySeq
      <4>2. PICK q : q = <<"/">> /\ q \in Seq(Pieces) /\ Len(q) = 1
        BY OnePiece, SomePieces
      <4>3. PICK u : u = r \o q
        OBVIOUS
      <4>4. u \in Seq(Pieces) /\ Len(u) = k + 1
        BY <2>3, <4>1, <4>2, <4>3, ConcatProperties
      <4>5. 1 \in 1 .. k + 1 /\ 1 <= k
        BY <4>1
      <4>6. u[1] = r[1]
        <5>1. \A i \in 1 .. Len(r) + Len(q) : (r \o q)[i] = IF i <= Len(r) THEN r[i] ELSE q[i - Len(r)]
          BY <2>3, <4>2, ConcatProperties
        <5>. QED BY <4>1, <4>2, <4>3, <4>5, <5>1
      <4>7. (u \o l)[1] = u[1]
        <5>1. \A i \in 1 .. Len(u) + Len(l) : (u \o l)[i] = IF i <= Len(u) THEN u[i] ELSE l[i - Len(u)]
          BY <2>4, <4>4, ConcatProperties
        <5>2. PICK j \in Nat : j = Len(l)
          BY <2>4, LenProperties
        <5>3. 1 \in 1 .. (k + 1) + j /\ 1 <= k + 1
          BY <4>1
        <5>. QED BY <4>4, <5>1, <5>2, <5>3
      <4>. QED BY <4>2, <4>3, <4>6, <4>7
    <3>. QED BY <3>1, <3>2
  <2>6. e.level = -1 <=> file.level = 1 \/ (file.level = 0 /\ e.mode = <<"debug">>)
    <3>1. PICK k \in Int : k = file.level
      BY DEF WellFormed
    <3>2. e.level = IF k # 0 THEN k - 2 ELSE IF e.mode = <<"debug">> THEN -1 ELSE 0
      BY <1>1, <3>1 DEF IsLog
    <3>. QED BY <3>1, <3>2
  <2>. QED BY <1>1, <2>1, <2>2, <2>3, <2>5, <2>6 DEF S!FileDecides
<1>. QED BY <1>3, <1>4, <1>5, <1>6, <1>7 DEF ConfigSound

\* The values of Files, as pieces.
LEMMA GivenValues ==
    /\ <<>> \in Seq(Pieces) /\ <<" ">> \in Seq(Pieces) /\ <<"unset">> \in Seq(Pieces)
    /\ <<"root">> \in Seq(Pieces) /\ <<"sub">> \in Seq(Pieces) /\ <<"/", "var">> \in Seq(Pieces)
    /\ <<"1.2.3.4">> \in Seq(Pieces) /\ <<"base">> \in Seq(Pieces) /\ <<"minio">> \in Seq(Pieces)
<1>1. <<"/", "var">> \in Seq(Pieces)
  <2>1. "/" \in Pieces /\ "var" \in Pieces
    BY DEF Pieces
  <2>. QED BY <2>1
<1>2. {" ", "unset", "root", "sub", "1.2.3.4", "base", "minio"} \subseteq Pieces
  BY DEF Pieces
<1>. QED BY <1>1, <1>2, OnePiece, EmptySeq

LEMMA MaybeIs ==
    ASSUME NEW v, NEW x
    PROVE  /\ x \in S!Maybe(v) <=> x = <<"unset">> \/ x = <<>> \/ x = <<" ">> \/ x = v
           /\ x \in S!Given(v) <=> x = <<"unset">> \/ x = v
  BY Zenon DEF S!Maybe, S!Given, S!Unset, S!Empty

\* The values of the fields that matter.
PlainFile(f) ==
    /\ f.rootDir \in S!Given(<<"root">>)
    /\ f.dir \in S!Maybe(<<"sub">>) \cup {<<"/", "var">>}
    /\ f.ip \in S!Maybe(<<"1.2.3.4">>)
    /\ f.base \in S!Maybe(<<"base">>)
    /\ f.minio \in S!Maybe(<<"minio">>)
    /\ f.appName \in S!Given(<<"Octo">>)
    /\ f.welcome \in S!Maybe(S!Greeting)
    /\ f.level \in Int
    /\ f.addrs.kind \in {"unset", "list", "comma"}

LEMMA PiecesOf ==
    ASSUME NEW x, x \in S!Given(<<"root">>) \/ x \in S!Maybe(<<"sub">>) \cup {<<"/", "var">>}
                  \/ x \in S!Maybe(<<"1.2.3.4">>) \/ x \in S!Maybe(<<"base">>) \/ x \in S!Maybe(<<"minio">>)
    PROVE  x \in Seq(Pieces)
<1>1. \/ x = <<>> \/ x = <<" ">> \/ x = <<"unset">> \/ x = <<"root">> \/ x = <<"sub">> \/ x = <<"/", "var">>
      \/ x = <<"1.2.3.4">> \/ x = <<"base">> \/ x = <<"minio">>
  BY Zenon, MaybeIs
<1>. QED BY Zenon, <1>1, GivenValues

LEMMA NamesOf ==
    ASSUME NEW x \in S!Given(<<"Octo">>)
    PROVE  x[1] # "placeholder"
<1>1. <<"unset">>[1] # "placeholder" /\ <<"Octo">>[1] # "placeholder"
  BY ShortValues
<1>2. x = <<"unset">> \/ x = <<"Octo">>
  BY Zenon, MaybeIs
<1>. QED BY Zenon, <1>1, <1>2

LEMMA GreetingsOf ==
    ASSUME NEW x \in S!Maybe(S!Greeting)
    PROVE  \A i \in DOMAIN x : x[i] \notin {"app", "Octo"}
<1> DEFINE Quiet(y) == \A i \in DOMAIN y : y[i] \notin {"app", "Octo"}
<1>1. Quiet(<<"unset">>) /\ Quiet(<<" ">>)
  <2>1. \A a : DOMAIN <<a>> = {1} /\ <<a>>[1] = a
    BY Zenon, ShortValues
  <2>2. ASSUME NEW y, y \notin {"app", "Octo"} PROVE Quiet(<<y>>)
    BY <2>1, <2>2
  <2>3. "unset" \notin {"app", "Octo"} /\ " " \notin {"app", "Octo"}
    OBVIOUS
  <2> HIDE DEF Quiet
  <2>. QED BY Zenon, <2>2, <2>3
<1>2. Quiet(<<>>)
  <2>1. DOMAIN <<>> = {}
    BY ShortValues
  <2>. QED BY Zenon, <2>1
<1>3. Quiet(<<"hi ", "placeholder", "!">>)
  <2>1. PICK y : y = <<"hi ", "placeholder", "!">>
    OBVIOUS
  <2>2. DOMAIN y = {1, 2, 3} /\ y[1] = "hi " /\ y[2] = "placeholder" /\ y[3] = "!"
    <3>1. \A a, b, c : DOMAIN <<a, b, c>> = {1, 2, 3}
                      /\ <<a, b, c>>[1] = a /\ <<a, b, c>>[2] = b /\ <<a, b, c>>[3] = c
      BY ShortValues, SMTT(30)
    <3>2. PICK a, b, c : a = "hi " /\ b = "placeholder" /\ c = "!"
      OBVIOUS
    <3>3. y = <<a, b, c>>
      BY Zenon, <2>1, <3>2
    <3>4. DOMAIN y = {1, 2, 3} /\ y[1] = a /\ y[2] = b /\ y[3] = c
      BY Zenon, <3>1, <3>3
    <3>. QED BY Zenon, <3>2, <3>4
  <2>3. \A i \in {1, 2, 3} : i = 1 \/ i = 2 \/ i = 3
    OBVIOUS
  <2>4. "hi " \notin {"app", "Octo"} /\ "placeholder" \notin {"app", "Octo"} /\ "!" \notin {"app", "Octo"}
    OBVIOUS
  <2>5. Quiet(y)
    BY Zenon, <2>2, <2>3, <2>4
  <2>. QED BY Zenon, <2>1, <2>5
<1>4. x = <<"unset">> \/ x = <<>> \/ x = <<" ">> \/ x = <<"hi ", "placeholder", "!">>
  BY Zenon, MaybeIs DEF S!Greeting
<1> HIDE DEF Quiet
<1>5. Quiet(x)
  BY Zenon, <1>1, <1>2, <1>3, <1>4
<1>. QED BY <1>5 DEF Quiet

LEMMA WellFormedWhen ==
    ASSUME PlainFile(file)
    PROVE  WellFormed
<1>1. /\ file.rootDir \in Seq(Pieces) /\ file.dir \in Seq(Pieces)
      /\ file.ip \in Seq(Pieces) /\ file.base \in Seq(Pieces) /\ file.minio \in Seq(Pieces)
  BY Zenon, PiecesOf DEF PlainFile
<1>2. file.appName[1] # "placeholder"
  <2>1. PICK x : x = file.appName
    OBVIOUS
  <2>. QED BY Zenon, <2>1, NamesOf DEF PlainFile
<1>3. \A i \in DOMAIN file.welcome : file.welcome[i] \notin {"app", "Octo"}
  <2>1. PICK x : x = file.welcome
    OBVIOUS
  <2>2. x \in S!Maybe(S!Greeting)
    BY Zenon, <2>1 DEF PlainFile
  <2>3. \A i \in DOMAIN x : x[i] \notin {"app", "Octo"}
    BY Zenon, <2>2, GreetingsOf
  <2>. QED BY Zenon, <2>1, <2>3
<1>4. file.level \in Int /\ file.addrs.kind \in {"unset", "list", "comma"}
  BY Zenon DEF PlainFile
<1>. QED BY <1>1, <1>2, <1>3, <1>4 DEF WellFormed

LEMMA EmptyFileIs ==
    ASSUME NEW e, e = S!EmptyFile
    PROVE  /\ e.rootDir = <<"unset">> /\ e.dir = <<"unset">> /\ e.ip = <<"unset">>
           /\ e.base = <<"unset">> /\ e.minio = <<"unset">>
           /\ e.appName = <<"unset">> /\ e.welcome = <<"unset">>
           /\ e.level = 0 /\ e.addrs.kind = "unset"
           /\ DOMAIN e = {"mode", "appName", "rootDir", "welcome", "ip", "webLogin", "base", "level", "dir",
                          "fileService", "minio", "upload", "download", "key", "secret", "token",
                          "text", "expire", "number", "flag", "addrs", "detail"}
  BY DEF S!EmptyFile, S!Unset

LEMMA FilesWellFormed ==
    /\ file = S!EmptyFile => WellFormed
    /\ S!Init => WellFormed
<1>1. PICK e : e = S!EmptyFile
  OBVIOUS
<1> DEFINE u == <<"unset">>
<1>2. PICK x : x = u
  OBVIOUS
<1>3. /\ x \in S!Given(<<"root">>) /\ x \in S!Maybe(<<"sub">>) /\ x \in S!Maybe(<<"1.2.3.4">>)
      /\ x \in S!Maybe(<<"base">>) /\ x \in S!Maybe(<<"minio">>) /\ x \in S!Given(<<"Octo">>)
      /\ x \in S!Maybe(S!Greeting) /\ x \in S!Maybe(<<"sub">>) \cup {<<"/", "var">>}
  BY Zenon, <1>2, MaybeIs DEF u
<1>4. /\ e.rootDir = x /\ e.dir = x /\ e.ip = x /\ e.base = x /\ e.minio = x
      /\ e.appName = x /\ e.welcome = x /\ e.level \in Int /\ e.addrs.kind \in {"unset", "list", "comma"}
      /\ {"rootDir", "dir", "ip", "base", "minio", "appName", "welcome", "level", "addrs"} \subseteq DOMAIN e
  BY <1>1, <1>2, EmptyFileIs
<1> HIDE DEF u
<1>5. ASSUME file = e PROVE WellFormed
  <2>1. PlainFile(file)
    BY Zenon, <1>3, <1>4, <1>5 DEF PlainFile
  <2>. QED BY <2>1, WellFormedWhen
<1>6. ASSUME file \in S!WordFiles PROVE WellFormed
  <2>1. \E a \in S!Given(<<"Octo">>), w \in S!Maybe(S!Greeting) : \E t, f, n :
           file = S!Wording(a, w, t, f, n)
    BY <1>6 DEF S!WordFiles
  <2>2. PICK a \in S!Given(<<"Octo">>), w \in S!Maybe(S!Greeting) : \E t, f, n :
           file = S!Wording(a, w, t, f, n)
    BY Zenon, <2>1
  <2>3. /\ file.appName = a /\ file.welcome = w /\ file.rootDir = x /\ file.dir = x
        /\ file.ip = x /\ file.base = x /\ file.minio = x /\ file.level = e.level /\ file.addrs = e.addrs
    BY <1>1, <1>4, <2>2 DEF S!Wording
  <2>4. PlainFile(file)
    BY Zenon, <1>4, <1>3, <2>3 DEF PlainFile
  <2>. QED BY <2>4, WellFormedWhen
<1>7. ASSUME file \in S!LogFiles PROVE WellFormed
  <2>1. \E r \in S!Given(<<"root">>), l \in 0 .. 3, d \in S!Maybe(<<"sub">>) \cup {<<"/", "var">>}, a \in S!Lists :
          \E m : file = S!Logging(m, r, l, d, a)
    BY <1>7 DEF S!LogFiles
  <2>2. PICK r \in S!Given(<<"root">>), l \in 0 .. 3, d \in S!Maybe(<<"sub">>) \cup {<<"/", "var">>}, a \in S!Lists :
          \E m : file = S!Logging(m, r, l, d, a)
    BY Zenon, <2>1
  <2>3. a.kind \in {"unset", "list", "comma"}
    <3>1. PICK A, B : S!Lists = {[kind |-> "unset"]} \cup [kind : {"list"}, parts : A]
                                  \cup [kind : {"comma"}, parts : B]
      BY Zenon DEF S!Lists
    <3>. QED BY <3>1
  <2>4. /\ file.appName = x /\ file.welcome = x /\ file.rootDir = r /\ file.dir = d
        /\ file.ip = x /\ file.base = x /\ file.minio = x /\ file.level = l /\ file.addrs = a
    BY <1>1, <1>4, <2>2 DEF S!Logging
  <2>5. l \in Int
    OBVIOUS
  <2>6. PlainFile(file)
    BY Zenon, <1>4, <1>3, <2>3, <2>4, <2>5 DEF PlainFile
  <2>. QED BY <2>6, WellFormedWhen
<1>8. ASSUME file \in S!AddressFiles PROVE WellFormed
  <2>1. \E i \in S!Maybe(<<"1.2.3.4">>), b \in S!Maybe(<<"base">>), m \in S!Maybe(<<"minio">>) : \E w, s, v, d :
           file = S!Addressing(i, w, b, s, m, v, d)
    BY <1>8 DEF S!AddressFiles
  <2>2. PICK i \in S!Maybe(<<"1.2.3.4">>), b \in S!Maybe(<<"base">>), m \in S!Maybe(<<"minio">>) : \E w, s, v, d :
           file = S!Addressing(i, w, b, s, m, v, d)
    BY Zenon, <2>1
  <2>3. /\ file.appName = x /\ file.welcome = x /\ file.rootDir = x /\ file.dir = x
        /\ file.ip = i /\ file.base = b /\ file.minio = m /\ file.level = e.level /\ file.addrs = e.addrs
    BY <1>1, <1>4, <2>2 DEF S!Addressing
  <2>4. PlainFile(file)
    BY Zenon, <1>4, <1>3, <2>3 DEF PlainFile
  <2>. QED BY <2>4, WellFormedWhen
<1>9. ASSUME file \in S!KeyFiles PROVE WellFormed
  <2>1. PICK k, s, t : file = S!Keys(k, s, t)
    BY <1>9 DEF S!KeyFiles
  <2>2. /\ file.appName = x /\ file.welcome = x /\ file.rootDir = x /\ file.dir = x
        /\ file.ip = x /\ file.base = x /\ file.minio = x /\ file.level = e.level /\ file.addrs = e.addrs
    BY <1>1, <1>4, <2>1 DEF S!Keys
  <2>3. PlainFile(file)
    BY Zenon, <1>4, <1>3, <2>2 DEF PlainFile
  <2>. QED BY <2>3, WellFormedWhen
<1>10. ASSUME S!Init PROVE WellFormed
  <2>1. file \in S!WordFiles \/ file \in S!LogFiles \/ file \in S!AddressFiles \/ file \in S!KeyFiles
    BY Zenon, <1>10 DEF S!Init
  <2>. QED BY <2>1, <1>6, <1>7, <1>8, <1>9
<1>. QED BY <1>1, <1>5, <1>10

\* With the same file and environment the sections give the same.
LEMMA SameConfigured ==
    ASSUME file' = file, environ' = environ
    PROVE  S!Configured(S!New)' = S!Configured(S!New)
<1> DEFINE c1 == S!Basic(S!New)
           c2 == S!External(c1)
           c3 == S!configureLog(c2)
           c4 == S!Stores(c3)
           c5 == S!FileServices(c4)
           c6 == S!Credentials(c5)
           c7 == S!Services(c6)
           c8 == S!Search(c7)
           c9 == S!Push(c8)
<1>0. S!Configured(S!New) = c9 /\ S!Configured(S!New)' = c9'
  BY DEF S!Configured
<1> HIDE DEF c1, c2, c3, c4, c5, c6, c7, c8, c9
<1>1. c1' = c1
  BY DEF c1, S!Basic, S!New
<1>2. c2' = c2
  BY <1>1 DEF c2, S!External
<1>3. c3' = c3
  BY <1>2 DEF c3, S!configureLog
<1>4. c4' = c4
  BY <1>3 DEF c4, S!Stores
<1>5. c5' = c5
  BY <1>4 DEF c5, S!FileServices
<1>6. c6' = c6
  BY <1>5 DEF c6, S!Credentials
<1>7. c7' = c7
  BY <1>6 DEF c7, S!Services
<1>8. c8' = c8
  BY <1>7 DEF c8, S!Search
<1>9. c9' = c9
  BY <1>8 DEF c9, S!Push
<1>. QED BY <1>0, <1>9

SInv ==
    /\ WellFormed /\ configured \in Nat
    /\ config = IF configured = 0 THEN S!New ELSE S!Configured(S!New)

\* ConfigureWithViper of config/config.go: configured once or again, with any of
\* the files and environments, the addresses can be used, the greeting names the
\* application, credentials are ranked field by field and the file's switches count.
THEOREM ConfigurationIsSound == AllSpec => []ConfigSound
<1>1. AllInit => SInv
  <2> SUFFICES ASSUME AllInit PROVE SInv
    OBVIOUS
  <2>1. config = S!New /\ configured = 0 /\ (file = S!EmptyFile \/ S!Init)
    <3>1. S!Init => config = S!New /\ configured = 0
      BY Zenon DEF S!Init
    <3>. QED BY <3>1 DEF AllInit
  <2>. QED BY <2>1, FilesWellFormed DEF SInv
<1>2. SInv /\ [AllNext]_AllVars => SInv'
  <2> SUFFICES ASSUME SInv, [AllNext]_AllVars PROVE SInv'
    OBVIOUS
  <2>1. S!Next \/ UNCHANGED setVars
    BY DEF AllNext, AllVars
  <2>2. file' = file /\ environ' = environ
    BY <2>1 DEF setVars, S!Next, S!ConfigureWithViper
  <2>3. WellFormed'
    BY <2>2 DEF SInv, WellFormed
  <2>4. PICK d : d = S!Configured(S!New) /\ S!Configured(S!New)' = d
    BY <2>2, SameConfigured
  <2>5. CASE S!Next
    <3>1. config' = S!Configured(config) /\ configured' = configured + 1
      BY <2>5 DEF S!Next, S!ConfigureWithViper
    <3>2. S!Configured(config) = d
      <4>1. CASE configured = 0
        BY <2>4, <4>1 DEF SInv
      <4>2. CASE configured # 0
        <5>1. Name(S!New)[1] # "placeholder" /\ file.addrs.kind \in {"unset", "list", "comma"}
          BY NewName DEF SInv, WellFormed
        <5>2. S!Configured(d) = d
          BY <2>4, <5>1, NewIs, ConfiguredSettles
        <5>. QED BY <2>4, <4>2, <5>2 DEF SInv
      <4>. QED BY <4>1, <4>2
    <3>. QED BY <2>3, <2>4, <3>1, <3>2 DEF SInv
  <2>6. CASE UNCHANGED setVars
    BY <2>3, <2>4, <2>6 DEF SInv, setVars
  <2>. QED BY <2>1, <2>5, <2>6
<1>3. SInv => ConfigSound
  <2>1. CASE configured = 0
    BY <2>1 DEF ConfigSound, S!ConfigureTwice, S!AddressesUsable, S!WelcomeNamed, S!CredentialsRanked,
                S!FileDecides
  <2>2. ASSUME SInv, configured # 0 PROVE ConfigSound
    <3>1. configured > 0 /\ WellFormed /\ config = S!Configured(S!New)
      BY <2>2 DEF SInv
    <3>. QED BY <3>1, SoundOnce
  <2>. QED BY <2>1, <2>2
<1>. QED BY <1>1, <1>2, <1>3, PTL DEF AllSpec
==============================================================================
