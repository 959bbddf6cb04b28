----------------------------- MODULE Iteration -----------------------------
(***************************************************************************)
(* Induction and iteration over the natural numbers, about sets and        *)
(* functions, so that the provers can use them as they are.                *)
(***************************************************************************)
EXTENDS Naturals, NaturalsInduction, WellFoundedInduction, TLAPS

(* A set of numbers that is not empty has a least member.                  *)
LEMMA LeastPosition ==
    ASSUME NEW S \in SUBSET Nat, S # {}
    PROVE  \E i \in S : \A j \in S : i <= j
<1> DEFINE R == OpToRel(<, Nat)
<1>1. IsWellFoundedOn(R, Nat)
  BY NatLessThanWellFounded
<1>2. \A x, y \in Nat : y < x => <<y, x>> \in R
  BY DEF OpToRel
<1> HIDE DEF R
<1>3. PICK i \in S : \A j \in S : ~(<<j, i>> \in R)
  BY <1>1, WFMin
<1>4. ASSUME NEW j \in S PROVE i <= j
  <2>1. i \in Nat /\ j \in Nat /\ <<j, i>> \notin R
    BY <1>3
  <2>2. ~(j < i)
    BY <1>2, <2>1
  <2>3. QED BY <2>1, <2>2
<1>5. QED BY <1>4

(* Induction over the natural numbers, of a set of them.                   *)
LEMMA NatInduct ==
    ASSUME NEW S, 0 \in S, \A n \in Nat : n \in S => n + 1 \in S
    PROVE  Nat \subseteq S
<1> SUFFICES ASSUME Nat \ S # {} PROVE FALSE
  OBVIOUS
<1>1. PICK x \in Nat \ S : \A y \in Nat \ S : x <= y
  BY LeastPosition
<1>2. x # 0 /\ x - 1 \in Nat /\ ~(x <= x - 1)
  BY <1>1
<1>3. x - 1 \in S
  BY <1>1, <1>2
<1>4. QED BY <1>1, <1>2, <1>3

(* Induction up to a bound.                                                *)
LEMMA BoundedInduct ==
    ASSUME NEW m \in Nat, NEW S, 0 \in S, \A n \in 0 .. m - 1 : n \in S => n + 1 \in S
    PROVE  0 .. m \subseteq S
<1> DEFINE R == {n \in Nat : n <= m => n \in S}
<1>1. 0 \in R
  OBVIOUS
<1>2. ASSUME NEW n \in Nat, n \in R PROVE n + 1 \in R
  BY <1>2
<1> HIDE DEF R
<1>3. Nat \subseteq R
  BY <1>1, <1>2, NatInduct
<1>4. QED BY <1>3 DEF R

(* A step on T that may depend on its number, and what comes of x when it  *)
(* is repeated.                                                            *)
IsStep(T, F) == F \in [Nat -> [T -> T]]
IsIterate(T, x, F, g) == g \in [Nat -> T] /\ g[0] = x /\ \A n \in Nat : g[n + 1] = F[n][g[n]]

(* A step can be repeated for ever.                                        *)
LEMMA Iterates ==
    ASSUME NEW T, NEW x \in T, NEW F, IsStep(T, F)
    PROVE  \E g : IsIterate(T, x, F, g)
<1>0. F \in [Nat -> [T -> T]]
  BY DEF IsStep
<1> DEFINE Begins(n, h) == h \in [0 .. n -> T] /\ h[0] = x /\ \A i \in 0 .. n - 1 : h[i + 1] = F[i][h[i]]
           S == {n \in Nat : \E h \in [0 .. n -> T] : Begins(n, h)}
           Same(n, m, h, k) == \A i \in Nat : i <= n /\ i <= m => h[i] = k[i]
<1>1. 0 \in S
  <2>1. Begins(0, [i \in 0 .. 0 |-> x])
    OBVIOUS
  <2>2. QED BY <2>1
<1>2. ASSUME NEW n \in Nat, n \in S PROVE n + 1 \in S
  <2>1. PICK h \in [0 .. n -> T] : Begins(n, h)
    BY <1>2
  <2> DEFINE k == [i \in 0 .. n + 1 |-> IF i = n + 1 THEN F[n][h[n]] ELSE h[i]]
  <2>2. n \in 0 .. n /\ h[n] \in T /\ F[n][h[n]] \in T
    BY <1>0, <2>1
  <2>3. k \in [0 .. n + 1 -> T]
    BY <2>1, <2>2
  <2>4. k[0] = x
    BY <2>1
  <2>5. ASSUME NEW i \in 0 .. n PROVE k[i + 1] = F[i][k[i]]
    <3>1. CASE i = n
      <4>1. n \in 0 .. n + 1 /\ n + 1 \in 0 .. n + 1 /\ n # n + 1
        OBVIOUS
      <4>2. k[n + 1] = F[n][h[n]] /\ k[n] = h[n]
        BY <4>1
      <4> HIDE DEF k
      <4>3. QED BY <3>1, <4>2
    <3>2. CASE i # n
      <4>1. i \in 0 .. n - 1 /\ i + 1 \in 0 .. n + 1 /\ i + 1 # n + 1
        BY <3>2
      <4>2. k[i + 1] = h[i + 1] /\ k[i] = h[i]
        BY <4>1
      <4>3. h[i + 1] = F[i][h[i]]
        BY <2>1, <4>1
      <4> HIDE DEF k
      <4>4. QED BY <4>2, <4>3
    <3>3. QED BY <3>1, <3>2
  <2> HIDE DEF k
  <2>6. (n + 1) - 1 = n
    OBVIOUS
  <2>7. Begins(n + 1, k)
    BY <2>3, <2>4, <2>5, <2>6
  <2> HIDE DEF Begins
  <2>8. QED BY <2>3, <2>7
<1>3. Nat \subseteq S
  <2> HIDE DEF S
  <2>1. QED BY <1>1, <1>2, NatInduct
<1>4. ASSUME NEW n \in Nat, NEW m \in Nat, NEW h, NEW k, Begins(n, h), Begins(m, k)
      PROVE  Same(n, m, h, k)
  <2> DEFINE R == {i \in Nat : i <= n /\ i <= m => h[i] = k[i]}
  <2>1. 0 \in R
    BY <1>4
  <2>2. ASSUME NEW i \in Nat, i \in R PROVE i + 1 \in R
    <3> SUFFICES ASSUME i + 1 <= n, i + 1 <= m PROVE h[i + 1] = k[i + 1]
      OBVIOUS
    <3>1. i \in 0 .. n - 1 /\ i \in 0 .. m - 1 /\ i <= n /\ i <= m
      OBVIOUS
    <3>2. h[i] = k[i]
      BY <2>2, <3>1
    <3>3. h[i + 1] = F[i][h[i]] /\ k[i + 1] = F[i][k[i]]
      BY <1>4, <3>1
    <3>4. QED BY <3>2, <3>3
  <2>3. Nat \subseteq R
    <3> HIDE DEF R
    <3>1. QED BY <2>1, <2>2, NatInduct
  <2>4. QED BY <2>3
<1> DEFINE part == [n \in Nat |-> CHOOSE h \in [0 .. n -> T] : Begins(n, h)]
           g == [n \in Nat |-> part[n][n]]
<1>5. ASSUME NEW n \in Nat PROVE Begins(n, part[n])
  BY <1>3
<1> HIDE DEF part
<1>6. g \in [Nat -> T]
  <2>1. ASSUME NEW n \in Nat PROVE part[n][n] \in T
    <3>1. part[n] \in [0 .. n -> T] /\ n \in 0 .. n
      BY <1>5
    <3>2. QED BY <3>1
  <2>2. QED BY <2>1
<1>7. g[0] = x
  BY <1>5
<1>8. ASSUME NEW n \in Nat PROVE g[n + 1] = F[n][g[n]]
  <2>1. g[n + 1] = part[n + 1][n + 1] /\ g[n] = part[n][n]
    OBVIOUS
  <2>2. n \in 0 .. (n + 1) - 1 /\ Begins(n + 1, part[n + 1]) /\ Begins(n, part[n])
    BY <1>5
  <2>3. part[n + 1][n + 1] = F[n][part[n + 1][n]]
    BY <2>2
  <2>4. Same(n + 1, n, part[n + 1], part[n])
    <3> HIDE DEF Begins, Same
    <3>1. QED BY <1>4, <2>2
  <2>5. part[n + 1][n] = part[n][n]
    BY <2>4
  <2>6. QED BY <2>1, <2>3, <2>5
<1> HIDE DEF g
<1>9. QED BY <1>6, <1>7, <1>8 DEF IsIterate
=============================================================================
