----------------------------- MODULE NatBounds -----------------------------
(***************************************************************************)
(* Sets of natural numbers have a least element, and a greatest one if     *)
(* they are bounded: what the proofs need to know about the model's        *)
(* minima, maxima and last occurrences.  From it follows induction, with a *)
(* set in place of the predicate.                                          *)
(***************************************************************************)
EXTENDS Integers, WellFoundedInduction, TLAPS

\* Every set of natural numbers that is not empty has a least element.
LEMMA NatLeast ==
  ASSUME NEW S, S \subseteq Nat, S # {}
  PROVE  \E x \in S : \A y \in S : x <= y
<1>1. PICK x \in S : \A y \in S : ~(<<y, x>> \in OpToRel(<, Nat))
  BY NatLessThanWellFounded, WFMin, Zenon
<1>2. OpToRel(<, Nat) = {p \in Nat \X Nat : p[1] < p[2]}
  BY Zenon DEF OpToRel
<1>3. x \in S /\ \A y \in S : <<y, x>> \notin {p \in Nat \X Nat : p[1] < p[2]}
  BY <1>1, <1>2, Zenon
<1>4. ASSUME NEW y \in S PROVE x <= y
  <2>1. x \in Nat /\ y \in Nat
    BY <1>3, Zenon
  <2>2. <<y, x>> \notin {p \in Nat \X Nat : p[1] < p[2]}
    BY <1>3, Zenon
  <2> QED
    BY <2>1, <2>2, SMT
<1> QED
  BY <1>3, <1>4, Zenon

\* A bounded one has a greatest element.
LEMMA NatGreatest ==
  ASSUME NEW S, S \subseteq Nat, S # {}, NEW n \in Nat, \A x \in S : x <= n
  PROVE  \E x \in S : \A y \in S : y <= x
<1> DEFINE T == {m \in Nat : n - m \in S}
<1>1. T # {}
  <2>1. PICK x \in S : TRUE
    OBVIOUS
  <2>2. x \in Nat /\ x <= n /\ n - x \in Nat /\ n - (n - x) = x
    BY <2>1
  <2> QED
    BY <2>1, <2>2
<1>2. PICK m \in T : \A k \in T : m <= k
  <2> HIDE DEF T
  <2>1. T \subseteq Nat
    BY DEF T
  <2> QED
    BY <1>1, <2>1, NatLeast
<1>3. ASSUME NEW y \in S PROVE y <= n - m
  <2>1. y \in Nat /\ y <= n /\ n - y \in Nat /\ n - (n - y) = y
    OBVIOUS
  <2>2. n - y \in T
    BY <2>1
  <2>3. m <= n - y /\ m \in Nat
    BY <1>2, <2>2
  <2> QED
    BY <2>1, <2>3
<1> QED
  BY <1>2, <1>3

\* Induction, with the set of the numbers for which the claim holds.
LEMMA NatInductive ==
  ASSUME NEW P, 0 \in P, \A i \in Nat : i \in P => i + 1 \in P
  PROVE  Nat \subseteq P
<1> SUFFICES ASSUME Nat \ P # {} PROVE FALSE
  OBVIOUS
<1>1. PICK x \in Nat \ P : \A y \in Nat \ P : x <= y
  BY NatLeast, Nat \ P \subseteq Nat
<1>2. x # 0 /\ x - 1 \in Nat /\ (x - 1) + 1 = x
  BY <1>1
<1>3. x - 1 \in P
  BY <1>1, <1>2
<1> QED
  BY <1>1, <1>2, <1>3

\* f has what T makes of s in 0, 1 ... n steps.
Course(S, s, T, n, f) ==
  f \in [0 .. n -> S] /\ f[0] = s /\ \A i \in 1 .. n : f[i] = T[f[i - 1]]

\* A step that stays in a set can be repeated any number of times.
LEMMA Iterate ==
  ASSUME NEW S, NEW s \in S, NEW T \in [S -> S], NEW n \in Nat
  PROVE  \E f : Course(S, s, T, n, f)
<1> DEFINE Begun(m, f) == f[0] = s /\ \A i \in 1 .. m : f[i] = T[f[i - 1]]
           P == {m \in Nat : \E f \in [0 .. m -> S] : Begun(m, f)}
<1>1. 0 \in P
  <2>1. [i \in 0 .. 0 |-> s] \in [0 .. 0 -> S] /\ Begun(0, [i \in 0 .. 0 |-> s])
    OBVIOUS
  <2> HIDE DEF Begun
  <2> QED
    BY <2>1
<1>2. ASSUME NEW m \in Nat, m \in P PROVE m + 1 \in P
  <2>1. PICK f \in [0 .. m -> S] : Begun(m, f)
    BY <1>2
  <2> DEFINE g == [i \in 0 .. m + 1 |-> IF i = m + 1 THEN T[f[m]] ELSE f[i]]
  <2>2. f[m] \in S /\ T[f[m]] \in S
    OBVIOUS
  <2>3. g \in [0 .. m + 1 -> S]
    BY <2>2
  <2>4. g[m + 1] = T[f[m]] /\ \A i \in 0 .. m : g[i] = f[i]
    OBVIOUS
  <2> HIDE DEF g
  <2>5. ASSUME NEW i \in 1 .. m + 1 PROVE g[i] = T[g[i - 1]]
    <3>1. CASE i = m + 1
      BY <3>1, <2>4
    <3>2. CASE i # m + 1
      <4>1. i \in 1 .. m /\ i - 1 \in 0 .. m /\ i \in 0 .. m
        BY <3>2
      <4> QED
        BY <4>1, <2>1, <2>4
    <3> QED
      BY <3>1, <3>2
  <2>6. Begun(m + 1, g)
    BY <2>1, <2>4, <2>5
  <2> HIDE DEF Begun
  <2> QED
    BY <2>3, <2>6
<1>3. Nat \subseteq P
  <2> HIDE DEF P
  <2> QED
    BY <1>1, <1>2, NatInductive
<1> QED
  BY <1>3 DEF Course
=============================================================================
