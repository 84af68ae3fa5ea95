--------------------------- MODULE InductionFacts ---------------------------
(***************************************************************************)
(* Facts about natural numbers, finite sets and functions that the proofs  *)
(* about the modules keep needing.  Induction is over sets: to prove P(n)  *)
(* for every natural n, show that {n \in Nat : P(n)} has 0 and is closed   *)
(* under successor.                                                        *)
(***************************************************************************)
EXTENDS Integers, FiniteSets, FiniteSetsExt, SequencesExt, FiniteSetTheorems,
        SequenceTheorems, WellFoundedInduction, TLAPS

(* A non-empty set of naturals has a least element.                        *)
LEMMA LeastElement ==
  ASSUME NEW T, T \subseteq Nat, T # {}
  PROVE  \E m \in T : \A n \in T : m <= n
<1>1. IsWellFoundedOn(OpToRel(<, Nat), Nat)
  BY NatLessThanWellFounded
<1>2. PICK m \in T : \A n \in T : ~ (<<n, m>> \in OpToRel(<, Nat))
  BY <1>1, WFMin
<1>3. \A n \in T : ~ (n < m)
  BY <1>2, Zenon DEF OpToRel
<1> QED
  BY <1>3

(* A set with 0 that is closed under successor holds every natural.        *)
LEMMA InductiveSet ==
  ASSUME NEW P, 0 \in P, \A n \in Nat : n \in P => n + 1 \in P
  PROVE  Nat \subseteq P
<1> SUFFICES ASSUME Nat \ P # {} PROVE FALSE
  OBVIOUS
<1>1. PICK m \in Nat \ P : \A n \in Nat \ P : m <= n
  <2> DEFINE T == Nat \ P
  <2>1. T \subseteq Nat /\ T # {}
    OBVIOUS
  <2> HIDE DEF T
  <2>2. \E m \in T : \A n \in T : m <= n
    BY <2>1, LeastElement
  <2> QED
    BY <2>2 DEF T
<1>2. m # 0 /\ m - 1 \in Nat
  OBVIOUS
<1>3. m - 1 \in P
  BY <1>1, <1>2
<1> QED
  BY <1>2, <1>3

(* A non-empty bounded set of naturals has a greatest element, its Max.    *)
LEMMA GreatestElement ==
  ASSUME NEW n \in Nat, NEW T, T \subseteq 0 .. n, T # {}
  PROVE  Max(T) \in T /\ \A t \in T : Max(T) >= t
<1> DEFINE Gaps == {n - t : t \in T}
<1>1. Gaps \subseteq Nat /\ Gaps # {}
  <2>1. \A t \in T : n - t \in Nat
    OBVIOUS
  <2>2. PICK t : t \in T
    OBVIOUS
  <2>3. n - t \in Gaps
    BY <2>2
  <2> QED
    BY <2>1, <2>3
<1>2. PICK g \in Gaps : \A h \in Gaps : g <= h
  <2> HIDE DEF Gaps
  <2> QED
    BY <1>1, LeastElement
<1>3. PICK m \in T : g = n - m
  OBVIOUS
<1>4. \A t \in T : m >= t
  BY <1>2, <1>3
<1> QED
  BY <1>4 DEF Max

(* A finite set of naturals is bounded.                                    *)
LEMMA FiniteIsBounded ==
  ASSUME NEW T, T \subseteq Nat, IsFiniteSet(T)
  PROVE  \E n \in Nat : T \subseteq 0 .. n
<1> DEFINE Bounded(c) == \A S : S \subseteq Nat /\ IsFiniteSet(S) /\ Cardinality(S) = c
                                  => \E n \in Nat : S \subseteq 0 .. n
           P == {c \in Nat : Bounded(c)}
<1>1. 0 \in P
  <2>1. Bounded(0)
    BY FS_EmptySet
  <2> QED
    BY <2>1
<1>2. ASSUME NEW c \in Nat, c \in P PROVE c + 1 \in P
  <2>1. ASSUME NEW S, S \subseteq Nat, IsFiniteSet(S), Cardinality(S) = c + 1
        PROVE  \E n \in Nat : S \subseteq 0 .. n
    <3>1. S # {}
      BY <2>1, FS_EmptySet
    <3>2. PICK x : x \in S
      BY <3>1
    <3>3. /\ IsFiniteSet(S \ {x}) /\ Cardinality(S \ {x}) = c
          /\ S \ {x} \subseteq Nat
      BY <2>1, <3>2, FS_RemoveElement
    <3>4. PICK n \in Nat : S \ {x} \subseteq 0 .. n
      BY <1>2, <3>3
    <3>5. x \in Nat /\ n + x \in Nat
      BY <2>1, <3>2
    <3>6. S \subseteq 0 .. n + x
      BY <2>1, <3>4, <3>5
    <3> QED
      BY <3>5, <3>6
  <2> QED
    BY <2>1
<1>3. Nat \subseteq P
  <2> HIDE DEF P
  <2> QED
    BY <1>1, <1>2, InductiveSet
<1>4. Bounded(Cardinality(T))
  BY <1>3, FS_CardinalityType
<1> QED
  BY <1>4

(* A recursion over 0 .. n that starts with b has a solution.              *)
Recursive(f, n, b, F) ==
  f = [i \in 0 .. n |-> IF i = 0 THEN b ELSE F[<<f[i - 1], i>>]]

LEMMA RecursionExists ==
  ASSUME NEW n \in Nat, NEW b, NEW F
  PROVE  \E f : Recursive(f, n, b, F)
<1> DEFINE Solves(f, k) == Recursive(f, k, b, F)
           P == {k \in Nat : \E f : Solves(f, k)}
<1>1. 0 \in P
  <2>1. Solves([i \in 0 .. 0 |-> b], 0)
    BY DEF Recursive
  <2> QED
    BY <2>1
<1>2. ASSUME NEW k \in Nat, k \in P PROVE k + 1 \in P
  <2>0. PICK f : Solves(f, k)
    BY <1>2
  <2>1. f = [i \in 0 .. k |-> IF i = 0 THEN b ELSE F[<<f[i - 1], i>>]]
    BY <2>0 DEF Recursive
  <2> DEFINE g == [i \in 0 .. k + 1 |-> IF i = k + 1 THEN F[<<f[k], k + 1>>] ELSE f[i]]
  <2>2. \A i \in 0 .. k : g[i] = f[i]
    OBVIOUS
  <2>3. ASSUME NEW i \in 0 .. k + 1
        PROVE  g[i] = IF i = 0 THEN b ELSE F[<<g[i - 1], i>>]
    <3>1. CASE i = 0
      <4>1. f[0] = b
        BY <2>1
      <4> QED
        BY <2>2, <3>1, <4>1
    <3>2. CASE i \in 1 .. k
      <4>1. f[i] = F[<<f[i - 1], i>>]
        BY <2>1, <3>2
      <4>2. g[i] = f[i] /\ g[i - 1] = f[i - 1] /\ i # 0
        BY <2>2, <3>2
      <4> QED
        BY <4>1, <4>2
    <3>3. CASE i = k + 1
      <4>1. g[k + 1] = F[<<f[k], k + 1>>] /\ g[k] = f[k]
        BY <2>2
      <4> QED
        BY <3>3, <4>1
    <3> QED
      BY <3>1, <3>2, <3>3
  <2>4. Solves(g, k + 1)
    BY <2>3 DEF Recursive
  <2>5. \E f1 : Solves(f1, k + 1)
    <3> HIDE DEF g, Solves
    <3> QED
      BY <2>4
  <2> QED
    BY <2>5
<1>3. Nat \subseteq P
  <2> HIDE DEF P
  <2> QED
    BY <1>1, <1>2, InductiveSet
<1> QED
  BY <1>3

(* An invariant of the values f[0], f[1], ... f[n].                            *)
LEMMA StepByStep ==
  ASSUME NEW n \in Nat, NEW f, NEW S, f[0] \in S[0],
         \A i \in 1 .. n : f[i - 1] \in S[i - 1] => f[i] \in S[i]
  PROVE  \A i \in 0 .. n : f[i] \in S[i]
<1> DEFINE P == {i \in Nat : i <= n => f[i] \in S[i]}
<1>1. 0 \in P
  OBVIOUS
<1>2. ASSUME NEW i \in Nat, i \in P PROVE i + 1 \in P
  <2> SUFFICES ASSUME i + 1 <= n PROVE f[i + 1] \in S[i + 1]
    OBVIOUS
  <2>1. i + 1 \in 1 .. n /\ (i + 1) - 1 = i /\ i <= n
    OBVIOUS
  <2>2. f[i] \in S[i]
    BY <1>2, <2>1
  <2> QED
    BY <2>1, <2>2
<1>3. Nat \subseteq P
  <2> HIDE DEF P
  <2> QED
    BY <1>1, <1>2, InductiveSet
<1> QED
  BY <1>3

(* What a recursion keeps to: if the value for i is in S[i] whenever the one   *)
(* for i - 1 is in S[i - 1], there is a solution and its values are there.     *)
LEMMA RecursionStays ==
  ASSUME NEW n \in Nat, NEW b, NEW F, NEW S, b \in S[0],
         \A i \in 1 .. n : \A x \in S[i - 1] : F[<<x, i>>] \in S[i]
  PROVE  \E f : Recursive(f, n, b, F) /\ \A i \in 0 .. n : f[i] \in S[i]
<1>1. PICK f : Recursive(f, n, b, F)
  BY RecursionExists
<1>2. f = [i \in 0 .. n |-> IF i = 0 THEN b ELSE F[<<f[i - 1], i>>]]
  BY <1>1 DEF Recursive
<1>3. f[0] \in S[0] /\ \A i \in 1 .. n : f[i - 1] \in S[i - 1] => f[i] \in S[i]
  <2>1. f[0] = b
    BY <1>2
  <2>2. ASSUME NEW i \in 1 .. n, f[i - 1] \in S[i - 1] PROVE f[i] \in S[i]
    <3>1. i \in 0 .. n /\ i # 0
      OBVIOUS
    <3>2. f[i] = F[<<f[i - 1], i>>]
      BY <1>2, <3>1
    <3> QED
      BY <2>2, <3>2
  <2> QED
    BY <2>1, <2>2
<1>4. ASSUME NEW i \in 0 .. n PROVE f[i] \in S[i]
  BY <1>3, StepByStep
<1> QED
  BY <1>1, <1>4

(* A sequence without its place p.                                            *)
LEMMA RemoveAtFacts ==
  ASSUME NEW S, NEW q \in Seq(S), NEW p \in 1 .. Len(q)
  PROVE  /\ RemoveAt(q, p) \in Seq(S)
         /\ Len(RemoveAt(q, p)) = Len(q) - 1
         /\ \A i \in 1 .. Len(q) - 1 : RemoveAt(q, p)[i] = IF i < p THEN q[i] ELSE q[i + 1]
<1> DEFINE a == SubSeq(q, 1, p - 1)
           b == SubSeq(q, p + 1, Len(q))
<1>1. Len(q) \in Nat /\ p \in Nat
  OBVIOUS
<1>2. a \in Seq(S) /\ Len(a) = p - 1 /\ \A i \in 1 .. p - 1 : a[i] = q[i]
  BY <1>1
<1>3. b \in Seq(S) /\ Len(b) = Len(q) - p
  BY <1>1
<1>4. \A i \in 1 .. Len(q) - p : b[i] = q[p + i]
  BY <1>1
<1>5. RemoveAt(q, p) = a \o b
  BY DEF RemoveAt
<1> HIDE DEF a, b
<1>6. /\ a \o b \in Seq(S) /\ Len(a \o b) = Len(q) - 1
      /\ \A i \in 1 .. Len(q) - 1 :
           (a \o b)[i] = IF i <= p - 1 THEN a[i] ELSE b[i - (p - 1)]
  <2>1. /\ a \o b \in Seq(S) /\ Len(a \o b) = Len(a) + Len(b)
        /\ \A i \in 1 .. Len(a) + Len(b) :
             (a \o b)[i] = IF i <= Len(a) THEN a[i] ELSE b[i - Len(a)]
    BY <1>2, <1>3, ConcatProperties
  <2>2. Len(a) + Len(b) = Len(q) - 1
    BY <1>1, <1>2, <1>3
  <2> QED
    BY <1>2, <2>1, <2>2
<1>7. ASSUME NEW i \in 1 .. Len(q) - 1
      PROVE  (a \o b)[i] = IF i < p THEN q[i] ELSE q[i + 1]
  <2>1. CASE i < p
    <3>1. i <= p - 1 /\ i \in 1 .. p - 1
      BY <1>1, <2>1
    <3> QED
      BY <1>2, <1>6, <2>1, <3>1
  <2>2. CASE ~ (i < p)
    <3>1. /\ ~ (i <= p - 1) /\ i - (p - 1) \in 1 .. Len(q) - p
          /\ p + (i - (p - 1)) = i + 1
      BY <1>1, <2>2
    <3>2. b[i - (p - 1)] = q[i + 1]
      BY <1>4, <3>1
    <3> QED
      BY <1>6, <2>2, <3>1, <3>2
  <2> QED
    BY <2>1, <2>2
<1> QED
  BY <1>5, <1>6, <1>7
=============================================================================
