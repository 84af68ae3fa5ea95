--------------------------- MODULE NetworkingProofs ---------------------------
(***************************************************************************)
(* What holds of clients and their sockets for all clients, scripts,       *)
(* subscriptions and buffer sizes: what commands reply is what the peer    *)
(* reads, and the two sides of publish/subscribe stay in step.             *)
(*                                                                         *)
(* The first part is about flattened sequences.  A reply list is compared  *)
(* with the wire by Rest: the tokens of the list that are not sent yet.    *)
(* Adding a reply appends to Rest; gluing leaves it as it is; writing n    *)
(* tokens moves its first n to the wire, whatever objects they are in.     *)
(***************************************************************************)
EXTENDS Networking, InductionFacts, SequenceTheorems, TLAPS

-----------------------------------------------------------------------------
(* Sequences of objects and the tokens in them.                            *)

\* g[m] is the tokens of the first m objects.
Sums(g, q, n) ==
  /\ g = [m \in 0 .. n |-> g[m]]
  /\ g[0] = <<>>
  /\ \A m \in 1 .. n : g[m] = g[m - 1] \o q[m]

\* Such a function exists.
LEMMA SumsExist ==
  ASSUME NEW S, NEW q \in Seq(Seq(S)), NEW n \in Nat, n <= Len(q)
  PROVE  \E g \in [0 .. n -> Seq(S)] : Sums(g, q, n)
<1> DEFINE P == {k \in Nat : k <= Len(q) => \E g \in [0 .. k -> Seq(S)] : Sums(g, q, k)}
<1>1. 0 \in P
  <2>1. Sums([m \in 0 .. 0 |-> <<>>], q, 0)
    BY DEF Sums
  <2>2. [m \in 0 .. 0 |-> <<>>] \in [0 .. 0 -> Seq(S)]
    OBVIOUS
  <2> QED
    BY <2>1, <2>2
<1>2. ASSUME NEW k \in Nat, k \in P PROVE k + 1 \in P
  <2> SUFFICES ASSUME k + 1 <= Len(q)
               PROVE  \E h \in [0 .. k + 1 -> Seq(S)] : Sums(h, q, k + 1)
    OBVIOUS
  <2>1. PICK g \in [0 .. k -> Seq(S)] : Sums(g, q, k)
    BY <1>2
  <2>2. PICK last \in Seq(S) : last = g[k] \o q[k + 1]
    <3>1. g[k] \in Seq(S) /\ q[k + 1] \in Seq(S)
      OBVIOUS
    <3>2. g[k] \o q[k + 1] \in Seq(S)
      BY <3>1, ConcatProperties, Zenon
    <3> QED
      BY <3>2, Zenon
  <2> DEFINE h == [m \in 0 .. k + 1 |-> IF m = k + 1 THEN last ELSE g[m]]
  <2>3. \A m \in 0 .. k : h[m] = g[m]
    OBVIOUS
  <2>4. h[k + 1] = last
    OBVIOUS
  <2>5. h = [m \in 0 .. k + 1 |-> h[m]] /\ h \in [0 .. k + 1 -> Seq(S)]
    OBVIOUS
  <2> HIDE DEF h
  <2>6. ASSUME NEW m \in 1 .. k + 1 PROVE h[m] = h[m - 1] \o q[m]
    <3>1. CASE m = k + 1
      <4>1. m - 1 = k /\ h[k] = g[k]
        BY <2>3, <3>1
      <4> QED
        <5>1. h[m] = last /\ h[m - 1] = g[k] /\ q[m] = q[k + 1]
          BY <2>4, <3>1, <4>1
        <5> QED
          BY <2>2, <5>1, Zenon
    <3>2. CASE m \in 1 .. k
      <4>1. g[m] = g[m - 1] \o q[m]
        BY <2>1, <3>2 DEF Sums
      <4>2. h[m] = g[m] /\ h[m - 1] = g[m - 1]
        BY <2>3, <3>2
      <4> QED
        BY <4>1, <4>2, Zenon
    <3>3. m = k + 1 \/ m \in 1 .. k
      OBVIOUS
    <3> QED
      BY <3>1, <3>2, <3>3, Zenon
  <2>7. h[0] = <<>>
    BY <2>1, <2>3 DEF Sums
  <2>8. Sums(h, q, k + 1)
    BY <2>5, <2>6, <2>7 DEF Sums
  <2> QED
    BY <2>5, <2>8
<1>3. Nat \subseteq P
  <2> HIDE DEF P
  <2> QED
    BY <1>1, <1>2, InductiveSet
<1> QED
  BY <1>3

\* Two such functions agree on the objects they share.
SameObjects(p, q, n) == \A m \in 1 .. n : p[m] = q[m]

\* Equal objects have equal tokens.
LEMMA SumsAgree ==
  ASSUME NEW p, NEW q, NEW n \in Nat, NEW g, NEW h, Sums(g, p, n), Sums(h, q, n),
         SameObjects(p, q, n)
  PROVE  g[n] = h[n]
<1> DEFINE P == {m \in Nat : m <= n => g[m] = h[m]}
<1>1. 0 \in P
  BY Zenon DEF Sums
<1>2. ASSUME NEW m \in Nat, m \in P PROVE m + 1 \in P
  <2> SUFFICES ASSUME m + 1 <= n PROVE g[m + 1] = h[m + 1]
    OBVIOUS
  <2>1. g[m + 1] = h[m + 1]
    <3>1. m + 1 \in 1 .. n /\ (m + 1) - 1 = m
      OBVIOUS
    <3>2. g[m + 1] = g[m] \o p[m + 1] /\ h[m + 1] = h[m] \o q[m + 1]
      BY <3>1 DEF Sums
    <3>3. g[m] = h[m] /\ p[m + 1] = q[m + 1]
      BY <1>2, <3>1 DEF SameObjects
    <3> QED
      BY <3>2, <3>3, Zenon
  <2> QED
    BY <2>1
<1>3. Nat \subseteq P
  <2> HIDE DEF P
  <2> QED
    BY <1>1, <1>2, InductiveSet
<1> QED
  BY <1>3

\* Its last value is what FlattenSeq computes.
LEMMA FlattenSums ==
  ASSUME NEW S, NEW q \in Seq(Seq(S))
  PROVE  \E g \in [0 .. Len(q) -> Seq(S)] : Sums(g, q, Len(q)) /\ FlattenSeq(q) = g[Len(q)]
<1> DEFINE n == Len(q)
           Solves(e) == e = [i \in 1 .. n |-> IF i = 1 THEN q[i] ELSE e[i - 1] \o q[i]]
           flat == CHOOSE e : Solves(e)
<1>0. n \in Nat /\ n <= Len(q) /\ \A i \in 1 .. n : q[i] \in Seq(S)
  OBVIOUS
<1>1. PICK g \in [0 .. n -> Seq(S)] : Sums(g, q, n)
  BY <1>0, SumsExist
<1> DEFINE f == [i \in 1 .. n |-> g[i]]
<1> HIDE DEF n
<1>2. ASSUME n = 0 PROVE FlattenSeq(q) = g[n]
  <2>1. q = <<>>
    BY <1>2 DEF n
  <2> QED
    BY <1>1, <1>2, <2>1 DEF FlattenSeq, Sums
<1>3. ASSUME n > 0 PROVE FlattenSeq(q) = g[n]
  <2>1. g[1] = q[1]
    <3>1. 1 \in 1 .. n /\ 1 - 1 = 0
      BY <1>0, <1>3
    <3>2. g[1] = g[1 - 1] \o q[1] /\ g[0] = <<>>
      BY <1>1, <3>1, Zenon DEF Sums
    <3>3. g[1] = <<>> \o q[1]
      BY <3>1, <3>2, Zenon
    <3> QED
      BY <1>0, <3>1, <3>3, ConcatEmptySeq, Zenon
  <2>2. ASSUME NEW i \in 1 .. n
        PROVE  f[i] = IF i = 1 THEN q[i] ELSE f[i - 1] \o q[i]
    <3>1. g[i] = g[i - 1] \o q[i]
      BY <1>0, <1>1 DEF Sums
    <3>2. f[i] = g[i] /\ (i # 1 => f[i - 1] = g[i - 1])
      BY <1>0
    <3> QED
      BY <2>1, <3>1, <3>2
  <2>3. f = [i \in 1 .. n |-> f[i]]
    OBVIOUS
  <2> HIDE DEF f
  <2>4. Solves(f)
    BY <2>2, <2>3
  <2> HIDE DEF Solves
  <2>5. Solves(flat)
    BY <2>4
  <2> HIDE DEF flat
  <2>6. \A i \in 1 .. n : flat[i] = IF i = 1 THEN q[i] ELSE flat[i - 1] \o q[i]
    BY <2>5 DEF Solves
  <2> DEFINE P == {m \in Nat : m \in 1 .. n => flat[m] = g[m]}
  <2>7. 0 \in P
    OBVIOUS
  <2>8. ASSUME NEW m \in Nat, m \in P PROVE m + 1 \in P
    <3> SUFFICES ASSUME m + 1 \in 1 .. n PROVE flat[m + 1] = g[m + 1]
      OBVIOUS
    <3>1. CASE m = 0
      <4>1. flat[1] = q[1]
        BY <2>6, <3>1
      <4> QED
        BY <4>1, <2>1, <3>1
    <3>2. CASE m # 0
      <4>0. (m + 1) - 1 = m /\ m \in 1 .. n /\ m + 1 # 1
        BY <1>0, <3>2
      <4>1. flat[m + 1] = flat[m] \o q[m + 1]
        BY <2>6, <3>2, <4>0
      <4>2. g[m + 1] = g[m] \o q[m + 1]
        BY <1>1, <3>2, <4>0 DEF Sums
      <4>3. flat[m] = g[m]
        BY <2>8, <4>0
      <4> QED
        BY <4>1, <4>2, <4>3, Zenon
    <3> QED
      BY <3>1, <3>2
  <2>9. Nat \subseteq P
    <3> HIDE DEF P
    <3> QED
      BY <2>7, <2>8, InductiveSet
  <2>10. flat[n] = g[n]
    BY <2>9, <1>0, <1>3
  <2>11. Len(q) # 0
    BY <1>3 DEF n
  <2> QED
    BY <2>10, <2>11, Zenon DEF FlattenSeq, flat, Solves, n
<1>4. FlattenSeq(q) = g[n]
  BY <1>0, <1>2, <1>3
<1> QED
  BY <1>1, <1>4 DEF n

LEMMA FlattenTyped ==
  ASSUME NEW S, NEW q \in Seq(Seq(S))
  PROVE  FlattenSeq(q) \in Seq(S)
<1>1. PICK g \in [0 .. Len(q) -> Seq(S)] : FlattenSeq(q) = g[Len(q)]
  BY FlattenSums
<1>2. Len(q) \in 0 .. Len(q)
  OBVIOUS
<1> QED
  BY <1>1, <1>2

LEMMA FlattenNone == FlattenSeq(<<>>) = <<>>
  BY DEF FlattenSeq

LEMMA FlattenAppend ==
  ASSUME NEW S, NEW q \in Seq(Seq(S)), NEW o \in Seq(S)
  PROVE  FlattenSeq(Append(q, o)) = FlattenSeq(q) \o o
<1> DEFINE r == Append(q, o)
           n == Len(q)
<1>0. n \in Nat
  OBVIOUS
<1>1. r \in Seq(Seq(S)) /\ Len(r) = n + 1 /\ r[n + 1] = o /\ \A m \in 1 .. n : r[m] = q[m]
  OBVIOUS
<1>2. PICK g \in [0 .. n -> Seq(S)] : Sums(g, q, n) /\ FlattenSeq(q) = g[n]
  BY FlattenSums
<1> HIDE DEF r, n
<1>3. PICK h \in [0 .. n + 1 -> Seq(S)] : Sums(h, r, n + 1) /\ FlattenSeq(r) = h[n + 1]
  BY <1>1, FlattenSums
<1> DEFINE k == [m \in 0 .. n |-> h[m]]
<1>4. k \in [0 .. n -> Seq(S)] /\ \A m \in 0 .. n : k[m] = h[m]
  BY <1>0
<1>5. k = [m \in 0 .. n |-> k[m]]
  OBVIOUS
<1> HIDE DEF k
<1>6. Sums(k, r, n)
  <2>1. ASSUME NEW m \in 1 .. n PROVE k[m] = k[m - 1] \o r[m]
    <3>0. m \in 1 .. n + 1 /\ m \in 0 .. n /\ m - 1 \in 0 .. n
      BY <1>0
    <3>1. h[m] = h[m - 1] \o r[m]
      BY <1>3, <3>0, Zenon DEF Sums
    <3>2. k[m] = h[m] /\ k[m - 1] = h[m - 1]
      BY <1>4, <3>0
    <3> QED
      BY <3>1, <3>2, Zenon
  <2>2. k[0] = <<>>
    <3>1. h[0] = <<>>
      BY <1>3, Zenon DEF Sums
    <3>2. k[0] = h[0]
      BY <1>0, <1>4
    <3> QED
      BY <3>1, <3>2, Zenon
  <2> QED
    BY <1>5, <2>1, <2>2, Zenon DEF Sums
<1>7. k[n] = g[n]
  <2>1. SameObjects(r, q, n)
    BY <1>1 DEF SameObjects
  <2> QED
    BY <1>0, <1>2, <1>6, <2>1, SumsAgree
<1>8. h[n + 1] = h[n] \o o
  <2>1. n + 1 \in 1 .. n + 1 /\ (n + 1) - 1 = n
    BY <1>0
  <2> QED
    BY <1>1, <1>3, <2>1 DEF Sums
<1>9. h[n] = g[n]
  BY <1>0, <1>4, <1>7
<1> QED
  BY <1>2, <1>3, <1>8, <1>9 DEF r

LEMMA FlattenOne ==
  ASSUME NEW S, NEW o \in Seq(S)
  PROVE  FlattenSeq(<<o>>) = o
<1>1. <<o>> = Append(<<>>, o) /\ <<>> \in Seq(Seq(S)) /\ <<>> \o o = o
  OBVIOUS
<1> QED
  BY <1>1, FlattenAppend, FlattenNone

\* Flattening distributes over concatenation.
LEMMA FlattenConcat ==
  ASSUME NEW S, NEW q \in Seq(Seq(S)), NEW r \in Seq(Seq(S))
  PROVE  FlattenSeq(q \o r) = FlattenSeq(q) \o FlattenSeq(r)
<1> DEFINE Up(m) == SubSeq(r, 1, m)
           P == {m \in Nat : m <= Len(r) =>
                   FlattenSeq(q \o Up(m)) = FlattenSeq(q) \o FlattenSeq(Up(m))}
<1>1. 0 \in P
  <2>1. Up(0) = <<>> /\ q \o <<>> = q
    OBVIOUS
  <2>2. FlattenSeq(q) \o <<>> = FlattenSeq(q)
    BY FlattenTyped
  <2> QED
    BY <2>1, <2>2, FlattenNone
<1>2. ASSUME NEW m \in Nat, m \in P PROVE m + 1 \in P
  <2> SUFFICES ASSUME m + 1 <= Len(r)
               PROVE  FlattenSeq(q \o Up(m + 1)) = FlattenSeq(q) \o FlattenSeq(Up(m + 1))
    OBVIOUS
  <2>1. r[m + 1] \in Seq(S) /\ Up(m) \in Seq(Seq(S)) /\ q \o Up(m) \in Seq(Seq(S))
    OBVIOUS
  <2>2. Up(m + 1) = Append(Up(m), r[m + 1])
    OBVIOUS
  <2>3. q \o Up(m + 1) = Append(q \o Up(m), r[m + 1])
    BY <2>1, <2>2, SMTT(30)
  <2>4. FlattenSeq(q \o Up(m)) = FlattenSeq(q) \o FlattenSeq(Up(m))
    BY <1>2
  <2>5. FlattenSeq(q) \in Seq(S) /\ FlattenSeq(Up(m)) \in Seq(S)
    BY <2>1, FlattenTyped
  <2> DEFINE o == r[m + 1]
             a == q \o Up(m)
             b == Up(m)
  <2>6. o \in Seq(S) /\ a \in Seq(Seq(S)) /\ b \in Seq(Seq(S))
    BY <2>1
  <2> HIDE DEF Up, o, a, b
  <2>7. /\ FlattenSeq(Append(a, o)) = FlattenSeq(a) \o o
        /\ FlattenSeq(Append(b, o)) = FlattenSeq(b) \o o
    BY <2>6, FlattenAppend
  <2>8. FlattenSeq(q \o Up(m + 1)) = (FlattenSeq(q) \o FlattenSeq(Up(m))) \o r[m + 1]
    BY <2>3, <2>4, <2>7, Zenon DEF a, o
  <2>9. FlattenSeq(Up(m + 1)) = FlattenSeq(Up(m)) \o r[m + 1]
    BY <2>2, <2>7, Zenon DEF b, o
  <2> QED
    <3>1. PICK f \in Seq(S) : f = FlattenSeq(q)
      BY <2>5
    <3>2. PICK e \in Seq(S) : e = FlattenSeq(Up(m))
      BY <2>5
    <3>3. o \in Seq(S)
      BY <2>6
    <3>4. (f \o e) \o o = f \o (e \o o)
      BY <3>3
    <3> QED
      BY <2>8, <2>9, <3>1, <3>2, <3>4, Zenon DEF o
<1>3. Nat \subseteq P
  <2> HIDE DEF P
  <2> QED
    BY <1>1, <1>2, InductiveSet
<1>4. Up(Len(r)) = r
  OBVIOUS
<1> HIDE DEF Up
<1>5. FlattenSeq(q \o Up(Len(r))) = FlattenSeq(q) \o FlattenSeq(Up(Len(r)))
  BY <1>3
<1> QED
  BY <1>4, <1>5, Zenon

\* A set of indices that holds all the indices before each of its own.
LEMMA FirstOnes ==
  ASSUME NEW n \in Nat, NEW D, D \subseteq 1 .. n,
         \A i \in D : \A j \in 1 .. i : j \in D
  PROVE  \E m \in 0 .. n : D = 1 .. m /\ Cardinality(D) = m
<1>1. CASE D = {}
  <2>1. D = 1 .. 0
    BY <1>1
  <2>2. Cardinality(D) = 0 /\ 0 \in 0 .. n
    BY <1>1, FS_EmptySet
  <2> QED
    BY <2>1, <2>2
<1>2. CASE D # {}
  <2> DEFINE m == Max(D)
  <2>1. D \subseteq 0 .. n
    OBVIOUS
  <2>2. m \in D /\ \A i \in D : m >= i
    BY <1>2, <2>1, GreatestElement
  <2> HIDE DEF m
  <2>3. m \in 1 .. n /\ D = 1 .. m
    <3>1. m \in 1 .. n
      BY <2>2
    <3>2. \A j \in 1 .. m : j \in D
      BY <2>2
    <3>3. \A j \in D : j \in 1 .. m
      BY <2>2, <3>1
    <3> QED
      BY <3>1, <3>2, <3>3
  <2>4. Cardinality(1 .. m) = m
    BY <2>3, FS_Interval
  <2> QED
    BY <2>3, <2>4
<1> QED
  BY <1>1, <1>2

\* What the peer is still owed of the objects, the first n tokens being sent.
Rest(q, n) == SubSeq(FlattenSeq(q), n + 1, Len(FlattenSeq(q)))

LEMMA RestTyped ==
  ASSUME NEW S, NEW q \in Seq(Seq(S)), NEW n \in Nat, n <= Len(FlattenSeq(q))
  PROVE  Rest(q, n) \in Seq(S)
<1>1. FlattenSeq(q) \in Seq(S)
  BY FlattenTyped
<1> QED
  BY <1>1 DEF Rest

LEMMA RestOfNone == \A n \in Nat : Rest(<<>>, n) = <<>>
<1>1. FlattenSeq(<<>>) = <<>> /\ Len(<<>>) = 0
  BY FlattenNone
<1> QED
  BY <1>1 DEF Rest

LEMMA SuffixOfConcat ==
  ASSUME NEW S, NEW f \in Seq(S), NEW g \in Seq(S), NEW n \in Nat, n <= Len(f)
  PROVE  SubSeq(f \o g, n + 1, Len(f \o g)) = SubSeq(f, n + 1, Len(f)) \o g
<1> DEFINE a == SubSeq(f \o g, n + 1, Len(f \o g))
           b == SubSeq(f, n + 1, Len(f)) \o g
<1>1. Len(f \o g) = Len(f) + Len(g) /\ f \o g \in Seq(S)
  OBVIOUS
<1>2. a \in Seq(S) /\ Len(a) = Len(f) + Len(g) - n
  BY <1>1
<1>3. b \in Seq(S) /\ Len(b) = Len(f) + Len(g) - n
  OBVIOUS
<1>4. ASSUME NEW i \in 1 .. Len(f) + Len(g) - n PROVE a[i] = b[i]
  <2>1. a[i] = (f \o g)[n + i]
    BY <1>1, SMTT(30)
  <2>2. CASE i <= Len(f) - n
    BY <2>1, <2>2
  <2>3. CASE i > Len(f) - n
    BY <2>1, <2>3
  <2> QED
    BY <2>2, <2>3
<1> HIDE DEF a, b
<1>5. a = b
  BY <1>2, <1>3, <1>4, SeqEqual
<1> QED
  BY <1>5 DEF a, b

\* Objects added at the end.
LEMMA RestGrows ==
  ASSUME NEW S, NEW q \in Seq(Seq(S)), NEW new \in Seq(Seq(S)), NEW n \in Nat,
         n <= Len(FlattenSeq(q))
  PROVE  /\ Rest(q \o new, n) = Rest(q, n) \o FlattenSeq(new)
         /\ n <= Len(FlattenSeq(q \o new))
<1> DEFINE f == FlattenSeq(q)
           g == FlattenSeq(new)
<1>1. f \in Seq(S) /\ g \in Seq(S) /\ FlattenSeq(q \o new) = f \o g
  BY FlattenTyped, FlattenConcat
<1>2. n <= Len(f)
  OBVIOUS
<1> HIDE DEF f, g
<1>3. SubSeq(f \o g, n + 1, Len(f \o g)) = SubSeq(f, n + 1, Len(f)) \o g
  BY <1>1, <1>2, SuffixOfConcat, Zenon
<1>4. n <= Len(f \o g)
  BY <1>1, <1>2
<1> QED
  BY <1>1, <1>3, <1>4, Zenon DEF Rest, f, g

\* The objects from k + 1 on hold what follows the tokens of the first k.
LEMMA FlattenSplit ==
  ASSUME NEW S, NEW q \in Seq(Seq(S)), NEW k \in 0 .. Len(q)
  PROVE  /\ SubSeq(q, 1, k) \in Seq(Seq(S)) /\ SubSeq(q, k + 1, Len(q)) \in Seq(Seq(S))
         /\ FlattenSeq(q) = FlattenSeq(SubSeq(q, 1, k)) \o FlattenSeq(SubSeq(q, k + 1, Len(q)))
<1>1. SubSeq(q, 1, k) \in Seq(Seq(S)) /\ SubSeq(q, k + 1, Len(q)) \in Seq(Seq(S))
  OBVIOUS
<1>2. q = SubSeq(q, 1, k) \o SubSeq(q, k + 1, Len(q))
  <2>1. 1 \in 1 .. Len(q) + 1 /\ k \in 1 - 1 .. Len(q) /\ Len(q) \in k .. Len(q)
    OBVIOUS
  <2>2. SubSeq(q, 1, k) \o SubSeq(q, k + 1, Len(q)) = SubSeq(q, 1, Len(q))
    BY <2>1, ConcatAdjacentSubSeq
  <2> QED
    BY <2>2, SubSeqFull
<1>3. FlattenSeq(SubSeq(q, 1, k) \o SubSeq(q, k + 1, Len(q)))
        = FlattenSeq(SubSeq(q, 1, k)) \o FlattenSeq(SubSeq(q, k + 1, Len(q)))
  BY <1>1, FlattenConcat
<1> QED
  BY <1>1, <1>2, <1>3, Zenon

-----------------------------------------------------------------------------
(* Writing.                                                                *)

\* More objects hold no fewer tokens.
LEMMA SizesGrow ==
  ASSUME NEW S, NEW q \in Seq(Seq(S)), NEW j \in 0 .. Len(q), NEW i \in 0 .. j
  PROVE  /\ SizeUpTo(q, i) \in Nat /\ SizeUpTo(q, j) \in Nat
         /\ SizeUpTo(q, i) <= SizeUpTo(q, j) /\ SizeUpTo(q, j) <= Len(FlattenSeq(q))
<1> DEFINE p == SubSeq(q, 1, j)
<1>1. p \in Seq(Seq(S)) /\ Len(p) = j /\ SubSeq(p, 1, i) = SubSeq(q, 1, i)
  OBVIOUS
<1>2. /\ SubSeq(q, j + 1, Len(q)) \in Seq(Seq(S))
      /\ FlattenSeq(q) = FlattenSeq(p) \o FlattenSeq(SubSeq(q, j + 1, Len(q)))
  BY FlattenSplit
<1> HIDE DEF p
<1>3. /\ SubSeq(p, 1, i) \in Seq(Seq(S)) /\ SubSeq(p, i + 1, Len(p)) \in Seq(Seq(S))
      /\ FlattenSeq(p) = FlattenSeq(SubSeq(p, 1, i)) \o FlattenSeq(SubSeq(p, i + 1, Len(p)))
  BY <1>1, FlattenSplit
<1>4. ASSUME NEW f \in Seq(S), NEW a \in Seq(S), NEW b \in Seq(S), f = a \o b
      PROVE  Len(a) \in Nat /\ Len(f) \in Nat /\ Len(a) <= Len(f)
  BY <1>4
<1>5. /\ FlattenSeq(q) \in Seq(S) /\ FlattenSeq(p) \in Seq(S)
      /\ FlattenSeq(SubSeq(q, j + 1, Len(q))) \in Seq(S)
      /\ FlattenSeq(SubSeq(p, 1, i)) \in Seq(S) /\ FlattenSeq(SubSeq(p, i + 1, Len(p))) \in Seq(S)
  BY <1>1, <1>2, <1>3, FlattenTyped
<1>6. Len(FlattenSeq(p)) \in Nat /\ Len(FlattenSeq(p)) <= Len(FlattenSeq(q))
  BY <1>2, <1>4, <1>5, Zenon
<1>7. /\ Len(FlattenSeq(SubSeq(p, 1, i))) \in Nat
      /\ Len(FlattenSeq(SubSeq(p, 1, i))) <= Len(FlattenSeq(p))
  BY <1>3, <1>4, <1>5, Zenon
<1> QED
  BY <1>1, <1>6, <1>7 DEF SizeUpTo, p

LEMMA SizeBounds ==
  ASSUME NEW S, NEW q \in Seq(Seq(S))
  PROVE  SizeUpTo(q, 0) = 0 /\ SizeUpTo(q, Len(q)) = Len(FlattenSeq(q))
<1>1. SubSeq(q, 1, 0) = <<>> /\ SubSeq(q, 1, Len(q)) = q
  OBVIOUS
<1>2. FlattenSeq(SubSeq(q, 1, 0)) = <<>> /\ FlattenSeq(SubSeq(q, 1, Len(q))) = FlattenSeq(q)
  BY <1>1, FlattenNone, Zenon
<1>3. Len(<<>>) = 0
  OBVIOUS
<1> QED
  BY <1>2, <1>3, Zenon DEF SizeUpTo

\* The objects that are written when the first at tokens are.
Done(q, at) == {i \in 1 .. Len(q) : SizeUpTo(q, i) <= at /\ SizeUpTo(q, i - 1) < at}

\* The objects that are written are the first ones, and no longer than what is written.
LEMMA DoneAreFirst ==
  ASSUME NEW S, NEW q \in Seq(Seq(S)), NEW at \in Nat
  PROVE  /\ Cardinality(Done(q, at)) \in 0 .. Len(q)
         /\ SizeUpTo(q, Cardinality(Done(q, at))) <= at
<1> DEFINE D == Done(q, at)
<1>1. D \subseteq 1 .. Len(q) /\ Len(q) \in Nat
  BY DEF Done
<1>2. ASSUME NEW i \in D, NEW j \in 1 .. i PROVE j \in D
  <2>0. i \in 1 .. Len(q) /\ SizeUpTo(q, i) <= at /\ SizeUpTo(q, i - 1) < at
    BY DEF Done
  <2>1. j \in 1 .. Len(q) /\ j - 1 \in 0 .. i - 1 /\ i - 1 \in 0 .. Len(q) /\ j \in 0 .. i
        /\ i \in 0 .. Len(q)
    BY <2>0
  <2>2. /\ SizeUpTo(q, j) \in Nat /\ SizeUpTo(q, i) \in Nat
        /\ SizeUpTo(q, j) <= SizeUpTo(q, i)
    BY <2>1, SizesGrow
  <2>3. /\ SizeUpTo(q, j - 1) \in Nat /\ SizeUpTo(q, i - 1) \in Nat
        /\ SizeUpTo(q, j - 1) <= SizeUpTo(q, i - 1)
    BY <2>1, SizesGrow
  <2>4. SizeUpTo(q, j) <= at /\ SizeUpTo(q, j - 1) < at
    BY <2>0, <2>2, <2>3
  <2> QED
    BY <2>1, <2>4 DEF Done
<1> HIDE DEF D
<1>3. PICK m \in 0 .. Len(q) : D = 1 .. m /\ Cardinality(D) = m
  BY <1>1, <1>2, FirstOnes
<1>4. SizeUpTo(q, m) <= at
  <2>1. CASE m = 0
    BY <2>1, SizeBounds
  <2>2. CASE m # 0
    <3>1. m \in D
      BY <1>3, <2>2
    <3> QED
      BY <3>1 DEF D, Done
  <2> QED
    BY <2>1, <2>2
<1> QED
  BY <1>3, <1>4 DEF D

\* What is owed of objects after n tokens is those up to at, and what is owed of left.
Splits(objects, n, at, left, sent) ==
  Rest(objects, n) = SubSeq(FlattenSeq(objects), n + 1, at) \o Rest(left, sent)

\* Writing up to at and dropping the first k objects leaves the rest of the tokens.
LEMMA RestWritten ==
  ASSUME NEW S, NEW q \in Seq(Seq(S)), NEW n \in Nat, NEW at \in Nat, n <= at,
         at <= Len(FlattenSeq(q)), NEW k \in 0 .. Len(q), SizeUpTo(q, k) <= at,
         NEW left, left = SubSeq(q, k + 1, Len(q))
  PROVE  /\ left \in Seq(Seq(S))
         /\ at - SizeUpTo(q, k) \in Nat /\ at - SizeUpTo(q, k) <= Len(FlattenSeq(left))
         /\ Splits(q, n, at, left, at - SizeUpTo(q, k))
<1> DEFINE f == FlattenSeq(q)
           a == FlattenSeq(SubSeq(q, 1, k))
           b == FlattenSeq(left)
<1>1. SubSeq(q, 1, k) \in Seq(Seq(S)) /\ left \in Seq(Seq(S)) /\ f = a \o b
  BY FlattenSplit
<1>2. f \in Seq(S) /\ a \in Seq(S) /\ b \in Seq(S)
  BY <1>1, FlattenTyped
<1>3. SizeUpTo(q, k) = Len(a) /\ at <= Len(f)
  BY DEF SizeUpTo
<1> HIDE DEF f, a, b
<1>4. Len(a) \in Nat /\ Len(b) \in Nat /\ Len(f) = Len(a) + Len(b) /\ Len(a) <= at
  BY <1>1, <1>2, <1>3
<1>5. SubSeq(f, n + 1, Len(f)) = SubSeq(f, n + 1, at) \o SubSeq(f, at + 1, Len(f))
  <2>1. n + 1 \in 1 .. Len(f) + 1 /\ at \in (n + 1) - 1 .. Len(f) /\ Len(f) \in at .. Len(f)
    BY <1>3, <1>4
  <2> QED
    BY <1>2, <2>1, ConcatAdjacentSubSeq
<1>6. SubSeq(f, at + 1, Len(f)) = SubSeq(b, (at - Len(a)) + 1, Len(b))
  <2> DEFINE d == at - Len(a)
             s == SubSeq(f, at + 1, Len(f))
             t == SubSeq(b, d + 1, Len(b))
  <2>0. at \in 0 .. Len(f) /\ d \in 0 .. Len(b) /\ Len(b) - d = Len(f) - at
    BY <1>3, <1>4
  <2>1. s \in Seq(S) /\ Len(s) = Len(f) - at
    BY <1>2, <2>0
  <2> HIDE DEF d
  <2>2. t \in Seq(S) /\ Len(t) = Len(f) - at
    BY <1>2, <2>0
  <2> USE DEF d
  <2>3. ASSUME NEW i \in 1 .. Len(f) - at PROVE s[i] = t[i]
    <3>1. s[i] = f[at + i] /\ t[i] = b[(at - Len(a)) + i]
      BY <1>2, <1>3, <1>4, SMTT(30)
    <3>2. f[at + i] = b[(at + i) - Len(a)]
      BY <1>1, <1>2, <1>3, <1>4
    <3> QED
      BY <3>1, <3>2, <1>4
  <2> HIDE DEF s, t
  <2>4. s = t
    BY <2>1, <2>2, <2>3, SeqEqual
  <2> QED
    BY <2>4 DEF s, t
<1>7. at - SizeUpTo(q, k) \in Nat /\ at - SizeUpTo(q, k) <= Len(b)
  BY <1>3, <1>4
<1>8. Rest(q, n) = SubSeq(f, n + 1, at) \o SubSeq(b, (at - SizeUpTo(q, k)) + 1, Len(b))
  BY <1>3, <1>5, <1>6, Zenon DEF Rest, f
<1> QED
  BY <1>1, <1>7, <1>8, Zenon DEF Rest, Splits, b, f

\* Gluing changes the objects and not the tokens.
LEMMA Glued ==
  ASSUME NEW S, NEW q \in Seq(Seq(S)), q # <<>>
  PROVE  /\ GlueReplyBuffersIfNeeded(q) \in Seq(Seq(S)) /\ GlueReplyBuffersIfNeeded(q) # <<>>
         /\ FlattenSeq(GlueReplyBuffersIfNeeded(q)) = FlattenSeq(q)
<1> DEFINE fit == {i \in 1 .. Len(q) : SizeUpTo(q, i) <= GlueReplyUpTo}
           n == Cardinality(fit)
           a == FlattenSeq(SubSeq(q, 1, n))
           left == SubSeq(q, n + 1, Len(q))
<1>0. Len(q) \in Nat /\ fit \subseteq 1 .. Len(q)
  OBVIOUS
<1>1. ASSUME NEW i \in fit, NEW j \in 1 .. i PROVE j \in fit
  <2>1. j \in 1 .. Len(q) /\ j \in 0 .. i /\ i \in 0 .. Len(q)
    OBVIOUS
  <2>2. SizeUpTo(q, j) \in Nat /\ SizeUpTo(q, i) \in Nat /\ SizeUpTo(q, j) <= SizeUpTo(q, i)
    BY <2>1, SizesGrow
  <2> QED
    BY <2>1, <2>2, SizesAssumption
<1>2. n \in 0 .. Len(q)
  <2> HIDE DEF fit
  <2>1. PICK m \in 0 .. Len(q) : fit = 1 .. m /\ Cardinality(fit) = m
    BY <1>0, <1>1, FirstOnes
  <2> QED
    BY <2>1
<1>3. GlueReplyBuffersIfNeeded(q) = IF n = 0 THEN q ELSE <<a>> \o left
  BY DEF GlueReplyBuffersIfNeeded
<1> HIDE DEF n
<1>4. /\ SubSeq(q, 1, n) \in Seq(Seq(S)) /\ left \in Seq(Seq(S))
      /\ FlattenSeq(q) = a \o FlattenSeq(left)
  BY <1>2, FlattenSplit
<1> HIDE DEF left
<1>5. a \in Seq(S)
  BY <1>4, FlattenTyped
<1> HIDE DEF a
<1>6. <<a>> \in Seq(Seq(S)) /\ <<a>> \o left \in Seq(Seq(S)) /\ <<a>> \o left # <<>>
  BY <1>4, <1>5
<1>7. FlattenSeq(<<a>> \o left) = a \o FlattenSeq(left)
  <2>1. FlattenSeq(<<a>> \o left) = FlattenSeq(<<a>>) \o FlattenSeq(left)
    BY <1>4, <1>6, FlattenConcat, Zenon
  <2>2. FlattenSeq(<<a>>) = a
    BY <1>5, FlattenOne
  <2> QED
    BY <2>1, <2>2, Zenon
<1>8. CASE n = 0
  BY <1>3, <1>8
<1>9. CASE n # 0
  <2>1. GlueReplyBuffersIfNeeded(q) = <<a>> \o left
    BY <1>3, <1>9
  <2> QED
    BY <1>4, <1>6, <1>7, <2>1, Zenon
<1> QED
  BY <1>8, <1>9

LEMMA LeastOfTwo ==
  ASSUME NEW a \in Nat, NEW b \in Nat
  PROVE  Min({a, b}) \in Nat /\ Min({a, b}) <= a /\ Min({a, b}) <= b
<1> DEFINE T == {a, b}
<1>1. \E m \in T : \A x \in T : m <= x
  OBVIOUS
<1>2. Min(T) \in T /\ \A x \in T : Min(T) <= x
  BY <1>1 DEF Min
<1> QED
  BY <1>2

\* writev is never given more than the list holds.
LEMMA GatheredBounded ==
  ASSUME NEW S, NEW q \in Seq(Seq(S)), NEW tot, NEW sent \in Nat,
         NEW n \in 1 .. Gathered(q, tot, sent)
  PROVE  n \in Nat /\ n > 0 /\ sent + n <= Len(FlattenSeq(q))
<1> DEFINE most == Min({Len(q), IovecCount})
           fits == {i \in 1 .. most : \A j \in 1 .. i :
                      tot + Len(q[j]) - (IF j = 1 THEN sent ELSE 0) <= MaxWritePerEvent}
<1>1. most \in Nat /\ most <= Len(q)
  <2>1. Len(q) \in Nat /\ IovecCount \in Nat
    BY SizesAssumption
  <2> QED
    BY <2>1, LeastOfTwo, Zenon
<1> HIDE DEF most
<1>2. fits \subseteq 1 .. most
  OBVIOUS
<1>3. ASSUME NEW i \in fits, NEW j \in 1 .. i PROVE j \in fits
  <2>1. j \in 1 .. most /\ \A h \in 1 .. j : h \in 1 .. i
    BY <1>1
  <2> QED
    BY <2>1
<1>4. Gathered(q, tot, sent) = SizeUpTo(q, Cardinality(fits)) - (IF fits = {} THEN 0 ELSE sent)
  BY DEF Gathered, most
<1> HIDE DEF fits
<1>5. PICK m \in 0 .. most : fits = 1 .. m /\ Cardinality(fits) = m
  BY <1>1, <1>2, <1>3, FirstOnes
<1>6. m \in 0 .. Len(q) /\ Len(q) \in 0 .. Len(q)
  BY <1>1
<1>7. SizeUpTo(q, m) \in Nat /\ SizeUpTo(q, m) <= Len(FlattenSeq(q))
  BY <1>6, SizesGrow
<1>8. Len(FlattenSeq(q)) \in Nat
  <2>1. FlattenSeq(q) \in Seq(S)
    BY FlattenTyped
  <2> QED
    BY <2>1
<1>9. CASE fits = {}
  <2>1. m = 0
    <3>1. Cardinality(fits) = 0
      BY <1>9, FS_EmptySet
    <3> QED
      BY <1>5, <3>1
  <2>2. Gathered(q, tot, sent) = 0
    BY <1>4, <1>5, <1>9, <2>1, SizeBounds
  <2> QED
    BY <2>2
<1>10. CASE fits # {}
  <2>1. Gathered(q, tot, sent) = SizeUpTo(q, m) - sent
    BY <1>4, <1>5, <1>10
  <2> QED
    BY <1>7, <1>8, <2>1
<1> QED
  BY <1>9, <1>10

-----------------------------------------------------------------------------
(* The inductive invariant.                                                *)

\* What a peer may send: the words of its requests, and the numbers that the
\* protocol writes before them.
Tokens ==
  Words \cup {NL}
  \cup {Numbers[n] : n \in Nat} \cup {Stars[n] : n \in Nat} \cup {Dollars[n] : n \in Nat}

Parsers == [querybuf : Seq(Tokens), argv : Seq(Seq(Tokens)), mbargv : Seq(Seq(Tokens)),
            bulklen : Nat \cup {-1}, multibulk : Int]

Inputs == unread \in [Clients -> Seq(Tokens)] /\ parser \in [Clients -> Parsers]

\* The replies are made of the tokens of S; what is promised to a client is on
\* its wire or still in its list, and then its event is there.
Streams(S) ==
  /\ reply \in [Clients -> Seq(Seq(S))] /\ sentlen \in [Clients -> Nat]
  /\ wire \in [Clients -> Seq(S)] /\ promised \in [Clients -> Seq(S)]
  /\ \A c \in Clients :
       /\ sentlen[c] <= Len(FlattenSeq(reply[c]))
       /\ promised[c] = wire[c] \o Rest(reply[c], sentlen[c])
       /\ c \in writable <=> reply[c] # <<>>

Outputs == \E S : Streams(S)

\* A handler that writes has something to write.
HandlerOK ==
  /\ {"c", "at"} \subseteq DOMAIN running
  /\ running.at \in {"write", "writev"} => reply[running.c] # <<>>

TablesFinite ==
  /\ connected \subseteq Clients
  /\ DOMAIN pubsub_channels = Clients /\ DOMAIN pubsub_patterns = Clients
  /\ \A c \in Clients : IsFiniteSet(pubsub_channels[c]) /\ IsFiniteSet(pubsub_patterns[c])

NetInv == Inputs /\ Outputs /\ HandlerOK /\ TablesFinite

-----------------------------------------------------------------------------
(* Replies are added.                                                      *)

LEMMA SeqGrows ==
  ASSUME NEW S, NEW T, S \subseteq T
  PROVE  Seq(S) \subseteq Seq(T)
<1> SUFFICES ASSUME NEW s \in Seq(S) PROVE s \in Seq(T)
  OBVIOUS
<1> QED
  OBVIOUS

LEMMA SeqsGrow ==
  ASSUME NEW S, NEW T, S \subseteq T
  PROVE  Seq(S) \subseteq Seq(T) /\ Seq(Seq(S)) \subseteq Seq(Seq(T))
<1>1. Seq(S) \subseteq Seq(T)
  BY SeqGrows
<1> DEFINE X == Seq(S)
           Y == Seq(T)
<1>2. X \subseteq Y
  BY <1>1
<1> HIDE DEF X, Y
<1>3. Seq(X) \subseteq Seq(Y)
  BY <1>2, SeqGrows
<1> QED
  BY <1>1, <1>3 DEF X, Y

LEMMA StreamsGrow ==
  ASSUME NEW S, NEW T, S \subseteq T, Streams(S)
  PROVE  Streams(T)
BY SeqsGrow DEF Streams

\* Replies of the tokens of T go to any number of clients.
LEMMA RepliesAdded ==
  ASSUME NEW T, NEW new \in [Clients -> Seq(Seq(T))], Outputs, AddReplies(new),
         UNCHANGED <<sentlen, wire>>
  PROVE  Outputs'
<1>1. PICK S : Streams(S)
  BY DEF Outputs
<1> DEFINE U == S \cup T
<1>2. S \subseteq U /\ T \subseteq U
  OBVIOUS
<1> HIDE DEF U
<1>3. Streams(U) /\ new \in [Clients -> Seq(Seq(U))]
  BY <1>1, <1>2, StreamsGrow, SeqsGrow
<1>4. ASSUME NEW c \in Clients
      PROVE  /\ reply'[c] = reply[c] \o new[c] /\ reply'[c] \in Seq(Seq(U))
             /\ promised'[c] = promised[c] \o FlattenSeq(new[c]) /\ promised'[c] \in Seq(U)
             /\ sentlen'[c] <= Len(FlattenSeq(reply'[c]))
             /\ promised'[c] = wire'[c] \o Rest(reply'[c], sentlen'[c])
             /\ c \in writable' <=> reply'[c] # <<>>
  <2>1. /\ reply[c] \in Seq(Seq(U)) /\ new[c] \in Seq(Seq(U)) /\ sentlen[c] \in Nat
        /\ wire[c] \in Seq(U) /\ promised[c] \in Seq(U)
        /\ sentlen[c] <= Len(FlattenSeq(reply[c]))
    BY <1>3 DEF Streams
  <2>2. /\ reply'[c] = reply[c] \o new[c] /\ promised'[c] = promised[c] \o FlattenSeq(new[c])
        /\ sentlen'[c] = sentlen[c] /\ wire'[c] = wire[c]
    BY DEF AddReplies
  <2>3. /\ Rest(reply[c] \o new[c], sentlen[c]) = Rest(reply[c], sentlen[c]) \o FlattenSeq(new[c])
        /\ sentlen[c] <= Len(FlattenSeq(reply[c] \o new[c]))
    BY <2>1, RestGrows
  <2>4. PICK a \in Seq(U) : a = Rest(reply[c], sentlen[c])
    BY <2>1, RestTyped
  <2>5. PICK b \in Seq(U) : b = FlattenSeq(new[c])
    BY <2>1, FlattenTyped
  <2>6. PICK w \in Seq(U) : w = wire[c]
    BY <2>1
  <2>7. (w \o a) \o b = w \o (a \o b) /\ (w \o a) \o b \in Seq(U)
    OBVIOUS
  <2>8. promised[c] = w \o a
    BY <1>3, <2>4, <2>6 DEF Streams
  <2>9. promised'[c] = (w \o a) \o b
    BY <2>2, <2>5, <2>8, Zenon
  <2>10. Rest(reply'[c], sentlen'[c]) = a \o b
    BY <2>2, <2>3, <2>4, <2>5, Zenon
  <2>11. c \in writable' <=> reply'[c] # <<>>
    <3>1. reply[c] \o new[c] # <<>> <=> reply[c] # <<>> \/ new[c] # <<>>
      BY <2>1
    <3> QED
      BY <1>3, <2>2, <3>1 DEF AddReplies, Streams
  <2>12. reply[c] \o new[c] \in Seq(Seq(U))
    BY <2>1
  <2> QED
    BY <2>2, <2>3, <2>6, <2>7, <2>9, <2>10, <2>11, <2>12, Zenon
<1>5. reply' \in [Clients -> Seq(Seq(U))] /\ promised' \in [Clients -> Seq(U)]
  BY <1>4 DEF AddReplies
<1>6. sentlen' \in [Clients -> Nat] /\ wire' \in [Clients -> Seq(U)]
  BY <1>3 DEF Streams
<1>7. Streams(U)'
  BY <1>4, <1>5, <1>6 DEF Streams
<1> QED
  BY <1>7 DEF Outputs

LEMMA ReplyAdded ==
  ASSUME NEW T, NEW c, NEW objects \in Seq(Seq(T)), Outputs, AddReply(c, objects),
         UNCHANGED <<sentlen, wire>>
  PROVE  Outputs'
<1> DEFINE new == [d \in Clients |-> IF d = c THEN objects ELSE <<>>]
<1>1. new \in [Clients -> Seq(Seq(T))]
  OBVIOUS
<1>2. AddReplies(new)
  BY DEF AddReply
<1> HIDE DEF new
<1> QED
  BY <1>1, <1>2, RepliesAdded

LEMMA Idle == {"c", "at"} \subseteq DOMAIN None /\ None.at \notin {"write", "writev"}
  BY DEF None

-----------------------------------------------------------------------------
(* A connection ends.                                                      *)

\* freeClient leaves the lists of the others alone.
LEMMA FreeClientKeeps ==
  ASSUME NetInv, NEW c \in Clients, FreeClient(c)
  PROVE  NetInv'
<1>1. Inputs'
  BY DEF NetInv, Inputs, FreeClient, NewParser, Parsers
<1>2. Outputs'
  <2>1. PICK S : Streams(S)
    BY DEF NetInv, Outputs
  <2>2. /\ reply' \in [Clients -> Seq(Seq(S))] /\ sentlen' \in [Clients -> Nat]
        /\ wire' \in [Clients -> Seq(S)] /\ promised' \in [Clients -> Seq(S)]
    BY <2>1 DEF FreeClient, Streams
  <2>3. ASSUME NEW d \in Clients
        PROVE  /\ sentlen'[d] <= Len(FlattenSeq(reply'[d]))
               /\ promised'[d] = wire'[d] \o Rest(reply'[d], sentlen'[d])
               /\ d \in writable' <=> reply'[d] # <<>>
    <3>1. CASE d = c
      <4>1. /\ reply'[c] = <<>> /\ sentlen'[c] = 0 /\ wire'[c] = <<>> /\ promised'[c] = <<>>
            /\ c \notin writable'
        BY <2>1 DEF FreeClient, Streams
      <4>2. Rest(<<>>, 0) = <<>> /\ FlattenSeq(<<>>) = <<>> /\ Len(<<>>) = 0 /\ <<>> \o <<>> = <<>>
        BY RestOfNone, FlattenNone
      <4> QED
        BY <3>1, <4>1, <4>2
    <3>2. CASE d # c
      <4>1. /\ reply'[d] = reply[d] /\ sentlen'[d] = sentlen[d] /\ wire'[d] = wire[d]
            /\ promised'[d] = promised[d] /\ (d \in writable' <=> d \in writable)
        BY <2>1, <3>2 DEF FreeClient, Streams
      <4> QED
        BY <2>1, <4>1, Zenon DEF Streams
    <3> QED
      BY <3>1, <3>2
  <2> QED
    BY <2>2, <2>3 DEF Outputs, Streams
<1>3. HandlerOK'
  BY Idle DEF FreeClient, HandlerOK
<1>4. TablesFinite'
  BY FS_EmptySet DEF NetInv, TablesFinite, FreeClient, FreeSubscriber, DropSubscriptions,
     WithoutChannels, WithoutPatterns
<1> QED
  BY <1>1, <1>2, <1>3, <1>4 DEF NetInv

-----------------------------------------------------------------------------
(* Requests are parsed and answered.                                       *)

\* processInputBuffer runs for the client.
Parsing(c) == running = [c |-> c, at |-> "input"]

LEMMA ResetParser ==
  ASSUME NEW p \in Parsers
  PROVE  ResetClient(p) \in Parsers
<1>1. <<>> \in Seq(Seq(Tokens)) /\ -1 \in Nat \cup {-1} /\ 0 \in Int
  OBVIOUS
<1> QED
  BY <1>1 DEF ResetClient, Parsers

LEMMA AgainKeeps ==
  ASSUME NetInv, NEW c \in Clients, NEW p \in Parsers, Parsing(c), Again(c, p)
  PROVE  Inputs' /\ HandlerOK' /\ TablesFinite' /\ UNCHANGED <<sentlen, wire>>
<1>1. Inputs'
  BY DEF NetInv, Inputs, Again
<1>2. HandlerOK'
  BY Idle DEF HandlerOK, Again, Parsing
<1>3. TablesFinite'
  BY DEF NetInv, TablesFinite, Again, psvars, subscriptions
<1> QED
  BY <1>1, <1>2, <1>3 DEF Again

LEMMA ContinueKeeps ==
  ASSUME NetInv, NEW c \in Clients, NEW p \in Parsers, Parsing(c), Continue(c, p)
  PROVE  NetInv'
<1>1. Inputs' /\ HandlerOK' /\ TablesFinite' /\ UNCHANGED <<sentlen, wire>>
  BY AgainKeeps DEF Continue
<1>2. Outputs'
  BY <1>1 DEF NetInv, Outputs, Streams, Continue, output
<1> QED
  BY <1>1, <1>2 DEF NetInv

LEMMA ErrorKeeps ==
  ASSUME NetInv, NEW c \in Clients, NEW p \in Parsers, Parsing(c),
         Again(c, ResetClient(p)), AddReply(c, <<<<"-ERR">>>>)
  PROVE  NetInv'
<1>1. Inputs' /\ HandlerOK' /\ TablesFinite' /\ UNCHANGED <<sentlen, wire>>
  BY AgainKeeps, ResetParser
<1>2. Outputs'
  <2>1. <<<<"-ERR">>>> \in Seq(Seq({"-ERR"}))
    OBVIOUS
  <2> QED
    BY <1>1, <2>1, ReplyAdded DEF NetInv
<1> QED
  BY <1>1, <1>2 DEF NetInv

LEMMA PatternOrder ==
  ASSUME NEW T, IsFiniteSet(T), NEW q \in SetToSeqs(T)
  PROVE  q \in Seq(T)
<1>1. Cardinality(T) \in Nat
  BY FS_CardinalityType
<1> QED
  BY <1>1 DEF SetToSeqs

\* What PUBLISH sends to one client.
LEMMA MessageTyped ==
  ASSUME NEW T, NEW c, NEW ch \in T, NEW message \in Seq(T), NEW q \in Seq(Patterns),
         Patterns \subseteq T, "message" \in T, "pmessage" \in T
  PROVE  MessageTo(c, ch, message, q) \in Seq(Seq(T))
<1> DEFINE Body(i) == IF q[i] \in MatchingPatterns(ch) /\ pattern_clients[q[i]][c] > 0
                        THEN <<<<"pmessage", q[i]>>, <<ch>>, message>> ELSE <<>>
           bodies == [i \in DOMAIN q |-> Body(i)]
           first == IF channel_clients[ch][c] > 0
                      THEN <<<<"message">>, <<ch>>, message>> ELSE <<>>
<1>1. first \in Seq(Seq(T))
  <2>1. <<"message">> \in Seq(T) /\ <<ch>> \in Seq(T)
    OBVIOUS
  <2>2. <<<<"message">>, <<ch>>, message>> \in Seq(Seq(T)) /\ <<>> \in Seq(Seq(T))
    BY <2>1
  <2> QED
    BY <2>2
<1>2. bodies \in Seq(Seq(Seq(T)))
  <2>1. ASSUME NEW i \in DOMAIN q PROVE Body(i) \in Seq(Seq(T))
    <3>1. q[i] \in T /\ "pmessage" \in T
      <4>1. q[i] \in Patterns
        OBVIOUS
      <4> QED
        BY <4>1
    <3>2. <<"pmessage", q[i]>> \in Seq(T) /\ <<ch>> \in Seq(T)
      BY <3>1
    <3> QED
      BY <3>2
  <2>2. DOMAIN q = 1 .. Len(q) /\ Len(q) \in Nat
    OBVIOUS
  <2> HIDE DEF Body
  <2> QED
    BY <2>1, <2>2
<1> DEFINE X == Seq(T)
<1>3. FlattenSeq(bodies) \in Seq(Seq(T))
  <2>1. bodies \in Seq(Seq(X))
    BY <1>2
  <2> HIDE DEF bodies, X
  <2>2. FlattenSeq(bodies) \in Seq(X)
    BY <2>1, FlattenTyped
  <2> QED
    BY <2>2 DEF X
<1>4. MessageTo(c, ch, message, q) = first \o FlattenSeq(bodies)
  BY Zenon DEF MessageTo
<1> HIDE DEF first, bodies
<1> QED
  <2>1. first \o FlattenSeq(bodies) \in Seq(Seq(T))
    BY <1>1, <1>3
  <2> QED
    BY <1>4, <2>1, Zenon

LEMMA PublishKeeps ==
  ASSUME NetInv, NEW c \in Clients, NEW p \in Parsers, Len(p.argv) = 3, Publish(c, p),
         UNCHANGED <<sentlen, wire>>
  PROVE  Outputs'
<1> DEFINE ch == p.argv[2][1]
           message == p.argv[3]
           told == ToString(Cardinality(Receivers(ch)))
           T == Tokens \cup Patterns \cup {ch, told, "message", "pmessage"}
<1>1. PICK order \in [Clients -> SetToSeqs(Patterns)] :
        AddReplies([d \in Clients |-> MessageTo(d, ch, message, order[d])
                                      \o (IF d = c THEN <<<<told>>>> ELSE <<>>)])
  BY Zenon DEF Publish
<1>2. message \in Seq(Tokens)
  BY DEF Parsers
<1>3. ch \in T /\ told \in T /\ Patterns \subseteq T /\ Tokens \subseteq T
      /\ "message" \in T /\ "pmessage" \in T
  OBVIOUS
<1> HIDE DEF ch, told, T, message
<1>4. message \in Seq(T)
  BY <1>2, <1>3, SeqGrows
<1> DEFINE new == [d \in Clients |-> MessageTo(d, ch, message, order[d])
                                     \o (IF d = c THEN <<<<told>>>> ELSE <<>>)]
<1>5. new \in [Clients -> Seq(Seq(T))]
  <2>1. ASSUME NEW d \in Clients
        PROVE  MessageTo(d, ch, message, order[d]) \o (IF d = c THEN <<<<told>>>> ELSE <<>>)
                 \in Seq(Seq(T))
    <3>1. order[d] \in Seq(Patterns)
      BY PatternsAssumption, PatternOrder
    <3>2. MessageTo(d, ch, message, order[d]) \in Seq(Seq(T))
      BY <1>3, <1>4, <3>1, MessageTyped
    <3>3. (IF d = c THEN <<<<told>>>> ELSE <<>>) \in Seq(Seq(T))
      BY <1>3
    <3> QED
      BY <3>2, <3>3, ConcatProperties, Zenon
  <2> QED
    BY <2>1, Zenon
<1>6. AddReplies(new)
  BY <1>1
<1> HIDE DEF new
<1> QED
  BY <1>5, <1>6, RepliesAdded DEF NetInv

LEMMA CallKeeps ==
  ASSUME NetInv, NEW c \in Clients, NEW p \in Parsers, Parsing(c),
         Name(p) = "publish" => Len(p.argv) = 3, Call(c, p)
  PROVE  NetInv'
<1>1. UNCHANGED <<unread, sentlen, wire>> /\ parser' = [parser EXCEPT ![c] = ResetClient(p)]
  BY Zenon DEF Call
<1>2. Inputs'
  BY <1>1, ResetParser DEF NetInv, Inputs
<1>3. CASE Name(p) = "ping" /\ AddReply(c, <<<<"+PONG">>>>) /\ UNCHANGED psvars
           /\ running' = IF p.querybuf = <<>> THEN None ELSE running
  <2>1. <<<<"+PONG">>>> \in Seq(Seq({"+PONG"}))
    OBVIOUS
  <2>2. Outputs'
    BY <1>1, <1>3, <2>1, ReplyAdded DEF NetInv
  <2>3. HandlerOK' /\ TablesFinite'
    BY <1>3, Idle DEF NetInv, HandlerOK, Parsing, TablesFinite, psvars, subscriptions
  <2> QED
    BY <1>2, <2>2, <2>3 DEF NetInv
<1>4. CASE Name(p) = "publish" /\ Publish(c, p)
           /\ running' = IF p.querybuf = <<>> THEN None ELSE running
  <2>1. Outputs'
    BY <1>1, <1>4, PublishKeeps
  <2>2. UNCHANGED <<connected, subscriptions>>
    BY <1>4 DEF Publish, PubsubPublishMessage
  <2>3. HandlerOK' /\ TablesFinite'
    BY <1>4, <2>2, Idle DEF NetInv, HandlerOK, Parsing, TablesFinite, subscriptions
  <2> QED
    BY <1>2, <2>1, <2>3 DEF NetInv
<1>5. CASE Name(p) \in PubsubCommands /\ UNCHANGED <<psvars, output>>
           /\ running' = [c |-> c, at |-> Name(p), args |-> Tail(p.argv), all |-> Len(p.argv) = 1]
  <2>1. Outputs'
    BY <1>1, <1>5 DEF NetInv, Outputs, Streams, output
  <2>2. HandlerOK' /\ TablesFinite'
    BY <1>5 DEF NetInv, HandlerOK, PubsubCommands, TablesFinite, psvars, subscriptions
  <2> QED
    BY <1>2, <2>1, <2>2 DEF NetInv
<1> QED
  BY <1>3, <1>4, <1>5, Zenon DEF Call

LEMMA BulkTaken ==
  ASSUME NEW p \in Parsers, p.bulklen # -1, p.bulklen <= Len(p.querybuf)
  PROVE  TakeBulk(p) \in Parsers /\ Len(TakeBulk(p).argv) = Len(p.argv) + 1
<1>1. p.querybuf \in Seq(Tokens) /\ p.bulklen \in Nat /\ p.argv \in Seq(Seq(Tokens))
  BY DEF Parsers
<1>2. SubSeq(p.querybuf, 1, p.bulklen - 1) \in Seq(Tokens)
      /\ SubSeq(p.querybuf, p.bulklen + 1, Len(p.querybuf)) \in Seq(Tokens)
  BY <1>1
<1>3. /\ Append(p.argv, SubSeq(p.querybuf, 1, p.bulklen - 1)) \in Seq(Seq(Tokens))
      /\ Len(Append(p.argv, SubSeq(p.querybuf, 1, p.bulklen - 1))) = Len(p.argv) + 1
  BY <1>1, <1>2
<1> QED
  BY <1>2, <1>3 DEF TakeBulk, Parsers

LEMMA AtoiTyped == ASSUME NEW t PROVE Atoi(t) \in Int
<1>1. ASSUME \E i \in 1 .. 4 : t \in {Numbers[i], Stars[i], Dollars[i]}
      PROVE  (CHOOSE i \in 1 .. 4 : t \in {Numbers[i], Stars[i], Dollars[i]}) \in 1 .. 4
  BY <1>1
<1> QED
  BY <1>1 DEF Atoi

LEMMA RefuseKeeps ==
  ASSUME NetInv, NEW c \in Clients, NEW p \in Parsers, Parsing(c),
         Refuse(c, p) \/ ProtocolError(c, p)
  PROVE  NetInv'
<1>1. Again(c, ResetClient(p)) /\ AddReply(c, <<<<"-ERR">>>>)
  BY Zenon DEF Refuse, ProtocolError
<1> QED
  BY <1>1, ErrorKeeps

LEMMA ExecuteKeeps ==
  ASSUME NetInv, NEW c \in Clients, NEW p \in Parsers, Parsing(c),
         Name(p) = "publish" => Len(p.argv) = 3, Execute(c, p)
  PROVE  NetInv'
<1>1. Refuse(c, p) \/ Call(c, p)
  BY Zenon DEF Execute
<1>2. CASE Refuse(c, p)
  BY <1>2, RefuseKeeps
<1>3. CASE Call(c, p)
  BY <1>3, CallKeeps
<1> QED
  BY <1>1, <1>2, <1>3

\* A command is complete: PUBLISH has its three arguments wherever it runs.
LEMMA DispatchKeeps ==
  ASSUME NetInv, NEW c \in Clients, NEW p \in Parsers, Parsing(c), p.argv # <<>>, Dispatch(c, p)
  PROVE  NetInv'
<1> DEFINE n == Atoi(Last(p.argv)[1])
           wanting == [p EXCEPT !.argv = Front(@), !.bulklen = n + 1]
<1>0. n \in Int
  BY AtoiTyped
<1>1. CASE Name(p) = "quit"
  <2>1. FreeClient(c)
    BY <1>1, Zenon DEF Dispatch
  <2> QED
    BY <2>1, FreeClientKeeps
<1>2. CASE Refuse(c, p)
  BY <1>2, RefuseKeeps
<1>3. CASE Name(p) # "quit" /\ ~Refuse(c, p)
  <2>1. Name(p) \in DOMAIN Arity /\ ~WrongArity(p)
    BY <1>3, Zenon DEF Dispatch
  <2>2. Name(p) = "publish" => Len(p.argv) = 3
    BY <2>1 DEF WrongArity, Arity
  <2>3. CASE Name(p) \in BulkCommands /\ p.bulklen = -1
    <3>1. Len(p.argv) = 3
      BY <2>2, <2>3 DEF BulkCommands
    <3>2. \/ ProtocolError(c, p)
          \/ n >= 0 /\ Len(p.querybuf) >= wanting.bulklen /\ Execute(c, TakeBulk(wanting))
          \/ n >= 0 /\ Continue(c, wanting)
      <4>1. IF n < 0 THEN ProtocolError(c, p)
            ELSE IF Len(p.querybuf) >= wanting.bulklen THEN Execute(c, TakeBulk(wanting))
            ELSE Continue(c, wanting)
        BY <1>3, <2>1, <2>3, Zenon DEF Dispatch
      <4>2. n < 0 \/ n >= 0
        BY <1>0
      <4> HIDE DEF n, wanting
      <4> QED
        BY <4>1, <4>2
    <3>3. ASSUME n >= 0
          PROVE  wanting \in Parsers /\ wanting.bulklen = n + 1 /\ Len(wanting.argv) = 2
      <4>1. Front(p.argv) \in Seq(Seq(Tokens)) /\ Len(Front(p.argv)) = 2
        BY <3>1 DEF Parsers, Front
      <4>2. n + 1 \in Nat
        BY <1>0, <3>3
      <4> HIDE DEF n
      <4> QED
        BY <4>1, <4>2 DEF Parsers
    <3> HIDE DEF wanting, n
    <3>4. CASE ProtocolError(c, p)
      BY <3>4, RefuseKeeps
    <3>5. CASE n >= 0 /\ Len(p.querybuf) >= wanting.bulklen /\ Execute(c, TakeBulk(wanting))
      <4>1. wanting.bulklen # -1 /\ wanting.bulklen <= Len(wanting.querybuf)
        <5>1. wanting.querybuf = p.querybuf /\ Len(p.querybuf) \in Nat
          BY DEF wanting, Parsers
        <5> QED
          BY <1>0, <3>3, <3>5, <5>1
      <4>2. TakeBulk(wanting) \in Parsers /\ Len(TakeBulk(wanting).argv) = 3
        <5>1. wanting \in Parsers /\ Len(wanting.argv) = 2
          BY <3>3, <3>5, Zenon
        <5>2. TakeBulk(wanting) \in Parsers /\ Len(TakeBulk(wanting).argv) = Len(wanting.argv) + 1
          BY <4>1, <5>1, BulkTaken, Zenon
        <5>3. Len(wanting.argv) + 1 = 3
          BY <5>1
        <5> QED
          BY <5>2, <5>3, Zenon
      <4> QED
        BY <3>5, <4>2, ExecuteKeeps
    <3>6. CASE n >= 0 /\ Continue(c, wanting)
      BY <3>3, <3>6, ContinueKeeps
    <3> QED
      BY <3>2, <3>4, <3>5, <3>6
  <2>4. CASE ~(Name(p) \in BulkCommands /\ p.bulklen = -1)
    <3>1. Execute(c, p)
      BY <1>3, <2>1, <2>4, Zenon DEF Dispatch
    <3> QED
      BY <2>2, <3>1, ExecuteKeeps
  <2> QED
    BY <2>3, <2>4
<1> QED
  BY <1>1, <1>2, <1>3

LEMMA ProcessCommandKeeps ==
  ASSUME NetInv, NEW c \in Clients, NEW p \in Parsers, Parsing(c), p.argv # <<>>,
         ProcessCommand(c, p)
  PROVE  NetInv'
<1> DEFINE n == Atoi(p.argv[1][1])
<1>0. n \in Int
  BY AtoiTyped
<1>1. \/ MultibulkCount(c, p) \/ Dispatch(c, p)
      \/ MultibulkLength(c, p) \/ MultibulkArgument(c, p)
  BY Zenon DEF ProcessCommand
<1>2. CASE MultibulkCount(c, p)
  <2>1. \/ Continue(c, ResetClient(p)) \/ Continue(c, [p EXCEPT !.multibulk = n, !.argv = <<>>])
    BY <1>2, Zenon DEF MultibulkCount
  <2>2. ResetClient(p) \in Parsers
    BY ResetParser
  <2>3. [p EXCEPT !.multibulk = n, !.argv = <<>>] \in Parsers
    <3> HIDE DEF n
    <3>1. <<>> \in Seq(Seq(Tokens))
      OBVIOUS
    <3> QED
      BY <1>0, <3>1 DEF Parsers
  <2> QED
    BY <2>1, <2>2, <2>3, ContinueKeeps
<1>3. CASE Dispatch(c, p)
  BY <1>3, DispatchKeeps
<1>4. CASE MultibulkLength(c, p)
  <2>1. \/ ProtocolError(c, p)
        \/ ~(n < 0) /\ Continue(c, [p EXCEPT !.argv = <<>>, !.bulklen = n + 1])
    BY <1>4, Zenon DEF MultibulkLength
  <2>2. ASSUME ~(n < 0) PROVE [p EXCEPT !.argv = <<>>, !.bulklen = n + 1] \in Parsers
    <3> HIDE DEF n
    <3>1. <<>> \in Seq(Seq(Tokens)) /\ n + 1 \in Nat
      BY <1>0, <2>2
    <3> QED
      BY <3>1 DEF Parsers
  <2> QED
    BY <2>1, <2>2, ContinueKeeps, RefuseKeeps
<1>5. CASE MultibulkArgument(c, p)
  <2> DEFINE mbargv == Append(p.mbargv, p.argv[1])
             whole == [p EXCEPT !.argv = mbargv, !.mbargv = <<>>, !.multibulk = 0, !.bulklen = 0]
             next == [p EXCEPT !.argv = <<>>, !.mbargv = mbargv, !.multibulk = @ - 1,
                               !.bulklen = -1]
  <2>1. Dispatch(c, whole) \/ Continue(c, next)
    BY <1>5, Zenon DEF MultibulkArgument
  <2>2. mbargv \in Seq(Seq(Tokens)) /\ mbargv # <<>>
    <3>1. p.argv \in Seq(Seq(Tokens)) /\ p.mbargv \in Seq(Seq(Tokens))
      BY DEF Parsers
    <3>2. p.argv[1] \in Seq(Tokens)
      BY <3>1
    <3>3. ASSUME NEW S, NEW q \in Seq(S), NEW e \in S PROVE Append(q, e) \in Seq(S) /\ Append(q, e) # <<>>
      BY AppendProperties, Zenon
    <3> QED
      BY <3>1, <3>2, <3>3, Zenon
  <2>3. whole \in Parsers /\ whole.argv # <<>> /\ next \in Parsers
    <3> HIDE DEF mbargv
    <3>1. <<>> \in Seq(Seq(Tokens)) /\ -1 \in Nat \cup {-1} /\ 0 \in Nat \cup {-1} /\ 0 \in Int
      OBVIOUS
    <3>2. whole \in Parsers
      BY <2>2, <3>1 DEF Parsers
    <3>3. whole.argv # <<>>
      BY <2>2 DEF Parsers
    <3>4. p.multibulk - 1 \in Int
      BY DEF Parsers
    <3>5. next \in Parsers
      BY <2>2, <3>1, <3>4 DEF Parsers
    <3> QED
      BY <3>2, <3>3, <3>5
  <2> HIDE DEF whole, next
  <2> QED
    BY <2>1, <2>3, DispatchKeeps, ContinueKeeps
<1> QED
  BY <1>1, <1>2, <1>3, <1>4, <1>5

LEMMA ReturnKeeps ==
  ASSUME NetInv, NEW c \in Clients, HandlerReturns(c)
  PROVE  NetInv'
BY Idle DEF HandlerReturns, NetInv, Inputs, Outputs, Streams, HandlerOK, TablesFinite, output,
   psvars, subscriptions

\* The end of the line is in the buffer, or is not.
LEMMA LineEnd ==
  ASSUME NEW q \in Seq(Tokens)
  PROVE  SelectInSeq(q, LAMBDA t : t = NL) \in 0 .. Len(q)
<1> DEFINE I == {i \in 1 .. Len(q) : q[i] = NL}
<1>1. SelectInSeq(q, LAMBDA t : t = NL) = IF I # {} THEN Min(I) ELSE 0
  BY DEF SelectInSeq
<1>2. ASSUME I # {} PROVE Min(I) \in I
  <2>1. I \subseteq Nat
    OBVIOUS
  <2> HIDE DEF I
  <2>2. \E m \in I : \A n \in I : m <= n
    BY <1>2, <2>1, LeastElement
  <2> QED
    BY <2>2 DEF Min
<1>3. Len(q) \in Nat /\ I \subseteq 1 .. Len(q)
  OBVIOUS
<1> HIDE DEF I
<1> QED
  BY <1>1, <1>2, <1>3

LEMMA InputKeeps ==
  ASSUME NetInv, NEW c \in Clients, ProcessInputBuffer(c)
  PROVE  NetInv'
<1> DEFINE p == parser[c]
<1>0. p \in Parsers /\ Parsing(c)
  BY DEF NetInv, Inputs, ProcessInputBuffer, Parsing
<1>1. CASE ProcessLine(c)
  <2> DEFINE end == SelectInSeq(p.querybuf, LAMBDA t : t = NL)
             read == [p EXCEPT !.argv = [i \in 1 .. end - 1 |-> <<p.querybuf[i]>>],
                               !.querybuf = SubSeq(@, end + 1, Len(@))]
  <2>1. \/ end = 1 /\ Continue(c, read)
        \/ end # 0 /\ end # 1 /\ ProcessCommand(c, read)
        \/ FreeClient(c)
        \/ HandlerReturns(c)
    BY <1>1, Zenon DEF ProcessLine
  <2>2. p.querybuf \in Seq(Tokens) /\ end \in 0 .. Len(p.querybuf)
    BY <1>0, LineEnd DEF Parsers
  <2> HIDE DEF end
  <2>3. /\ [i \in 1 .. end - 1 |-> <<p.querybuf[i]>>] \in Seq(Seq(Tokens))
        /\ SubSeq(p.querybuf, end + 1, Len(p.querybuf)) \in Seq(Tokens)
    <3>1. ASSUME NEW i \in 1 .. end - 1 PROVE <<p.querybuf[i]>> \in Seq(Tokens)
      BY <2>2
    <3>2. \A i \in end + 1 .. Len(p.querybuf) : p.querybuf[i] \in Tokens
      BY <2>2
    <3>3. SubSeq(p.querybuf, end + 1, Len(p.querybuf)) \in Seq(Tokens)
      BY <2>2, <3>2, SubSeqProperties
    <3>4. end - 1 \in Nat \/ 1 .. end - 1 = {}
      BY <2>2
    <3>5. [i \in 1 .. end - 1 |-> <<p.querybuf[i]>>] \in Seq(Seq(Tokens))
      <4>1. CASE end - 1 \in Nat
        <5> DEFINE m == end - 1
        <5>1. m \in Nat /\ \A i \in 1 .. m : <<p.querybuf[i]>> \in Seq(Tokens)
          BY <3>1, <4>1
        <5> HIDE DEF m
        <5>2. [i \in 1 .. m |-> <<p.querybuf[i]>>] \in Seq(Seq(Tokens))
          BY <5>1
        <5> QED
          BY <5>2 DEF m
      <4>2. CASE 1 .. end - 1 = {}
        <5>1. 1 .. end - 1 = 1 .. 0
          BY <4>2
        <5>2. [i \in 1 .. 0 |-> <<p.querybuf[i]>>] \in Seq(Seq(Tokens))
          OBVIOUS
        <5> QED
          BY <5>1, <5>2
      <4> QED
        BY <3>4, <4>1, <4>2
    <3> QED
      BY <3>3, <3>5
  <2>4. read \in Parsers
    BY <1>0, <2>3 DEF Parsers
  <2>5. end # 0 /\ end # 1 => read.argv # <<>>
    <3> SUFFICES ASSUME end # 0, end # 1 PROVE read.argv # <<>>
      OBVIOUS
    <3>1. read.argv = [i \in 1 .. end - 1 |-> <<p.querybuf[i]>>]
      BY <1>0 DEF Parsers
    <3>2. 1 \in 1 .. end - 1
      BY <2>2
    <3>3. 1 \in DOMAIN read.argv
      BY <3>1, <3>2
    <3> QED
      BY <3>3
  <2> HIDE DEF read
  <2> QED
    BY <1>0, <2>1, <2>4, <2>5, ContinueKeeps, ProcessCommandKeeps, FreeClientKeeps, ReturnKeeps
<1>2. CASE ProcessBulk(c)
  <2>1. CASE p.bulklen <= Len(p.querybuf)
    <3>1. p.bulklen # -1 /\ ProcessCommand(c, TakeBulk(p))
      BY <1>2, <2>1, Zenon DEF ProcessBulk
    <3>2. TakeBulk(p) \in Parsers /\ Len(TakeBulk(p).argv) = Len(p.argv) + 1
      BY <1>0, <2>1, <3>1, BulkTaken
    <3>3. TakeBulk(p).argv # <<>>
      BY <1>0, <3>2 DEF Parsers
    <3> QED
      BY <1>0, <3>1, <3>2, <3>3, ProcessCommandKeeps
  <2>2. CASE ~(p.bulklen <= Len(p.querybuf))
    <3>1. HandlerReturns(c)
      BY <1>2, <2>2, Zenon DEF ProcessBulk
    <3> QED
      BY <3>1, ReturnKeeps
  <2> QED
    BY <2>1, <2>2
<1> QED
  BY <1>1, <1>2 DEF ProcessInputBuffer

-----------------------------------------------------------------------------
(* SUBSCRIBE and its siblings.                                             *)

SubscriptionRuns(c) == running.c = c /\ running.at \in PubsubCommands

LEMMA SubscriptionHandler ==
  ASSUME HandlerOK, NEW c, SubscriptionRuns(c), NEW name \in {"args", "all"}, NEW v,
         running' = [running EXCEPT ![name] = v]
  PROVE  HandlerOK'
<1>1. running'.at = running.at /\ {"c", "at"} \subseteq DOMAIN running'
  BY DEF HandlerOK
<1>2. running.at \notin {"write", "writev"}
  BY DEF SubscriptionRuns, PubsubCommands
<1> QED
  BY <1>1, <1>2 DEF HandlerOK

LEMMA SubscriptionArgumentKeeps ==
  ASSUME NetInv, NEW c \in Clients, SubscriptionArgument(c)
  PROVE  NetInv'
<1> DEFINE name == Head(running.args)[1]
           count == ToString(Cardinality(pubsub_channels'[c]) + Cardinality(pubsub_patterns'[c]))
<1>1. /\ \/ PubsubSubscribeChannel(c, name) \/ PubsubUnsubscribeChannel(c, name)
         \/ PubsubSubscribePattern(c, name) \/ PubsubUnsubscribePattern(c, name)
      /\ AddReply(c, <<<<running.at>>, <<name>>, <<count>>>>)
      /\ SubscriptionRuns(c)
      /\ running' = [running EXCEPT !.args = Tail(@)]
      /\ UNCHANGED <<unread, parser, sentlen, wire>>
  BY Zenon DEF SubscriptionArgument, Notify, SubscriptionRuns
<1> HIDE DEF name, count
<1>2. Inputs'
  BY <1>1 DEF NetInv, Inputs
<1>3. Outputs'
  <2>1. <<<<running.at>>, <<name>>, <<count>>>> \in Seq(Seq({running.at, name, count}))
    OBVIOUS
  <2> QED
    BY <1>1, <2>1, ReplyAdded DEF NetInv
<1>4. HandlerOK'
  <2>1. running' = [running EXCEPT !["args"] = Tail(running.args)]
    BY <1>1
  <2> QED
    BY <1>1, <2>1, SubscriptionHandler DEF NetInv
<1>5. TablesFinite'
  <2>1. ASSUME NEW T, IsFiniteSet(T)
        PROVE  IsFiniteSet(T \cup {name}) /\ IsFiniteSet(T \ {name})
    BY <2>1, FS_AddElement, FS_RemoveElement
  <2>2. CASE PubsubSubscribeChannel(c, name) \/ PubsubUnsubscribeChannel(c, name)
    BY <2>1, <2>2 DEF NetInv, TablesFinite, PubsubSubscribeChannel, PubsubUnsubscribeChannel
  <2>3. CASE PubsubSubscribePattern(c, name) \/ PubsubUnsubscribePattern(c, name)
    BY <2>1, <2>3 DEF NetInv, TablesFinite, PubsubSubscribePattern, PubsubUnsubscribePattern
  <2> QED
    BY <1>1, <2>2, <2>3
<1> QED
  BY <1>2, <1>3, <1>4, <1>5 DEF NetInv

LEMMA UnsubscribeAllKeeps ==
  ASSUME NetInv, NEW c \in Clients, UnsubscribeAll(c)
  PROVE  NetInv'
<1> DEFINE left == IF running.at = "unsubscribe" THEN pubsub_channels[c] ELSE pubsub_patterns[c]
           rest == Cardinality(pubsub_channels'[c]) + Cardinality(pubsub_patterns'[c])
           Told(q, i) == ToString(rest + Len(q) - i)
           Notices(q) == FlattenSeq([i \in DOMAIN q |->
                           <<<<running.at>>, <<q[i]>>, <<Told(q, i)>>>>])
<1>1. /\ PubsubUnsubscribeAllChannels(c) \/ PubsubUnsubscribeAllPatterns(c)
      /\ \E q \in SetToSeqs(left) : AddReply(c, Notices(q))
      /\ SubscriptionRuns(c)
      /\ running' = [running EXCEPT !.all = FALSE]
      /\ UNCHANGED <<unread, parser, sentlen, wire>>
  BY Zenon DEF UnsubscribeAll, SubscriptionRuns
<1>2. Inputs'
  BY <1>1 DEF NetInv, Inputs
<1>3. Outputs'
  <2>1. PICK q \in SetToSeqs(left) : AddReply(c, Notices(q))
    BY <1>1
  <2>2. q \in Seq(left)
    <3>1. IsFiniteSet(left)
      BY DEF NetInv, TablesFinite
    <3> HIDE DEF left
    <3> QED
      BY <3>1, PatternOrder
  <2> HIDE DEF left, Told
  <2> DEFINE T == {running.at} \cup left \cup {Told(q, i) : i \in DOMAIN q}
             X == Seq(T)
             notices == [i \in DOMAIN q |-> <<<<running.at>>, <<q[i]>>, <<Told(q, i)>>>>]
  <2>3. notices \in Seq(Seq(X))
    <3>1. ASSUME NEW i \in DOMAIN q
          PROVE  <<<<running.at>>, <<q[i]>>, <<Told(q, i)>>>> \in Seq(X)
      <4>1. running.at \in T /\ Told(q, i) \in T
        OBVIOUS
      <4>2. q[i] \in T
        BY <2>2
      <4> HIDE DEF T
      <4>3. <<running.at>> \in X /\ <<q[i]>> \in X /\ <<Told(q, i)>> \in X
        BY <4>1, <4>2
      <4> HIDE DEF X
      <4> QED
        BY <4>3
    <3>2. DOMAIN q = 1 .. Len(q) /\ Len(q) \in Nat
      BY <2>2
    <3> HIDE DEF T, X
    <3> QED
      BY <3>1, <3>2
  <2> HIDE DEF notices, T
  <2>4. FlattenSeq(notices) \in Seq(Seq(T))
    <3> HIDE DEF X
    <3>1. FlattenSeq(notices) \in Seq(X)
      BY <2>3, FlattenTyped
    <3> QED
      BY <3>1 DEF X
  <2>5. AddReply(c, FlattenSeq(notices))
    BY <2>1, Zenon DEF notices
  <2> QED
    BY <1>1, <2>4, <2>5, ReplyAdded DEF NetInv
<1> HIDE DEF left, rest
<1>4. HandlerOK'
  <2>1. running' = [running EXCEPT !["all"] = FALSE]
    BY <1>1
  <2> QED
    BY <1>1, <2>1, SubscriptionHandler DEF NetInv
<1>5. TablesFinite'
  BY <1>1, FS_EmptySet DEF NetInv, TablesFinite, PubsubUnsubscribeAllChannels,
     PubsubUnsubscribeAllPatterns, WithoutChannels, WithoutPatterns
<1> QED
  BY <1>2, <1>3, <1>4, <1>5 DEF NetInv

LEMMA CommandReturnsKeeps ==
  ASSUME NetInv, NEW c \in Clients, CommandReturns(c)
  PROVE  NetInv'
<1>1. HandlerOK'
  BY Idle DEF CommandReturns, HandlerOK
<1>2. Inputs' /\ Outputs' /\ TablesFinite'
  BY DEF CommandReturns, NetInv, Inputs, Outputs, Streams, TablesFinite, output, psvars,
     subscriptions
<1> QED
  BY <1>1, <1>2 DEF NetInv

-----------------------------------------------------------------------------
(* Replies are sent.                                                       *)

\* What one step of sendReplyToClient may do: objects are what its list holds,
\* of which some tokens go to the wire; left is what stays, sent of it already.
Sends(c, objects, left, sent, at) ==
  /\ reply' = [reply EXCEPT ![c] = left]
  /\ sentlen' = [sentlen EXCEPT ![c] = sent]
  /\ wire' = [wire EXCEPT ![c] = @ \o SubSeq(FlattenSeq(objects), sentlen[c] + 1, at)]
  /\ writable' = IF left = <<>> THEN writable \ {c} ELSE writable
  /\ UNCHANGED promised

\* The whole is two parts.
Joins(whole, a, b) == whole = a \o b

LEMMA Regrouped ==
  ASSUME NEW S, NEW a \in Seq(S), NEW b \in Seq(S), NEW e \in Seq(S),
         NEW whole, NEW first, NEW second,
         Joins(whole, a, second), Joins(second, b, e), Joins(first, a, b)
  PROVE  Joins(whole, first, e)
<1>1. (a \o b) \o e = a \o (b \o e)
  OBVIOUS
<1> QED
  BY <1>1, Zenon DEF Joins

\* A step that sends keeps the streams intact.
LEMMA SendKeeps ==
  ASSUME NEW S, Streams(S), NEW c \in Clients, reply[c] # <<>>,
         NEW objects \in Seq(Seq(S)), FlattenSeq(objects) = FlattenSeq(reply[c]),
         NEW at \in Nat, sentlen[c] <= at, at <= Len(FlattenSeq(objects)),
         NEW left \in Seq(Seq(S)), NEW sent \in Nat, sent <= Len(FlattenSeq(left)),
         Splits(objects, sentlen[c], at, left, sent),
         Sends(c, objects, left, sent, at)
  PROVE  Streams(S)'
<1> DEFINE new == SubSeq(FlattenSeq(objects), sentlen[c] + 1, at)
<1>0. /\ wire[c] \in Seq(S) /\ sentlen[c] \in Nat /\ DOMAIN wire = Clients
      /\ promised[c] = wire[c] \o Rest(reply[c], sentlen[c])
  BY DEF Streams
<1>1. new \in Seq(S)
  <2>1. PICK f \in Seq(S) : f = FlattenSeq(objects)
    BY FlattenTyped
  <2>2. at <= Len(f)
    BY <2>1
  <2>3. SubSeq(f, sentlen[c] + 1, at) \in Seq(S)
    BY <1>0, <2>2
  <2> QED
    BY <2>1, <2>3
<1>2. PICK r \in Seq(S) : r = Rest(left, sent)
  BY RestTyped
<1> HIDE DEF new
<1>3. wire'[c] = wire[c] \o new /\ wire'[c] \in Seq(S)
  <2>1. wire'[c] = wire[c] \o new
    BY <1>0 DEF Sends, new
  <2>2. wire[c] \o new \in Seq(S)
    BY <1>0, <1>1
  <2> QED
    BY <2>1, <2>2, Zenon
<1>4. Rest(reply[c], sentlen[c]) = new \o r
  <2>1. Rest(reply[c], sentlen[c]) = Rest(objects, sentlen[c])
    BY Zenon DEF Rest
  <2> QED
    BY <1>2, <2>1, Zenon DEF new, Splits
<1>5. promised[c] = wire'[c] \o r
  <2>1. Joins(promised[c], wire[c], Rest(reply[c], sentlen[c]))
    BY <1>0, Zenon DEF Joins
  <2>2. Joins(Rest(reply[c], sentlen[c]), new, r)
    BY <1>4, Zenon DEF Joins
  <2>3. Joins(wire'[c], wire[c], new)
    BY <1>3, Zenon DEF Joins
  <2>4. wire[c] \in Seq(S) /\ new \in Seq(S) /\ r \in Seq(S)
    BY <1>0, <1>1
  <2>5. Joins(promised[c], wire'[c], r)
    BY <2>1, <2>2, <2>3, <2>4, Regrouped
  <2> QED
    BY <2>5, Zenon DEF Joins
<1>6. /\ reply'[c] = left /\ sentlen'[c] = sent /\ promised' = promised
      /\ reply' \in [Clients -> Seq(Seq(S))] /\ sentlen' \in [Clients -> Nat]
  BY DEF Sends, Streams
<1>7. wire' \in [Clients -> Seq(S)]
  <2>1. \A d \in Clients : d # c => wire'[d] = wire[d]
    BY <1>0 DEF Sends
  <2>2. DOMAIN wire' = Clients /\ wire' = [d \in Clients |-> wire'[d]]
    BY <1>0 DEF Sends
  <2> QED
    BY <1>3, <2>1, <2>2 DEF Streams
<1>8. ASSUME NEW d \in Clients
      PROVE  /\ sentlen'[d] <= Len(FlattenSeq(reply'[d]))
             /\ promised'[d] = wire'[d] \o Rest(reply'[d], sentlen'[d])
             /\ d \in writable' <=> reply'[d] # <<>>
  <2>1. CASE d = c
    <3>1. promised'[d] = wire'[d] \o Rest(reply'[d], sentlen'[d])
      BY <1>2, <1>5, <1>6, <2>1, Zenon
    <3>2. c \in writable
      BY DEF Streams
    <3>3. d \in writable' <=> reply'[d] # <<>>
      BY <1>6, <2>1, <3>2 DEF Sends
    <3> QED
      BY <1>6, <2>1, <3>1, <3>3, Zenon
  <2>2. CASE d # c
    <3>1. /\ reply'[d] = reply[d] /\ sentlen'[d] = sentlen[d] /\ wire'[d] = wire[d]
          /\ promised'[d] = promised[d] /\ (d \in writable' <=> d \in writable)
      BY <2>2 DEF Sends, Streams
    <3> QED
      BY <3>1, Zenon DEF Streams
  <2> QED
    BY <2>1, <2>2
<1> QED
  BY <1>6, <1>7, <1>8 DEF Streams

\* A handler that returns with nothing written leaves the list's tokens as they are.
LEMMA NothingSent ==
  ASSUME NEW S, Streams(S), NEW c \in Clients, reply[c] # <<>>,
         NEW objects \in Seq(Seq(S)), FlattenSeq(objects) = FlattenSeq(reply[c]),
         NEW left \in Seq(Seq(S)), FlattenSeq(left) = FlattenSeq(objects),
         reply' = [reply EXCEPT ![c] = left], UNCHANGED <<sentlen, wire, promised>>,
         writable' = IF left = <<>> THEN writable \ {c} ELSE writable
  PROVE  Streams(S)'
<1> DEFINE n == sentlen[c]
           f == FlattenSeq(objects)
<1>1. n \in Nat /\ n <= Len(f) /\ DOMAIN sentlen = Clients /\ DOMAIN wire = Clients
      /\ wire[c] \in Seq(S) /\ sentlen \in [Clients -> Nat] /\ wire \in [Clients -> Seq(S)]
  BY DEF Streams
<1>2. f \in Seq(S)
  BY FlattenTyped
<1> HIDE DEF n, f
<1>3. SubSeq(f, n + 1, n) = <<>>
  BY <1>1
<1>4. sentlen' = [sentlen EXCEPT ![c] = n]
  BY <1>1 DEF n
<1>5. wire' = [wire EXCEPT ![c] = @ \o SubSeq(f, n + 1, n)]
  <2>1. wire[c] \o <<>> = wire[c]
    BY <1>1
  <2>2. wire' = [wire EXCEPT ![c] = wire[c]]
    BY <1>1
  <2> QED
    BY <1>3, <2>1, <2>2
<1>6. Sends(c, objects, left, n, n)
  BY <1>4, <1>5 DEF Sends, n, f
<1>7. Rest(objects, n) = SubSeq(f, n + 1, n) \o Rest(left, n)
  <2>1. PICK r \in Seq(S) : r = Rest(objects, n)
    BY <1>1, RestTyped DEF f
  <2>2. Rest(left, n) = r
    BY <2>1, Zenon DEF Rest
  <2>3. <<>> \o r = r
    OBVIOUS
  <2> QED
    BY <1>3, <2>1, <2>2, <2>3, Zenon
<1> QED
  <2>1. /\ sentlen[c] \in Nat /\ sentlen[c] <= sentlen[c]
        /\ sentlen[c] <= Len(FlattenSeq(objects)) /\ sentlen[c] <= Len(FlattenSeq(left))
    BY <1>1 DEF n, f
  <2>2. Splits(objects, sentlen[c], sentlen[c], left, sentlen[c])
    BY <1>7, Zenon DEF Splits, n, f
  <2>3. Sends(c, objects, left, sentlen[c], sentlen[c])
    BY <1>6, Zenon DEF n
  <2> QED
    BY <2>1, <2>2, <2>3, SendKeeps, Zenon

LEMMA ReturnsKeeps ==
  ASSUME NEW S, Streams(S), NEW c \in Clients, reply[c] # <<>>,
         NEW objects \in Seq(Seq(S)), FlattenSeq(objects) = FlattenSeq(reply[c]),
         objects # <<>>, SendReturns(c, objects, sentlen[c]), UNCHANGED <<wire, promised>>
  PROVE  Streams(S)' /\ HandlerOK'
<1>1. sentlen' = sentlen
  BY DEF SendReturns, Streams
<1>2. Streams(S)'
  BY <1>1, NothingSent DEF SendReturns
<1> QED
  BY <1>2, Idle DEF SendReturns, HandlerOK

\* One write of any number of tokens.
LEMMA WroteKeeps ==
  ASSUME NEW S, Streams(S), NEW c \in Clients, reply[c] # <<>>, HandlerOK, running.c = c,
         NEW objects \in Seq(Seq(S)), FlattenSeq(objects) = FlattenSeq(reply[c]),
         NEW n \in Nat, sentlen[c] + n <= Len(FlattenSeq(objects)), NEW tot, NEW ends,
         Wrote(c, objects, n, tot, ends), UNCHANGED promised
  PROVE  Streams(S)' /\ HandlerOK'
<1> DEFINE at == sentlen[c] + n
           k == Cardinality(Done(objects, at))
           left == SubSeq(objects, k + 1, Len(objects))
           sent == at - SizeUpTo(objects, k)
<1>1. /\ wire' = [wire EXCEPT ![c] = @ \o SubSeq(FlattenSeq(objects), sentlen[c] + 1, at)]
      /\ IF ends \/ left = <<>> THEN SendReturns(c, left, sent)
         ELSE /\ reply' = [reply EXCEPT ![c] = left]
              /\ sentlen' = [sentlen EXCEPT ![c] = sent]
              /\ running' = [running EXCEPT !.tot = tot]
              /\ UNCHANGED writable
  BY Zenon DEF Wrote, Done
<1>2. sentlen[c] \in Nat /\ at \in Nat /\ sentlen[c] <= at /\ at <= Len(FlattenSeq(objects))
  BY DEF Streams
<1> HIDE DEF at
<1>3. k \in 0 .. Len(objects) /\ SizeUpTo(objects, k) <= at
  BY <1>2, DoneAreFirst
<1> HIDE DEF k
<1>4. /\ left \in Seq(Seq(S)) /\ sent \in Nat /\ sent <= Len(FlattenSeq(left))
      /\ Splits(objects, sentlen[c], at, left, sent)
  <2> USE DEF left
  <2>1. /\ left \in Seq(Seq(S))
        /\ at - SizeUpTo(objects, k) \in Nat
        /\ at - SizeUpTo(objects, k) <= Len(FlattenSeq(left))
        /\ Splits(objects, sentlen[c], at, left, at - SizeUpTo(objects, k))
    <3>1. left = SubSeq(objects, k + 1, Len(objects))
      BY Zenon
    <3> HIDE DEF left
    <3> QED
      BY <1>2, <1>3, <3>1, RestWritten
  <2> QED
    BY <2>1, Zenon DEF sent
<1> HIDE DEF left, sent
<1>5. Sends(c, objects, left, IF left = <<>> THEN 0 ELSE sent, at)
  <2>1. CASE ends \/ left = <<>>
    BY <1>1, <2>1 DEF Sends, SendReturns
  <2>2. CASE ~(ends \/ left = <<>>)
    BY <1>1, <2>2 DEF Sends
  <2> QED
    BY <2>1, <2>2
<1>6. Streams(S)'
  <2>1. CASE left = <<>>
    <3>1. FlattenSeq(left) = <<>> /\ Len(<<>>) = 0
      BY <2>1, FlattenNone
    <3>2. sent = 0
      BY <1>4, <3>1
    <3> QED
      BY <1>2, <1>4, <1>5, <2>1, <3>2, SendKeeps
  <2>2. CASE left # <<>>
    BY <1>2, <1>4, <1>5, <2>2, SendKeeps
  <2> QED
    BY <2>1, <2>2
<1>7. HandlerOK'
  <2>1. CASE ends \/ left = <<>>
    BY <1>1, <2>1, Idle DEF SendReturns, HandlerOK
  <2>2. CASE ~(ends \/ left = <<>>)
    <3>1. running'.c = c /\ {"c", "at"} \subseteq DOMAIN running'
      BY <1>1, <2>2 DEF HandlerOK
    <3>2. reply'[c] = left
      BY <1>1, <2>2 DEF Streams
    <3> QED
      BY <2>2, <3>1, <3>2 DEF HandlerOK
  <2> QED
    BY <2>1, <2>2
<1> QED
  BY <1>6, <1>7

LEMMA FirstObject ==
  ASSUME NEW T, NEW q \in Seq(T), q # <<>>
  PROVE  /\ Head(q) \in T /\ SubSeq(q, 1, 1) = <<Head(q)>> /\ Tail(q) = SubSeq(q, 2, Len(q))
         /\ Len(q) \in Nat /\ Len(q) > 0 /\ Len(Tail(q)) = Len(q) - 1
<1>1. Head(q) \in T /\ Len(q) \in Nat /\ Len(q) > 0
  OBVIOUS
<1>2. Tail(q) = SubSeq(q, 2, Len(q)) /\ Len(Tail(q)) = Len(q) - 1
  OBVIOUS
<1>3. SubSeq(q, 1, 1) = <<Head(q)>>
  <2>1. 1 \in 1 .. Len(q) /\ 1 - 1 = 0
    BY <1>1
  <2>2. SubSeq(q, 1, 1) \in Seq(T) /\ Len(SubSeq(q, 1, 1)) = 1 /\ SubSeq(q, 1, 1)[1] = Head(q)
    BY <1>1
  <2>3. <<Head(q)>> \in Seq(T) /\ Len(<<Head(q)>>) = 1 /\ <<Head(q)>>[1] = Head(q)
    BY <1>1
  <2>4. \A i \in 1 .. 1 : i = 1
    OBVIOUS
  <2> QED
    BY <2>2, <2>3, <2>4, SeqEqual
<1> QED
  BY <1>1, <1>2, <1>3

LEMMA EmptyObject ==
  ASSUME NEW S, NEW q \in Seq(Seq(S)), q # <<>>, Len(Head(q)) = 0
  PROVE  Tail(q) \in Seq(Seq(S)) /\ FlattenSeq(Tail(q)) = FlattenSeq(q)
<1>0. /\ Head(q) \in Seq(S) /\ Tail(q) = SubSeq(q, 2, Len(q))
      /\ SubSeq(q, 1, 1) = <<Head(q)>> /\ Len(q) \in Nat /\ Len(q) > 0
  BY FirstObject
<1>1. /\ Head(q) = <<>> /\ Tail(q) = SubSeq(q, 2, Len(q))
      /\ SubSeq(q, 1, 1) = <<Head(q)>> /\ 1 \in 0 .. Len(q)
  <2>1. Head(q) = <<>>
    BY <1>0, EmptySeq
  <2>2. 1 \in 0 .. Len(q)
    BY <1>0
  <2> QED
    BY <1>0, <2>1, <2>2
<1>2. /\ SubSeq(q, 1 + 1, Len(q)) \in Seq(Seq(S))
      /\ FlattenSeq(q) = FlattenSeq(SubSeq(q, 1, 1)) \o FlattenSeq(SubSeq(q, 1 + 1, Len(q)))
  BY <1>1, FlattenSplit
<1>3. 1 + 1 = 2
  OBVIOUS
<1>4. Tail(q) \in Seq(Seq(S)) /\ FlattenSeq(q) = FlattenSeq(<<Head(q)>>) \o FlattenSeq(Tail(q))
  BY <1>1, <1>2, <1>3, Zenon
<1>5. FlattenSeq(<<Head(q)>>) = <<>>
  <2>1. <<>> \in Seq(S)
    OBVIOUS
  <2>2. FlattenSeq(<<<<>>>>) = <<>>
    BY <2>1, FlattenOne
  <2> QED
    BY <1>1, <2>2, Zenon
<1>6. PICK f \in Seq(S) : f = FlattenSeq(Tail(q))
  BY <1>4, FlattenTyped
<1>7. <<>> \o f = f
  OBVIOUS
<1> QED
  BY <1>4, <1>5, <1>6, <1>7, Zenon

LEMMA WriteOneKeeps ==
  ASSUME NEW S, Streams(S), NEW c \in Clients, reply[c] # <<>>, HandlerOK, running.c = c,
         WriteOne(c), UNCHANGED promised
  PROVE  Streams(S)' /\ HandlerOK'
<1> DEFINE objects == IF config.glueoutputbuf /\ Len(reply[c]) > 1
                        THEN GlueReplyBuffersIfNeeded(reply[c]) ELSE reply[c]
           objlen == Len(Head(objects))
<1>0. reply[c] \in Seq(Seq(S)) /\ sentlen[c] \in Nat /\ sentlen[c] <= Len(FlattenSeq(reply[c]))
  BY DEF Streams
<1>1. /\ objects \in Seq(Seq(S)) /\ objects # <<>>
      /\ FlattenSeq(objects) = FlattenSeq(reply[c])
  <2>1. CASE config.glueoutputbuf /\ Len(reply[c]) > 1
    <3>1. objects = GlueReplyBuffersIfNeeded(reply[c])
      BY <2>1
    <3> QED
      BY <1>0, <3>1, Glued
  <2>2. CASE ~(config.glueoutputbuf /\ Len(reply[c]) > 1)
    <3>1. objects = reply[c]
      BY <2>2, Zenon
    <3> QED
      BY <1>0, <3>1, Zenon
  <2> QED
    BY <2>1, <2>2
<1>2. \/ objlen = 0 /\ UNCHANGED wire /\ Len(objects) = 1 /\ SendReturns(c, <<>>, 0)
      \/ /\ objlen = 0 /\ UNCHANGED wire /\ Len(objects) # 1
         /\ reply' = [reply EXCEPT ![c] = Tail(objects)]
         /\ UNCHANGED <<sentlen, writable, running>>
      \/ \E n \in 1 .. objlen - sentlen[c] :
           Wrote(c, objects, n, running.tot + n, running.tot + n > MaxWritePerEvent)
      \/ Full(c, objects)
  BY Zenon DEF WriteOne
<1> HIDE DEF objects
<1>3. CASE objlen = 0 /\ UNCHANGED wire /\ Len(objects) = 1 /\ SendReturns(c, <<>>, 0)
  <2>1. Tail(objects) = <<>>
    <3>1. Tail(objects) = SubSeq(objects, 2, 1)
      BY <1>1, <1>3, FirstObject
    <3> QED
      BY <3>1, SubSeqEmpty
  <2>2. FlattenSeq(<<>>) = FlattenSeq(objects) /\ FlattenSeq(objects) = <<>>
    BY <1>1, <1>3, <2>1, EmptyObject, FlattenNone
  <2>3. sentlen[c] = 0
    <3>1. Len(FlattenSeq(reply[c])) = 0
      BY <1>1, <2>2
    <3> QED
      BY <1>0, <3>1
  <2>4. sentlen' = sentlen
    BY <1>3, <2>3 DEF SendReturns, Streams
  <2>5. <<>> \in Seq(Seq(S))
    OBVIOUS
  <2>6. Streams(S)'
    BY <1>1, <1>3, <2>2, <2>4, <2>5, NothingSent DEF SendReturns
  <2> QED
    BY <1>3, <2>6, Idle DEF SendReturns, HandlerOK
<1>4. CASE /\ objlen = 0 /\ UNCHANGED wire /\ Len(objects) # 1
           /\ reply' = [reply EXCEPT ![c] = Tail(objects)]
           /\ UNCHANGED <<sentlen, writable, running>>
  <2>1. Tail(objects) # <<>>
    <3>1. Len(Tail(objects)) = Len(objects) - 1 /\ Len(objects) - 1 # 0
      BY <1>1, <1>4
    <3>2. Len(<<>>) = 0
      OBVIOUS
    <3> QED
      BY <3>1, <3>2
  <2>2. Tail(objects) \in Seq(Seq(S)) /\ FlattenSeq(Tail(objects)) = FlattenSeq(objects)
    BY <1>1, <1>4, EmptyObject
  <2>3. writable' = IF Tail(objects) = <<>> THEN writable \ {c} ELSE writable
    BY <1>4, <2>1
  <2>4. Streams(S)'
    BY <1>1, <1>4, <2>2, <2>3, NothingSent
  <2>5. reply'[c] # <<>>
    BY <1>4, <2>1 DEF Streams
  <2> QED
    BY <1>4, <2>4, <2>5 DEF HandlerOK
<1>5. CASE \E n \in 1 .. objlen - sentlen[c] :
             Wrote(c, objects, n, running.tot + n, running.tot + n > MaxWritePerEvent)
  <2>1. PICK n \in 1 .. objlen - sentlen[c] :
          Wrote(c, objects, n, running.tot + n, running.tot + n > MaxWritePerEvent)
    BY <1>5
  <2>2. objlen \in Nat /\ objlen <= Len(FlattenSeq(objects))
    <3>1. /\ 1 \in 0 .. Len(objects) /\ SubSeq(objects, 1, 1) = <<Head(objects)>>
          /\ Head(objects) \in Seq(S) /\ Len(objects) \in 0 .. Len(objects)
      BY <1>1, FirstObject
    <3>2. FlattenSeq(SubSeq(objects, 1, 1)) = Head(objects)
      BY <3>1, FlattenOne
    <3>3. SizeUpTo(objects, 1) = objlen
      BY <3>2 DEF SizeUpTo
    <3>4. SizeUpTo(objects, 1) \in Nat /\ SizeUpTo(objects, 1) <= Len(FlattenSeq(objects))
      <4>1. 1 \in 0 .. 1
        OBVIOUS
      <4> QED
        BY <1>1, <3>1, <4>1, SizesGrow
    <3> QED
      BY <3>3, <3>4
  <2>3. Len(FlattenSeq(objects)) \in Nat
    BY <1>1, FlattenTyped
  <2>4. n \in Nat /\ sentlen[c] + n <= Len(FlattenSeq(objects))
    BY <1>0, <2>2, <2>3
  <2> QED
    BY <1>1, <2>1, <2>4, WroteKeeps
<1>6. CASE Full(c, objects)
  BY <1>1, <1>6, ReturnsKeeps DEF Full
<1> QED
  BY <1>2, <1>3, <1>4, <1>5, <1>6

LEMMA WriteVectorKeeps ==
  ASSUME NEW S, Streams(S), NEW c \in Clients, reply[c] # <<>>, HandlerOK, running.c = c,
         WriteVector(c), UNCHANGED promised
  PROVE  Streams(S)' /\ HandlerOK'
<1>0. reply[c] \in Seq(Seq(S)) /\ sentlen[c] \in Nat
  BY DEF Streams
<1> DEFINE willwrite == Gathered(reply[c], running.tot, sentlen[c])
<1>1. \/ SendReturns(c, reply[c], sentlen[c]) /\ UNCHANGED wire
      \/ \E n \in 1 .. willwrite : Wrote(c, reply[c], n, running.tot + n, FALSE)
      \/ Full(c, reply[c])
  BY Zenon DEF WriteVector
<1>2. CASE SendReturns(c, reply[c], sentlen[c]) /\ UNCHANGED wire
  BY <1>0, <1>2, ReturnsKeeps
<1>3. CASE \E n \in 1 .. willwrite : Wrote(c, reply[c], n, running.tot + n, FALSE)
  <2>1. PICK n \in 1 .. willwrite : Wrote(c, reply[c], n, running.tot + n, FALSE)
    BY <1>3
  <2>2. n \in Nat /\ sentlen[c] + n <= Len(FlattenSeq(reply[c]))
    BY <1>0, GatheredBounded
  <2> QED
    BY <1>0, <2>1, <2>2, WroteKeeps
<1>4. CASE Full(c, reply[c])
  BY <1>0, <1>4, ReturnsKeeps DEF Full
<1> QED
  BY <1>1, <1>2, <1>3, <1>4

LEMMA SendMoreKeeps ==
  ASSUME NetInv, NEW c \in Clients, SendMore(c)
  PROVE  NetInv'
<1>1. PICK S : Streams(S)
  BY DEF NetInv, Outputs
<1>2. reply[c] # <<>> /\ HandlerOK /\ running.c = c /\ UNCHANGED promised
  BY DEF SendMore, NetInv, HandlerOK
<1>3. Streams(S)' /\ HandlerOK'
  BY <1>1, <1>2, WriteOneKeeps, WriteVectorKeeps DEF SendMore
<1>4. Inputs' /\ TablesFinite'
  BY DEF SendMore, NetInv, Inputs, TablesFinite, psvars, subscriptions
<1> QED
  BY <1>3, <1>4 DEF NetInv, Outputs

-----------------------------------------------------------------------------
(* What the peers send.                                                    *)

Requests == [form : {"inline", "bulk", "multi", "raw"}, argv : Seq(Seq(Words)) \ {<<>>}]

\* The tokens of one request.
LEMMA EncodedTyped ==
  ASSUME NEW r \in Requests
  PROVE  Encoded(r) \in Seq(Tokens)
<1>1. r.argv \in Seq(Seq(Words)) /\ r.argv # <<>> /\ r.form \in {"inline", "bulk", "multi", "raw"}
  BY DEF Requests
<1>2. Words \subseteq Tokens /\ NL \in Tokens
  BY DEF Tokens
<1>3. r.argv \in Seq(Seq(Tokens))
  BY <1>1, <1>2, SeqsGrow
<1>4. \A n \in Nat : Numbers[n] \in Tokens /\ Stars[n] \in Tokens /\ Dollars[n] \in Tokens
  BY DEF Tokens
<1> HIDE DEF Tokens
<1> DEFINE argv == r.argv
<1>5. argv \in Seq(Seq(Tokens)) /\ argv # <<>>
  BY <1>1, <1>3
<1> HIDE DEF argv
<1>6. /\ Front(argv) \in Seq(Seq(Tokens)) /\ Last(argv) \in Seq(Tokens)
      /\ Len(argv) + 1 \in Nat /\ Len(Last(argv)) + 1 \in Nat
  <2>1. Last(argv) \in Seq(Tokens) /\ Len(argv) + 1 \in Nat
    BY <1>5 DEF Last
  <2>2. Front(argv) \in Seq(Seq(Tokens))
    BY <1>5 DEF Front
  <2>3. Len(Last(argv)) + 1 \in Nat
    BY <2>1
  <2> QED
    BY <2>1, <2>2, <2>3
<1>7. ASSUME NEW a \in Seq(Tokens), NEW b \in Seq(Tokens)
      PROVE  a \o b \in Seq(Tokens)
  OBVIOUS
<1>8. <<NL>> \in Seq(Tokens) /\ \A n \in Nat : /\ <<Numbers[n], NL>> \in Seq(Tokens)
                                               /\ <<Stars[n], NL>> \in Seq(Tokens)
                                               /\ <<Dollars[n], NL>> \in Seq(Tokens)
  BY <1>2, <1>4
<1>9. FlattenSeq(argv) \in Seq(Tokens) /\ FlattenSeq(Front(argv)) \in Seq(Tokens)
  BY <1>5, <1>6, FlattenTyped
<1>10. FlattenSeq([i \in DOMAIN argv |-> BulkOf(argv[i])]) \in Seq(Tokens)
  <2>1. ASSUME NEW i \in DOMAIN argv PROVE BulkOf(argv[i]) \in Seq(Tokens)
    <3>1. argv[i] \in Seq(Tokens) /\ Len(argv[i]) + 1 \in Nat
      <4>1. argv[i] \in Seq(Tokens)
        BY <1>5
      <4> QED
        BY <4>1
    <3> QED
      BY <1>7, <1>8, <3>1, Zenon DEF BulkOf
  <2> DEFINE bulks == [i \in DOMAIN argv |-> BulkOf(argv[i])]
  <2>2. bulks \in Seq(Seq(Tokens))
    <3>1. DOMAIN argv = 1 .. Len(argv) /\ Len(argv) \in Nat
      BY <1>5
    <3> QED
      BY <2>1, <3>1
  <2> HIDE DEF bulks
  <2>3. FlattenSeq(bulks) \in Seq(Tokens)
    BY <2>2, FlattenTyped
  <2> QED
    BY <2>3 DEF bulks
<1>11. CASE r.form = "inline"
  <2>1. Encoded(r) = FlattenSeq(argv) \o <<NL>>
    BY <1>11 DEF Encoded, argv
  <2> QED
    BY <1>7, <1>8, <1>9, <2>1, Zenon
<1>12. CASE r.form = "bulk"
  <2>1. Encoded(r) = FlattenSeq(Front(argv)) \o <<Numbers[Len(Last(argv)) + 1], NL>>
                     \o Last(argv) \o <<NL>>
    BY <1>12 DEF Encoded, argv
  <2>2. <<Numbers[Len(Last(argv)) + 1], NL>> \in Seq(Tokens)
    BY <1>6, <1>8, Zenon
  <2>3. FlattenSeq(Front(argv)) \o <<Numbers[Len(Last(argv)) + 1], NL>> \in Seq(Tokens)
    BY <1>7, <1>9, <2>2, Zenon
  <2>4. FlattenSeq(Front(argv)) \o <<Numbers[Len(Last(argv)) + 1], NL>> \o Last(argv)
          \in Seq(Tokens)
    BY <1>6, <1>7, <2>3, Zenon
  <2> QED
    BY <1>7, <1>8, <2>1, <2>4, Zenon
<1>13. CASE r.form = "multi"
  <2>1. Encoded(r) = <<Stars[Len(argv) + 1], NL>>
                     \o FlattenSeq([i \in DOMAIN argv |-> BulkOf(argv[i])])
    BY <1>13 DEF Encoded, argv
  <2>2. <<Stars[Len(argv) + 1], NL>> \in Seq(Tokens)
    BY <1>6, <1>8, Zenon
  <2> QED
    BY <1>7, <1>10, <2>1, <2>2, Zenon
<1>14. CASE r.form = "raw"
  <2>1. Encoded(r) = FlattenSeq(argv)
    BY <1>14 DEF Encoded, argv
  <2> QED
    BY <1>9, <2>1, Zenon
<1> QED
  BY <1>1, <1>11, <1>12, <1>13, <1>14

LEMMA SentTyped ==
  ASSUME NEW s \in Seq(Requests)
  PROVE  Sent(s) \in Seq(Tokens)
<1> DEFINE all == [i \in DOMAIN s |-> Encoded(s[i])]
<1>1. ASSUME NEW i \in DOMAIN s PROVE Encoded(s[i]) \in Seq(Tokens)
  <2>1. s[i] \in Requests
    OBVIOUS
  <2> QED
    BY <2>1, EncodedTyped
<1>2. DOMAIN s = 1 .. Len(s) /\ Len(s) \in Nat
  OBVIOUS
<1>3. all \in Seq(Seq(Tokens))
  BY <1>1, <1>2
<1> HIDE DEF all
<1>4. FlattenSeq(all) \in Seq(Tokens)
  BY <1>3, FlattenTyped
<1> QED
  BY <1>4 DEF Sent, all

-----------------------------------------------------------------------------
LEMMA NetInitially == NetInit => NetInv
<1> SUFFICES ASSUME NetInit PROVE NetInv
  OBVIOUS
<1>1. Inputs
  <2>1. ASSUME NEW c \in Clients PROVE Sent(script[c]) \in Seq(Tokens)
    <3>1. script[c] \in Scripts[c]
      BY DEF NetInit
    <3>2. script[c] \in Seq(Requests)
      BY <3>1, ScriptsAssumption, Zenon DEF Requests
    <3> QED
      BY <3>2, SentTyped
  <2>2. NewParser \in Parsers
    <3>1. <<>> \in Seq(Seq(Tokens)) /\ <<>> \in Seq(Tokens) /\ -1 \in Nat \cup {-1} /\ 0 \in Int
      OBVIOUS
    <3> QED
      BY <3>1 DEF NewParser, Parsers
  <2>3. unread = [c \in Clients |-> Sent(script[c])] /\ parser = [c \in Clients |-> NewParser]
    BY DEF NetInit
  <2> QED
    BY <2>1, <2>2, <2>3 DEF Inputs
<1>2. Outputs
  <2>1. Rest(<<>>, 0) = <<>> /\ FlattenSeq(<<>>) = <<>> /\ Len(<<>>) = 0 /\ <<>> \o <<>> = <<>>
    BY RestOfNone, FlattenNone
  <2>2. Streams({})
    BY <2>1 DEF NetInit, Streams
  <2> QED
    BY <2>2 DEF Outputs
<1>3. HandlerOK
  BY Idle DEF NetInit, HandlerOK
<1>4. TablesFinite
  BY FS_EmptySet DEF NetInit, PsInit, TablesFinite
<1> QED
  BY <1>1, <1>2, <1>3, <1>4 DEF NetInv

LEMMA AcceptKeeps ==
  ASSUME NetInv, NEW c \in Clients, AcceptHandler(c)
  PROVE  NetInv'
<1>1. UNCHANGED <<subscriptions, unread, parser, output, sentlen, running, wire>>
  BY DEF AcceptHandler, Connect, psvars
<1>2. connected' \in {connected, connected \cup {c}}
  BY DEF AcceptHandler, Connect, psvars
<1> QED
  BY <1>1, <1>2 DEF NetInv, Inputs, Outputs, Streams, HandlerOK, TablesFinite, output, subscriptions

LEMMA ReadKeeps ==
  ASSUME NetInv, NEW c \in Clients, ReadQueryFromClient(c)
  PROVE  NetInv'
<1>1. PICK n \in 1 .. Min({IobufLen, Len(unread[c])}) :
        /\ parser' = [parser EXCEPT ![c].querybuf = @ \o SubSeq(unread[c], 1, n)]
        /\ unread' = [unread EXCEPT ![c] = SubSeq(@, n + 1, Len(@))]
  BY DEF ReadQueryFromClient
<1>2. /\ unread \in [Clients -> Seq(Tokens)] /\ unread[c] \in Seq(Tokens)
      /\ parser \in [Clients -> Parsers] /\ parser[c].querybuf \in Seq(Tokens)
  BY DEF NetInv, Inputs, Parsers
<1>3. n \in 1 .. Len(unread[c])
  <2>1. IobufLen \in Nat /\ Len(unread[c]) \in Nat
    BY <1>2, SizesAssumption
  <2>2. /\ Min({IobufLen, Len(unread[c])}) \in Nat
        /\ Min({IobufLen, Len(unread[c])}) <= Len(unread[c])
    BY <2>1, LeastOfTwo, Zenon
  <2> QED
    BY <2>1, <2>2
<1>4. /\ SubSeq(unread[c], 1, n) \in Seq(Tokens)
      /\ SubSeq(unread[c], n + 1, Len(unread[c])) \in Seq(Tokens)
  BY <1>2, <1>3
<1>5. parser[c].querybuf \o SubSeq(unread[c], 1, n) \in Seq(Tokens)
  BY <1>2, <1>4, ConcatProperties, Zenon
<1>6. Inputs'
  <2>1. unread' \in [Clients -> Seq(Tokens)]
    BY <1>1, <1>2, <1>4
  <2> DEFINE buffer == parser[c].querybuf \o SubSeq(unread[c], 1, n)
  <2>2. parser' = [parser EXCEPT ![c] = [parser[c] EXCEPT !.querybuf = buffer]]
    BY <1>1
  <2>3. buffer \in Seq(Tokens)
    BY <1>5
  <2> HIDE DEF buffer
  <2>4. parser' \in [Clients -> Parsers]
    BY <1>2, <2>2, <2>3 DEF Parsers
  <2> QED
    BY <2>1, <2>4 DEF Inputs
<1>7. HandlerOK'
  BY DEF ReadQueryFromClient, HandlerOK
<1>8. Outputs' /\ TablesFinite'
  BY DEF ReadQueryFromClient, NetInv, Outputs, Streams, TablesFinite, output, psvars, subscriptions
<1> QED
  BY <1>6, <1>7, <1>8 DEF NetInv

LEMMA SendReplyKeeps ==
  ASSUME NetInv, NEW c \in Clients, SendReplyToClient(c)
  PROVE  NetInv'
<1>1. reply[c] # <<>>
  BY DEF SendReplyToClient, NetInv, Outputs, Streams
<1>2. HandlerOK'
  BY <1>1 DEF SendReplyToClient, HandlerOK, output
<1>3. Inputs' /\ Outputs' /\ TablesFinite'
  BY DEF SendReplyToClient, NetInv, Inputs, Outputs, Streams, TablesFinite, output, psvars,
     subscriptions
<1> QED
  BY <1>2, <1>3 DEF NetInv

\* Every step of the event loop keeps the invariant.
LEMMA NetStep == NetInv /\ [NetNext]_netvars => NetInv'
<1> SUFFICES ASSUME NetInv, [NetNext]_netvars PROVE NetInv'
  OBVIOUS
<1>1. CASE UNCHANGED netvars
  BY <1>1 DEF netvars, NetInv, Inputs, Outputs, Streams, HandlerOK, TablesFinite, output, psvars,
     subscriptions
<1>2. ASSUME NEW c \in Clients, AcceptHandler(c) PROVE NetInv'
  BY <1>2, AcceptKeeps
<1>3. ASSUME NEW c \in Clients, ReadQueryFromClient(c) PROVE NetInv'
  BY <1>3, ReadKeeps
<1>4. ASSUME NEW c \in Clients, SendReplyToClient(c) PROVE NetInv'
  BY <1>4, SendReplyKeeps
<1>5. ASSUME NEW c \in Clients, Handler(c) PROVE NetInv'
  BY <1>5, InputKeeps, SubscriptionArgumentKeeps, UnsubscribeAllKeeps, CommandReturnsKeeps,
     SendMoreKeeps DEF Handler
<1>6. ASSUME NEW c \in Clients, Hangup(c) \/ CloseTimedoutClients(c) \/ WriteFails(c)
      PROVE  NetInv'
  <2>1. FreeClient(c)
    BY <1>6 DEF Hangup, CloseTimedoutClients, WriteFails
  <2> QED
    BY <2>1, FreeClientKeeps
<1>7. CASE NetNext
  <2>1. PICK c \in Clients :
          \/ AcceptHandler(c) \/ ReadQueryFromClient(c) \/ SendReplyToClient(c) \/ Handler(c)
          \/ Hangup(c) \/ CloseTimedoutClients(c) \/ WriteFails(c)
    BY <1>7 DEF NetNext
  <2> QED
    BY <2>1, <1>2, <1>3, <1>4, <1>5, <1>6
<1> QED
  BY <1>1, <1>7

\* Every client's socket carries the replies of its commands, every token once
\* and in order, and its event is there exactly while replies are left: however
\* requests and replies are cut, glued and gathered, for every number of clients.
THEOREM StreamsAlwaysIntact == NetSpec => []StreamsIntact
<1>1. NetInv => StreamsIntact
  <2> SUFFICES ASSUME NetInv, NEW c \in connected
               PROVE  /\ promised[c] = wire[c] \o Rest(reply[c], sentlen[c])
                      /\ (c \in writable) = (reply[c] # <<>>)
    BY Zenon DEF StreamsIntact, Rest
  <2>1. c \in Clients
    BY DEF NetInv, TablesFinite
  <2>2. PICK S : Streams(S)
    BY DEF NetInv, Outputs
  <2>3. /\ promised[c] = wire[c] \o Rest(reply[c], sentlen[c])
        /\ (c \in writable) <=> (reply[c] # <<>>)
    BY <2>1, <2>2, Zenon DEF Streams
  <2> QED
    BY <2>3
<1> QED
  BY <1>1, NetInitially, NetStep, PTL DEF NetSpec

-----------------------------------------------------------------------------
(* Publish/subscribe: the tables of the clients and of the server stay in  *)
(* step, and therefore PUBLISH implements Broadcast.  A client may name a  *)
(* channel or a pattern that is none of Channels and Patterns: the server  *)
(* has no list for it.                                                     *)

PsTables ==
  /\ connected \subseteq Clients
  /\ DOMAIN pubsub_channels = Clients /\ DOMAIN pubsub_patterns = Clients
  /\ channel_clients \in [Channels -> [Clients -> Nat]]
  /\ pattern_clients \in [Patterns -> [Clients -> Nat]]

PsInv == PsTables /\ SubscriptionsMatch

\* What a step does to the tables: nothing, or one call for one client.
PsStep(c, name) ==
  \/ UNCHANGED <<connected, subscriptions>>
  \/ Connect(c) \/ FreeSubscriber(c)
  \/ PubsubSubscribeChannel(c, name) \/ PubsubUnsubscribeChannel(c, name)
  \/ PubsubSubscribePattern(c, name) \/ PubsubUnsubscribePattern(c, name)
  \/ PubsubUnsubscribeAllChannels(c) \/ PubsubUnsubscribeAllPatterns(c)

\* A node is added to a list of the server, if there is one.
LEMMA NodeAdded ==
  ASSUME NEW D, NEW t \in [D -> [Clients -> Nat]], NEW name, NEW c \in Clients
  PROVE  [t EXCEPT ![name][c] = @ + 1] \in [D -> [Clients -> Nat]]
<1>1. CASE name \notin D
  BY <1>1
<1>2. CASE name \in D
  <2>1. t[name][c] + 1 \in Nat
    BY <1>2
  <2> QED
    BY <1>2, <2>1
<1> QED
  BY <1>1, <1>2

\* A node that is there is removed.
LEMMA NodeRemoved ==
  ASSUME NEW D, NEW t \in [D -> [Clients -> Nat]], NEW name, NEW c \in Clients,
         name \in D => t[name][c] > 0
  PROVE  [t EXCEPT ![name][c] = @ - 1] \in [D -> [Clients -> Nat]]
<1>1. CASE name \notin D
  BY <1>1
<1>2. CASE name \in D
  <2>1. t[name][c] - 1 \in Nat
    BY <1>2
  <2> QED
    BY <1>2, <2>1
<1> QED
  BY <1>1, <1>2

\* One call keeps the tables in step, whatever it names.
LEMMA PsStepKeeps ==
  ASSUME PsInv, NEW c \in Clients, NEW name, PsStep(c, name)
  PROVE  PsInv'
<1> USE DEF PsInv, PsTables, SubscriptionsMatch
<1>1. CASE UNCHANGED <<connected, subscriptions>>
  BY <1>1 DEF subscriptions
<1>2. CASE Connect(c)
  BY <1>2 DEF Connect, subscriptions
<1>3. CASE FreeSubscriber(c)
  <2>1. PsTables'
    BY <1>3 DEF FreeSubscriber, DropSubscriptions, WithoutChannels, WithoutPatterns
  <2>2. ASSUME NEW d \in Clients, NEW ch \in Channels
        PROVE channel_clients'[ch][d] = IF ch \in pubsub_channels'[d] THEN 1 ELSE 0
    BY <1>3 DEF FreeSubscriber, DropSubscriptions, WithoutChannels
  <2>3. ASSUME NEW d \in Clients, NEW p \in Patterns
        PROVE pattern_clients'[p][d] = IF p \in pubsub_patterns'[d] THEN 1 ELSE 0
    BY <1>3 DEF FreeSubscriber, DropSubscriptions, WithoutPatterns
  <2>4. ASSUME NEW d \in Clients \ connected'
        PROVE pubsub_channels'[d] = {} /\ pubsub_patterns'[d] = {}
    BY <1>3 DEF FreeSubscriber, DropSubscriptions, WithoutChannels, WithoutPatterns
  <2> QED
    BY <2>1, <2>2, <2>3, <2>4
<1>4. CASE PubsubSubscribeChannel(c, name)
  <2>1. \/ channel_clients' = channel_clients
        \/ channel_clients' = [channel_clients EXCEPT ![name][c] = @ + 1]
    BY <1>4 DEF PubsubSubscribeChannel
  <2>2. channel_clients' \in [Channels -> [Clients -> Nat]]
    <3>1. [channel_clients EXCEPT ![name][c] = @ + 1] \in [Channels -> [Clients -> Nat]]
      BY NodeAdded
    <3> QED
      BY <2>1, <3>1
  <2>3. ASSUME NEW d \in Clients, NEW e \in Channels
        PROVE channel_clients'[e][d] = IF e \in pubsub_channels'[d] THEN 1 ELSE 0
    BY <1>4 DEF PubsubSubscribeChannel
  <2> QED
    BY <1>4, <2>2, <2>3 DEF PubsubSubscribeChannel
<1>5. CASE PubsubUnsubscribeChannel(c, name)
  <2>1. \/ channel_clients' = channel_clients
        \/ /\ channel_clients' = [channel_clients EXCEPT ![name][c] = @ - 1]
           /\ name \in Channels => channel_clients[name][c] > 0
    BY <1>5 DEF PubsubUnsubscribeChannel
  <2>2. channel_clients' \in [Channels -> [Clients -> Nat]]
    <3>1. CASE name \in Channels => channel_clients[name][c] > 0
      <4>1. [channel_clients EXCEPT ![name][c] = @ - 1] \in [Channels -> [Clients -> Nat]]
        BY <3>1, NodeRemoved
      <4> QED
        BY <2>1, <4>1
    <3> QED
      BY <2>1, <3>1
  <2>3. ASSUME NEW d \in Clients, NEW e \in Channels
        PROVE channel_clients'[e][d] = IF e \in pubsub_channels'[d] THEN 1 ELSE 0
    BY <1>5 DEF PubsubUnsubscribeChannel
  <2> QED
    BY <1>5, <2>2, <2>3 DEF PubsubUnsubscribeChannel
<1>6. CASE PubsubSubscribePattern(c, name)
  <2>1. \/ pattern_clients' = pattern_clients
        \/ pattern_clients' = [pattern_clients EXCEPT ![name][c] = @ + 1]
    BY <1>6 DEF PubsubSubscribePattern
  <2>2. pattern_clients' \in [Patterns -> [Clients -> Nat]]
    <3>1. [pattern_clients EXCEPT ![name][c] = @ + 1] \in [Patterns -> [Clients -> Nat]]
      BY NodeAdded
    <3> QED
      BY <2>1, <3>1
  <2>3. ASSUME NEW d \in Clients, NEW e \in Patterns
        PROVE pattern_clients'[e][d] = IF e \in pubsub_patterns'[d] THEN 1 ELSE 0
    BY <1>6 DEF PubsubSubscribePattern
  <2> QED
    BY <1>6, <2>2, <2>3 DEF PubsubSubscribePattern
<1>7. CASE PubsubUnsubscribePattern(c, name)
  <2>1. \/ pattern_clients' = pattern_clients
        \/ /\ pattern_clients' = [pattern_clients EXCEPT ![name][c] = @ - 1]
           /\ name \in Patterns => pattern_clients[name][c] > 0
    BY <1>7 DEF PubsubUnsubscribePattern
  <2>2. pattern_clients' \in [Patterns -> [Clients -> Nat]]
    <3>1. CASE name \in Patterns => pattern_clients[name][c] > 0
      <4>1. [pattern_clients EXCEPT ![name][c] = @ - 1] \in [Patterns -> [Clients -> Nat]]
        BY <3>1, NodeRemoved
      <4> QED
        BY <2>1, <4>1
    <3> QED
      BY <2>1, <3>1
  <2>3. ASSUME NEW d \in Clients, NEW e \in Patterns
        PROVE pattern_clients'[e][d] = IF e \in pubsub_patterns'[d] THEN 1 ELSE 0
    BY <1>7 DEF PubsubUnsubscribePattern
  <2> QED
    BY <1>7, <2>2, <2>3 DEF PubsubUnsubscribePattern
<1>8. CASE PubsubUnsubscribeAllChannels(c)
  <2>1. ASSUME NEW d \in Clients, NEW ch \in Channels
        PROVE channel_clients'[ch][d] = IF ch \in pubsub_channels'[d] THEN 1 ELSE 0
    BY <1>8 DEF PubsubUnsubscribeAllChannels, WithoutChannels
  <2> QED
    BY <1>8, <2>1 DEF PubsubUnsubscribeAllChannels, WithoutChannels
<1>9. CASE PubsubUnsubscribeAllPatterns(c)
  <2>1. ASSUME NEW d \in Clients, NEW p \in Patterns
        PROVE pattern_clients'[p][d] = IF p \in pubsub_patterns'[d] THEN 1 ELSE 0
    BY <1>9 DEF PubsubUnsubscribeAllPatterns, WithoutPatterns
  <2> QED
    BY <1>9, <2>1 DEF PubsubUnsubscribeAllPatterns, WithoutPatterns
<1> QED
  BY <1>1, <1>2, <1>3, <1>4, <1>5, <1>6, <1>7, <1>8, <1>9 DEF PsStep

LEMMA PsInitially == PsInit => PsInv
BY DEF PsInit, PsInv, PsTables, SubscriptionsMatch

\* Parsing and dispatching a request leaves the tables alone, but for QUIT.
LEMMA InputAndTables ==
  ASSUME NEW c, ProcessInputBuffer(c)
  PROVE  UNCHANGED <<connected, subscriptions>> \/ FreeSubscriber(c)
<1> DEFINE Alone == UNCHANGED <<connected, subscriptions>>
           Done0 == Alone \/ FreeSubscriber(c)
<1>1. ASSUME NEW p, Continue(c, p) \/ Refuse(c, p) \/ ProtocolError(c, p) PROVE Alone
  <2>1. UNCHANGED psvars
    BY <1>1, Zenon DEF Continue, Refuse, ProtocolError, Again
  <2> QED
    BY <2>1 DEF psvars
<1>2. ASSUME NEW p, Execute(c, p) PROVE Alone
  <2>1. \/ Refuse(c, p) \/ UNCHANGED psvars \/ Publish(c, p)
    BY <1>2, Zenon DEF Execute, Call
  <2>2. ASSUME Publish(c, p) PROVE Alone
    BY <2>2 DEF Publish, PubsubPublishMessage
  <2>3. ASSUME UNCHANGED psvars PROVE Alone
    BY <2>3 DEF psvars
  <2> QED
    BY <1>1, <2>1, <2>2, <2>3
<1>3. ASSUME FreeClient(c) PROVE Done0
  BY <1>3, Zenon DEF FreeClient
<1> HIDE DEF Alone
<1>4. ASSUME NEW p, Dispatch(c, p) PROVE Done0
  <2>1. \/ FreeClient(c) \/ Refuse(c, p) \/ ProtocolError(c, p)
        \/ (\E q : Execute(c, q)) \/ (\E q : Continue(c, q))
    BY <1>4, Zenon DEF Dispatch
  <2> QED
    BY <1>1, <1>2, <1>3, <2>1, Zenon
<1>5. ASSUME NEW p, ProcessCommand(c, p) PROVE Done0
  <2>1. \/ (\E q : Continue(c, q)) \/ (\E q : ProtocolError(c, q)) \/ (\E q : Dispatch(c, q))
    BY <1>5, Zenon DEF ProcessCommand, MultibulkCount, MultibulkLength, MultibulkArgument
  <2> HIDE DEF Done0
  <2>2. ASSUME NEW q, Continue(c, q) \/ ProtocolError(c, q) PROVE Done0
    BY <1>1, <2>2, Zenon DEF Done0
  <2> QED
    BY <1>4, <2>1, <2>2, Zenon
<1>6. HandlerReturns(c) => Alone
  BY DEF HandlerReturns, psvars, Alone
<1>7. \/ (\E q : Continue(c, q)) \/ (\E q : ProcessCommand(c, q))
      \/ FreeClient(c) \/ HandlerReturns(c)
  BY Zenon DEF ProcessInputBuffer, ProcessLine, ProcessBulk
<1>8. Done0
  BY <1>1, <1>3, <1>5, <1>6, <1>7, Zenon
<1> QED
  BY <1>8 DEF Alone

LEMMA NetPsStep == PsInv /\ [NetNext]_netvars => PsInv'
<1> SUFFICES ASSUME PsInv, [NetNext]_netvars PROVE PsInv'
  OBVIOUS
<1>1. CASE UNCHANGED netvars
  BY <1>1 DEF netvars, psvars, subscriptions, PsInv, PsTables, SubscriptionsMatch
<1>2. ASSUME NEW c \in Clients,
             \/ AcceptHandler(c) \/ ReadQueryFromClient(c) \/ SendReplyToClient(c) \/ Handler(c)
             \/ Hangup(c) \/ CloseTimedoutClients(c) \/ WriteFails(c)
      PROVE  \E name : PsStep(c, name)
  <2>1. CASE AcceptHandler(c)
    BY <2>1 DEF AcceptHandler, PsStep, psvars
  <2>2. CASE ReadQueryFromClient(c) \/ SendReplyToClient(c) \/ CommandReturns(c) \/ SendMore(c)
    BY <2>2 DEF ReadQueryFromClient, SendReplyToClient, CommandReturns, SendMore, PsStep, psvars
  <2>3. CASE ProcessInputBuffer(c)
    BY <2>3, InputAndTables DEF PsStep
  <2>4. CASE SubscriptionArgument(c)
    BY <2>4, Zenon DEF SubscriptionArgument, PsStep
  <2>5. CASE UnsubscribeAll(c)
    BY <2>5, Zenon DEF UnsubscribeAll, PsStep
  <2>6. CASE Hangup(c) \/ CloseTimedoutClients(c) \/ WriteFails(c)
    BY <2>6, Zenon DEF Hangup, CloseTimedoutClients, WriteFails, FreeClient, PsStep
  <2> QED
    BY <1>2, <2>1, <2>2, <2>3, <2>4, <2>5, <2>6 DEF Handler
<1>3. CASE NetNext
  BY <1>2, <1>3, PsStepKeeps, Zenon DEF NetNext
<1> QED
  BY <1>1, <1>3

\* The tables of the clients and of the server agree, whatever the clients send
\* and whenever they are freed.
THEOREM SubscriptionsKept == NetSpec => []SubscriptionsMatch
<1>1. PsInv => SubscriptionsMatch
  BY DEF PsInv
<1>2. NetInit => PsInv
  BY PsInitially DEF NetInit
<1> QED
  BY <1>1, <1>2, NetPsStep, PTL DEF NetSpec

LEMMA PsNextKeeps == PsInv /\ [PsNext]_psvars => PsInv'
<1> SUFFICES ASSUME PsInv, [PsNext]_psvars PROVE PsInv'
  OBVIOUS
<1>1. CASE UNCHANGED psvars
  BY <1>1 DEF psvars, subscriptions, PsInv, PsTables, SubscriptionsMatch
<1>2. ASSUME NEW ch \in Channels, NEW m \in Messages, PubsubPublishMessage(ch, m) PROVE PsInv'
  BY <1>2 DEF PubsubPublishMessage, subscriptions, PsInv, PsTables, SubscriptionsMatch
<1>3. CASE \E c \in Clients : \E name : PsStep(c, name)
  BY <1>3, PsStepKeeps
<1> QED
  BY <1>1, <1>2, <1>3, Zenon DEF PsNext, PsStep

\* A step of PUBLISH delivers what the clients' own tables ask for; every other
\* step changes the tables of one client and delivers nothing.
LEMMA BroadcastStep ==
  PsInv /\ [PsNext]_psvars
    => [B!Next]_<<pubsub_channels, pubsub_patterns, received>>
<1> SUFFICES ASSUME PsInv, PsNext
             PROVE B!Next \/ UNCHANGED <<pubsub_channels, pubsub_patterns, received>>
  BY DEF psvars, subscriptions
<1> USE DEF PsInv, PsTables
<1>1. ASSUME NEW c \in Clients,
             \/ Connect(c) \/ FreeSubscriber(c)
             \/ \E ch \in Channels :
                  PubsubSubscribeChannel(c, ch) \/ PubsubUnsubscribeChannel(c, ch)
             \/ \E p \in Patterns :
                  PubsubSubscribePattern(c, p) \/ PubsubUnsubscribePattern(c, p)
             \/ PubsubUnsubscribeAllChannels(c) \/ PubsubUnsubscribeAllPatterns(c)
      PROVE B!Change(c)
  BY <1>1 DEF B!Change, Connect, FreeSubscriber, DropSubscriptions, WithoutChannels,
       WithoutPatterns, PubsubSubscribeChannel, PubsubUnsubscribeChannel,
       PubsubSubscribePattern, PubsubUnsubscribePattern,
       PubsubUnsubscribeAllChannels, PubsubUnsubscribeAllPatterns, subscriptions
<1>2. ASSUME NEW ch \in Channels, NEW m \in Messages, PubsubPublishMessage(ch, m)
      PROVE B!Publish(ch, m)
  <2>1. ASSUME NEW c \in Clients
        PROVE {p \in MatchingPatterns(ch) : pattern_clients[p][c] > 0} = B!Matching(c, ch)
    BY MatchesAssumption DEF MatchingPatterns, B!Matching, SubscriptionsMatch
  <2>2. ASSUME NEW c \in Clients
        PROVE channel_clients[ch][c] = IF ch \in pubsub_channels[c] THEN 1 ELSE 0
    BY DEF SubscriptionsMatch
  <2>3. ASSUME NEW c \in Clients
        PROVE Receives(c, ch) <=> (ch \in pubsub_channels[c] \/ B!Matching(c, ch) # {})
    BY <2>1, <2>2 DEF Receives
  <2>4. ASSUME NEW c \in Clients
        PROVE Delivery(c, ch, m) = [message |-> m,
                                    copies |-> IF ch \in pubsub_channels[c] THEN 1 ELSE 0,
                                    patterns |-> B!Matching(c, ch)]
    BY <2>1, <2>2 DEF Delivery
  <2> QED
    BY <1>2, <2>3, <2>4 DEF PubsubPublishMessage, B!Publish, subscriptions
<1> QED
  BY <1>1, <1>2 DEF PsNext, B!Next

\* Publish/subscribe with its double bookkeeping implements the broadcast in
\* which every client receives what it has subscribed to.
THEOREM PubSubBroadcasts == PsSpec => ImplementsBroadcast
<1>1. PsInit => B!Init
  BY DEF PsInit, B!Init
<1> QED
  BY <1>1, PsInitially, PsNextKeeps, BroadcastStep, PTL
  DEF PsSpec, ImplementsBroadcast, B!Spec

=============================================================================
