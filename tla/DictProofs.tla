----------------------------- MODULE DictProofs -----------------------------
(***************************************************************************)
(* Proofs about Dict: whatever the keys, the hash function and the table   *)
(* sizes, every interleaving of calls, iterators and cron keeps the tables *)
(* sound, so the unbounded scan inside dictRehash stays inside ht[0].      *)
(* The second half is about what an iterator can rely on, and shows that   *)
(* a dict is a map: what each operation does to the set of entries and     *)
(* leaves alone under an open iterator, the walk over the buckets, and the *)
(* refinement.                                                             *)
(***************************************************************************)
EXTENDS Dict, InductionFacts, FiniteSetTheorems, TLAPS

(* _dictNextPower returns a capacity that is large enough.                 *)
LEMMA NextPowerFits ==
  ASSUME NEW n \in Nat, \E s \in Sizes : s >= n
  PROVE  NextPower(n) \in Sizes /\ NextPower(n) >= n
<1> DEFINE Big == {s \in Sizes : s >= n}
<1>1. Big \subseteq Nat /\ Big # {}
  BY SizesAssumption
<1>2. PICK m \in Big : \A t \in Big : m <= t
  BY <1>1, LeastElement
<1>3. m \in Sizes /\ m >= n /\ \A t \in Sizes : t >= n => m <= t
  BY <1>2
<1> QED
  BY <1>3 DEF NextPower

(* The fields of a table.                                                  *)
LEMMA HtFields ==
  ASSUME NEW h, HtOK(h)
  PROVE  /\ h.size \in Sizes \cup {0}
         /\ h.size \in Nat
         /\ h.table \in [Slots(h) -> SUBSET Keys]
         /\ h.used \in Nat
         /\ h = [size |-> h.size, table |-> h.table, used |-> h.used]
BY SizesAssumption DEF HtOK, Slots

(* And what a record with such fields is.                                  *)
LEMMA HtIntro ==
  ASSUME NEW n \in Sizes \cup {0}, NEW f \in [0 .. n - 1 -> SUBSET Keys],
         NEW u \in Nat
  PROVE  HtOK([size |-> n, table |-> f, used |-> u])
BY DEF HtOK

LEMMA EntriesFinite ==
  ASSUME NEW h, HtOK(h)
  PROVE  /\ Entries(h) \subseteq Keys
         /\ IsFiniteSet(Entries(h))
         /\ Cardinality(Entries(h)) <= Cardinality(Keys)
<1>1. Entries(h) \subseteq Keys
  BY HtFields DEF Entries
<1> QED
  BY <1>1, KeysAssumption, FS_Subset

(* A key hashes into a table that has slots.                               *)
LEMMA IndexInRange ==
  ASSUME NEW h, HtOK(h), h.size # 0, NEW k \in Keys
  PROVE  Index(h, k) \in Slots(h)
<1>1. h.size \in Nat \ {0}
  BY HtFields
<1>2. Hash[k] \in Nat
  BY HashAssumption
<1>3. \A a \in Nat, b \in Nat \ {0} : a % b \in 0 .. b - 1
  OBVIOUS
<1> QED
  BY <1>1, <1>2, <1>3 DEF Index, Slots

(* The entries of both tables.                                             *)
All(x) == Entries(x.ht0) \cup Entries(x.ht1)

(* A lookup in the bucket of a key finds it wherever it is in the table.   *)
LEMMA InTableIffEntry ==
  ASSUME NEW h, HtOK(h), WellPlaced(h), NEW k \in Keys
  PROVE  InTable(h, k) <=> k \in Entries(h)
<1>1. CASE h.size = 0
  BY <1>1, HtFields DEF InTable, Entries, Slots
<1>2. CASE h.size # 0
  <2>1. Index(h, k) \in Slots(h)
    BY <1>2, IndexInRange
  <2>2. InTable(h, k) => k \in Entries(h)
    BY <2>1, HtFields DEF InTable, Entries
  <2>3. k \in Entries(h) => InTable(h, k)
    BY <1>2 DEF WellPlaced, Entries, InTable
  <2> QED
    BY <2>2, <2>3
<1> QED
  BY <1>1, <1>2

(* A new table is empty and sound.                                         *)
LEMMA NewHtSound ==
  ASSUME NEW n \in Sizes \cup {0}
  PROVE  /\ HtOK(NewHt(n)) /\ WellPlaced(NewHt(n)) /\ WellCounted(NewHt(n))
         /\ Entries(NewHt(n)) = {}
         /\ NewHt(n).size = n /\ NewHt(n).used = 0
<1>1. HtOK(NewHt(n))
  BY HtIntro DEF NewHt
<1>2. Entries(NewHt(n)) = {}
  BY DEF Entries, NewHt, Slots
<1>3. WellPlaced(NewHt(n))
  BY DEF WellPlaced, NewHt, Slots
<1>4. WellCounted(NewHt(n))
  BY <1>2, FS_EmptySet DEF WellCounted, NewHt
<1> QED
  BY <1>1, <1>2, <1>3, <1>4 DEF NewHt

LEMMA EmptyHtSound ==
  /\ HtOK(EmptyHt) /\ WellPlaced(EmptyHt) /\ WellCounted(EmptyHt)
  /\ Entries(EmptyHt) = {} /\ EmptyHt.size = 0 /\ EmptyHt.used = 0
<1>1. EmptyHt = NewHt(0)
  <2>1. 0 .. 0 - 1 = {}
    OBVIOUS
  <2>2. [i \in {} |-> {}] = [i \in 0 .. 0 - 1 |-> {}]
    BY <2>1
  <2> QED
    BY <2>2 DEF EmptyHt, NewHt
<1> QED
  BY <1>1, NewHtSound

(* Linking a key that is not in the table.                                 *)
LEMMA InsertSound ==
  ASSUME NEW h, HtOK(h), WellPlaced(h), WellCounted(h), h.size # 0,
         NEW k \in Keys, k \notin Entries(h)
  PROVE  /\ HtOK(Insert(h, k)) /\ WellPlaced(Insert(h, k))
         /\ WellCounted(Insert(h, k))
         /\ Entries(Insert(h, k)) = Entries(h) \cup {k}
         /\ Insert(h, k).size = h.size
<1> DEFINE b == Index(h, k)
           f == [h.table EXCEPT ![b] = @ \cup {k}]
           g == Insert(h, k)
<1>0. b \in Slots(h) /\ h.table \in [Slots(h) -> SUBSET Keys]
  BY IndexInRange, HtFields
<1>1. g = [size |-> h.size, table |-> f, used |-> h.used + 1]
  BY DEF Insert
<1>2. f \in [Slots(h) -> SUBSET Keys]
  BY <1>0
<1>4. \A i \in Slots(h) : f[i] = IF i = b THEN h.table[i] \cup {k} ELSE h.table[i]
  BY <1>0
<1> HIDE DEF b, f, g
<1>3. HtOK(g)
  BY <1>1, <1>2, HtFields, HtIntro DEF Slots
<1>5. Slots(g) = Slots(h) /\ \A x : Index(g, x) = Index(h, x)
  BY <1>1 DEF Slots, Index
<1>6. WellPlaced(g)
  BY <1>1, <1>4, <1>5, ZenonT(30) DEF WellPlaced, b
<1>7. Entries(g) = Entries(h) \cup {k}
  <2>1. \A i \in Slots(h) : g.table[i] = f[i]
    BY <1>1
  <2>2. ASSUME NEW x \in Entries(g) PROVE x \in Entries(h) \cup {k}
    BY <1>4, <1>5, <2>1, ZenonT(30) DEF Entries
  <2>3. ASSUME NEW x \in Entries(h) \cup {k} PROVE x \in Entries(g)
    <3>1. PICK i \in Slots(h) : x \in f[i]
      BY <1>0, <1>4 DEF Entries
    <3> QED
      BY <1>5, <2>1, <3>1 DEF Entries
  <2> QED
    BY <2>2, <2>3
<1>8. Cardinality(Entries(g)) = Cardinality(Entries(h)) + 1
  <2>1. IsFiniteSet(Entries(h))
    BY EntriesFinite
  <2> QED
    BY <1>7, <2>1, FS_AddElement
<1>9. WellCounted(g)
  BY <1>1, <1>8 DEF WellCounted
<1> QED
  BY <1>1, <1>3, <1>6, <1>7, <1>9 DEF g

(* Unlinking a key that is in the table.                                   *)
LEMMA UnlinkSound ==
  ASSUME NEW h, HtOK(h), WellPlaced(h), WellCounted(h),
         NEW k \in Keys, InTable(h, k)
  PROVE  /\ HtOK(Unlink(h, k)) /\ WellPlaced(Unlink(h, k))
         /\ WellCounted(Unlink(h, k))
         /\ Entries(Unlink(h, k)) = Entries(h) \ {k}
         /\ Unlink(h, k).size = h.size
         /\ \A i \in Slots(h) : Unlink(h, k).table[i] \subseteq h.table[i]
<1> DEFINE b == Index(h, k)
           f == [h.table EXCEPT ![b] = @ \ {k}]
           g == Unlink(h, k)
<1>0. b \in Slots(h) /\ h.table \in [Slots(h) -> SUBSET Keys]
  BY IndexInRange, HtFields DEF InTable
<1>1. g = [size |-> h.size, table |-> f, used |-> h.used - 1]
  BY DEF Unlink
<1>2. f \in [Slots(h) -> SUBSET Keys]
  BY <1>0
<1>4. \A i \in Slots(h) : f[i] = IF i = b THEN h.table[i] \ {k} ELSE h.table[i]
  BY <1>0
<1>a. k \in Entries(h)
  BY InTableIffEntry
<1>b. IsFiniteSet(Entries(h)) /\ Cardinality(Entries(h)) \in Nat
  BY EntriesFinite, FS_CardinalityType
<1>c. Cardinality(Entries(h)) # 0
  BY <1>a, <1>b, FS_EmptySet
<1>d. h.used - 1 \in Nat
  BY <1>b, <1>c DEF WellCounted
<1> HIDE DEF b, f, g
<1>3. HtOK(g)
  BY <1>1, <1>2, <1>d, HtFields, HtIntro DEF Slots
<1>5. Slots(g) = Slots(h) /\ \A x : Index(g, x) = Index(h, x)
  BY <1>1 DEF Slots, Index
<1>6. WellPlaced(g)
  BY <1>1, <1>4, <1>5 DEF WellPlaced, b
<1>7. Entries(g) = Entries(h) \ {k}
  <2>1. \A i \in Slots(h) : i # b => k \notin h.table[i]
    BY DEF WellPlaced, b
  <2>2. \A i \in Slots(h) : f[i] = h.table[i] \ {k}
    BY <1>4, <2>1
  <2> QED
    BY <1>1, <1>5, <2>2 DEF Entries
<1>8. Cardinality(Entries(g)) = Cardinality(Entries(h)) - 1
  BY <1>7, <1>a, <1>b, FS_RemoveElement
<1>9. WellCounted(g)
  BY <1>1, <1>8 DEF WellCounted
<1>10. \A i \in Slots(h) : g.table[i] \subseteq h.table[i]
  BY <1>1, <1>4
<1> QED
  BY <1>1, <1>3, <1>6, <1>7, <1>9, <1>10 DEF g

(***************************************************************************)
(* The rehash.                                                             *)
(***************************************************************************)

(* As long as ht[0] holds an entry, some chain lies at or after the cursor.*)
LEMMA SoundHasChain ==
  ASSUME NEW x, DictOK(x), Sound(x)
  PROVE  ChainAhead(x)
<1> SUFFICES ASSUME Rehashing(x), x.ht0.used # 0
             PROVE  \E i \in x.rehashidx .. x.ht0.size - 1 : x.ht0.table[i] # {}
  BY DEF ChainAhead
<1>1. HtOK(x.ht0) /\ x.rehashidx \in Nat
  BY DEF DictOK, Rehashing
<1>2. Cardinality(Entries(x.ht0)) # 0
  BY DEF Sound, WellCounted
<1>3. Entries(x.ht0) # {}
  BY <1>2, FS_EmptySet
<1>4. PICK i \in Slots(x.ht0) : x.ht0.table[i] # {}
  BY <1>3 DEF Entries
<1>5. i \in x.rehashidx .. x.ht0.size - 1
  <2>1. ~ (i < x.rehashidx)
    BY <1>4 DEF Sound, CursorOK
  <2> QED
    BY <1>1, <2>1, HtFields DEF Slots
<1> QED
  BY <1>4, <1>5

(* dictRehash finds the first of these chains.                             *)
LEMMA FirstNonEmptyFits ==
  ASSUME NEW x, DictOK(x), Sound(x), Rehashing(x), x.ht0.used # 0
  PROVE  FirstNonEmpty(x) \in x.rehashidx .. x.ht0.size - 1
<1> DEFINE Chains == {i \in x.rehashidx .. x.ht0.size - 1 : x.ht0.table[i] # {}}
<1>1. x.rehashidx \in Nat /\ x.ht0.size \in Nat
  BY HtFields DEF DictOK, Rehashing
<1>2. Chains \subseteq Nat /\ Chains # {}
  BY <1>1, SoundHasChain DEF ChainAhead
<1>3. PICK m \in Chains : \A i \in Chains : m <= i
  BY <1>2, LeastElement
<1>4. \A i \in x.rehashidx .. m - 1 : x.ht0.table[i] = {}
  BY <1>1, <1>3
<1>5. m \in x.rehashidx .. x.ht0.size - 1 /\ x.ht0.table[m] # {}
  OBVIOUS
<1> QED
  BY <1>4, <1>5 DEF FirstNonEmpty

(* Moving chains from ht[0] to ht[1] keeps both tables sound.              *)
LEMMA MoveToSound ==
  ASSUME NEW x, DictOK(x), Sound(x), Rehashing(x),
         NEW j \in x.rehashidx .. x.ht0.size - 1
  PROVE  /\ DictOK(MoveTo(x, j)) /\ Sound(MoveTo(x, j))
         /\ Rehashing(MoveTo(x, j))
         /\ MoveTo(x, j).rehashidx = j + 1
         /\ MoveTo(x, j).ht0.size = x.ht0.size
         /\ All(MoveTo(x, j)) = All(x)
<1> DEFINE moved == Moved(x, j)
           range == x.rehashidx .. j
           f0 == [i \in Slots(x.ht0) |-> IF i \in range THEN {} ELSE x.ht0.table[i]]
           f1 == [i \in Slots(x.ht1) |->
                    x.ht1.table[i] \cup {k \in moved : Index(x.ht1, k) = i}]
           g0 == [size |-> x.ht0.size, table |-> f0,
                  used |-> x.ht0.used - Cardinality(moved)]
           g1 == [size |-> x.ht1.size, table |-> f1,
                  used |-> x.ht1.used + Cardinality(moved)]
           E0 == Entries(x.ht0)
           E1 == Entries(x.ht1)
<1>1. /\ x.rehashidx \in Nat /\ HtOK(x.ht0) /\ HtOK(x.ht1)
      /\ x.ht0.size # 0 /\ x.ht1.size # 0
      /\ x.ht0.size \in Nat /\ x.ht1.size \in Nat
  BY HtFields DEF DictOK, Rehashing, Sound, CursorOK
<1>2. MoveTo(x, j) = [ht0 |-> g0, ht1 |-> g1, rehashidx |-> j + 1]
  BY DEF MoveTo
<1>3. range \subseteq Slots(x.ht0)
  BY <1>1 DEF Slots
<1>4. /\ moved \subseteq E0 /\ moved \subseteq Keys
      /\ IsFiniteSet(E0) /\ IsFiniteSet(moved) /\ IsFiniteSet(E1)
  <2>1. moved \subseteq E0
    BY <1>3 DEF Moved, Entries
  <2>2. E0 \subseteq Keys /\ IsFiniteSet(E0) /\ IsFiniteSet(E1)
    BY <1>1, EntriesFinite
  <2> QED
    BY <2>1, <2>2, FS_Subset
<1>5. /\ Cardinality(moved) \in Nat /\ Cardinality(E0) \in Nat
      /\ Cardinality(E1) \in Nat
  BY <1>4, FS_CardinalityType
<1>6. Slots(g0) = Slots(x.ht0) /\ Slots(g1) = Slots(x.ht1)
  BY DEF Slots
<1>7. \A i \in Slots(x.ht0) : \A k \in x.ht0.table[i] : k \in moved <=> i \in range
  <2>1. ASSUME NEW i \in Slots(x.ht0), NEW k \in x.ht0.table[i], k \in moved
        PROVE  i \in range
    <3>1. PICK r \in range : k \in x.ht0.table[r]
      BY <2>1 DEF Moved
    <3>2. Index(x.ht0, k) = i /\ Index(x.ht0, k) = r
      BY <1>3, <3>1 DEF Sound, WellPlaced
    <3> QED
      BY <3>2
  <2>2. ASSUME NEW i \in range, NEW k \in x.ht0.table[i] PROVE k \in moved
    BY DEF Moved
  <2> QED
    BY <2>1, <2>2
<1>8. Entries(g0) = E0 \ moved
  <2>1. ASSUME NEW k \in Entries(g0) PROVE k \in E0 \ moved
    <3>1. PICK i \in Slots(x.ht0) : k \in f0[i]
      BY <1>6 DEF Entries
    <3>2. i \notin range /\ k \in x.ht0.table[i]
      BY <3>1
    <3> QED
      BY <1>7, <3>2 DEF Entries
  <2>2. ASSUME NEW k \in E0 \ moved PROVE k \in Entries(g0)
    <3>1. PICK i \in Slots(x.ht0) : k \in x.ht0.table[i]
      BY DEF Entries
    <3>2. i \notin range
      BY <1>7, <3>1
    <3> QED
      BY <1>6, <3>1, <3>2 DEF Entries
  <2> QED
    BY <2>1, <2>2
<1>9. Entries(g1) = E1 \cup moved
  <2>1. ASSUME NEW k \in Entries(g1) PROVE k \in E1 \cup moved
    BY <1>6 DEF Entries
  <2>2. ASSUME NEW k \in E1 PROVE k \in Entries(g1)
    <3>1. PICK i \in Slots(x.ht1) : k \in x.ht1.table[i]
      BY DEF Entries
    <3>2. k \in f1[i]
      BY <3>1
    <3> QED
      BY <1>6, <3>1, <3>2 DEF Entries
  <2>3. ASSUME NEW k \in moved PROVE k \in Entries(g1)
    <3>1. Index(x.ht1, k) \in Slots(x.ht1)
      BY <1>1, <1>4, IndexInRange
    <3>2. k \in f1[Index(x.ht1, k)]
      BY <3>1
    <3> QED
      BY <1>6, <3>1, <3>2 DEF Entries
  <2> QED
    BY <2>1, <2>2, <2>3
<1>10. WellPlaced(g0)
  <2>1. \A k : Index(g0, k) = Index(x.ht0, k)
    BY DEF Index
  <2>2. ASSUME NEW i \in Slots(x.ht0), NEW k \in f0[i] PROVE Index(x.ht0, k) = i
    <3>1. k \in x.ht0.table[i]
      OBVIOUS
    <3> QED
      BY <3>1 DEF Sound, WellPlaced
  <2> QED
    BY <1>6, <2>1, <2>2 DEF WellPlaced
<1>11. WellPlaced(g1)
  <2>1. \A k : Index(g1, k) = Index(x.ht1, k)
    BY DEF Index
  <2>2. ASSUME NEW i \in Slots(x.ht1), NEW k \in f1[i] PROVE Index(x.ht1, k) = i
    <3>1. CASE k \in x.ht1.table[i]
      BY <3>1 DEF Sound, WellPlaced
    <3>2. CASE k \in moved /\ Index(x.ht1, k) = i
      BY <3>2
    <3> QED
      BY <3>1, <3>2
  <2> QED
    BY <1>6, <2>1, <2>2 DEF WellPlaced
<1>12. WellCounted(g0) /\ g0.used \in Nat
  <2>1. IsFiniteSet(E0 \ moved)
    BY <1>4, FS_Subset
  <2>2. Cardinality(E0 \ moved) = Cardinality(E0) - Cardinality(E0 \cap moved)
    BY <1>4, FS_Difference
  <2>3. E0 \cap moved = moved
    BY <1>4
  <2>4. Cardinality(E0 \ moved) \in Nat
    BY <2>1, FS_CardinalityType
  <2>5. x.ht0.used = Cardinality(E0)
    BY DEF Sound, WellCounted
  <2> QED
    BY <1>8, <2>2, <2>3, <2>4, <2>5 DEF WellCounted
<1>13. WellCounted(g1) /\ g1.used \in Nat
  <2>1. E1 \cap moved = {}
    BY <1>4 DEF Sound
  <2>2. Cardinality(E1 \cup moved)
          = Cardinality(E1) + Cardinality(moved) - Cardinality(E1 \cap moved)
    BY <1>4, FS_Union
  <2>3. Cardinality(E1 \cap moved) = 0
    BY <2>1, FS_EmptySet
  <2>4. x.ht1.used = Cardinality(E1)
    BY DEF Sound, WellCounted
  <2>5. g1.used = Cardinality(E1) + Cardinality(moved)
    BY <2>4
  <2> HIDE DEF g1, E1, moved
  <2> QED
    BY <1>5, <1>9, <2>2, <2>3, <2>5 DEF WellCounted
<1>14. HtOK(g0)
  <2>1. f0 \in [0 .. x.ht0.size - 1 -> SUBSET Keys]
    BY <1>1, HtFields DEF Slots
  <2> QED
    BY <1>1, <1>12, <2>1, HtFields, HtIntro
<1>15. HtOK(g1)
  <2>1. f1 \in [0 .. x.ht1.size - 1 -> SUBSET Keys]
    BY <1>1, <1>4, HtFields DEF Slots
  <2> QED
    BY <1>1, <1>13, <2>1, HtFields, HtIntro
<1>16. Entries(g0) \cap Entries(g1) = {}
  BY <1>4, <1>8, <1>9 DEF Sound
<1>17. /\ j + 1 \in Nat /\ j + 1 <= x.ht0.size
       /\ \A i \in Slots(x.ht0) : i < j + 1 => f0[i] = {}
  <2>1. j \in Nat /\ j + 1 <= x.ht0.size
    BY <1>1
  <2>2. ASSUME NEW i \in Slots(x.ht0), i < j + 1 PROVE f0[i] = {}
    <3>1. CASE i \in range
      BY <3>1
    <3>2. CASE i \notin range
      <4>1. i < x.rehashidx
        BY <1>1, <2>1, <2>2, <3>2 DEF Slots
      <4> QED
        BY <3>2, <4>1 DEF Sound, CursorOK
    <3> QED
      BY <3>1, <3>2
  <2> QED
    BY <2>1, <2>2
<1> HIDE DEF f0, f1
<1>18. CursorOK(MoveTo(x, j)) /\ Rehashing(MoveTo(x, j))
  BY <1>1, <1>2, <1>6, <1>17 DEF CursorOK, Rehashing
<1>19. DictOK(MoveTo(x, j))
  BY <1>2, <1>14, <1>15, <1>17 DEF DictOK
<1>20. Sound(MoveTo(x, j))
  BY <1>2, <1>10, <1>11, <1>12, <1>13, <1>16, <1>18 DEF Sound
<1>21. All(MoveTo(x, j)) = All(x)
  BY <1>2, <1>4, <1>8, <1>9 DEF All
<1> QED
  BY <1>2, <1>18, <1>19, <1>20, <1>21

(* The swap at the end of a rehash.                                        *)
LEMMA FinishSound ==
  ASSUME NEW x, DictOK(x), Sound(x)
  PROVE  DictOK(Finish(x)) /\ Sound(Finish(x))
BY EmptyHtSound DEF Finish, DictOK, Sound, CursorOK, Rehashing

(* dictRehash(d,1), and the step lookups and updates take.                 *)
LEMMA RehashOneSound ==
  ASSUME NEW x, DictOK(x), Sound(x)
  PROVE  DictOK(RehashOne(x)) /\ Sound(RehashOne(x))
<1>1. CASE ~ Rehashing(x)
  BY <1>1 DEF RehashOne
<1>2. CASE Rehashing(x) /\ x.ht0.used = 0
  BY <1>2, FinishSound DEF RehashOne
<1>3. CASE Rehashing(x) /\ x.ht0.used # 0
  BY <1>3, FirstNonEmptyFits, MoveToSound DEF RehashOne
<1> QED
  BY <1>1, <1>2, <1>3

LEMMA RehashStepSound ==
  ASSUME NEW x, DictOK(x), Sound(x)
  PROVE  DictOK(RehashStep(x)) /\ Sound(RehashStep(x))
BY RehashOneSound DEF RehashStep

(* dictExpand, for any size some capacity can hold.                        *)
LEMMA ExpandSound ==
  ASSUME NEW x, DictOK(x), Sound(x), NEW n \in Nat, \E s \in Sizes : s >= n
  PROVE  DictOK(Expand(x, n)) /\ Sound(Expand(x, n))
<1> DEFINE h == NewHt(NextPower(n))
<1>1. NextPower(n) \in Sizes /\ NextPower(n) # 0
  BY NextPowerFits, SizesAssumption
<1>2. /\ HtOK(h) /\ WellPlaced(h) /\ WellCounted(h)
      /\ Entries(h) = {} /\ h.size # 0
  BY <1>1, NewHtSound
<1> HIDE DEF h
<1>3. CASE ExpandRefused(x, n)
  BY <1>3 DEF Expand
<1>4. CASE ~ ExpandRefused(x, n) /\ x.ht0.size = 0
  <2>1. Expand(x, n) = [ht0 |-> h, ht1 |-> x.ht1, rehashidx |-> x.rehashidx]
    BY <1>4 DEF Expand, h, DictOK
  <2>2. x.ht1 = EmptyHt /\ x.rehashidx = -1
    BY <1>4 DEF ExpandRefused, Sound, CursorOK, Rehashing
  <2> QED
    BY <1>2, <2>1, <2>2, EmptyHtSound DEF DictOK, Sound, CursorOK, Rehashing
<1>5. CASE ~ ExpandRefused(x, n) /\ x.ht0.size # 0
  <2>1. Expand(x, n) = [ht0 |-> x.ht0, ht1 |-> h, rehashidx |-> 0]
    BY <1>5 DEF Expand, h, DictOK
  <2>2. x.ht0.size \in Nat
    BY HtFields DEF DictOK
  <2>3. \A i \in Slots(x.ht0) : ~ (i < 0)
    BY <2>2 DEF Slots
  <2>4. DictOK(Expand(x, n))
    BY <1>2, <2>1 DEF DictOK
  <2>5. CursorOK(Expand(x, n))
    BY <1>2, <1>5, <2>1, <2>2, <2>3 DEF CursorOK, Rehashing
  <2> QED
    BY <1>2, <2>1, <2>4, <2>5 DEF Sound
<1> QED
  BY <1>3, <1>4, <1>5

(* No table asked for is larger than twice the number of keys, or than the *)
(* initial size.                                                           *)
LEMMA SizeExists ==
  ASSUME NEW n \in Nat, n <= 2 * Cardinality(Keys) \/ n = InitialSize
  PROVE  \E s \in Sizes : s >= n
<1>1. Cardinality(Keys) \in Nat
  BY KeysAssumption, FS_CardinalityType
<1>2. CASE n = InitialSize
  BY <1>2, SizesAssumption
<1>3. CASE n <= 2 * Cardinality(Keys)
  <2>1. PICK s \in Sizes : s >= 2 * Cardinality(Keys)
    BY SizesAssumption
  <2>2. s \in Nat /\ s >= n
    BY <1>1, <1>3, <2>1, SizesAssumption
  <2> QED
    BY <2>2
<1> QED
  BY <1>2, <1>3

LEMMA UsedBounded ==
  ASSUME NEW x, DictOK(x), Sound(x)
  PROVE  /\ x.ht0.used \in Nat /\ x.ht1.used \in Nat
         /\ x.ht0.used <= Cardinality(Keys)
         /\ Cardinality(Keys) \in Nat
<1>1. HtOK(x.ht0) /\ HtOK(x.ht1)
  BY DEF DictOK
<1>2. x.ht0.used = Cardinality(Entries(x.ht0))
  BY DEF Sound, WellCounted
<1> QED
  BY <1>1, <1>2, EntriesFinite, HtFields, KeysAssumption, FS_CardinalityType

(* The size that dictResize asks for is one of them.                       *)
LEMMA MinimalFits ==
  ASSUME NEW x, DictOK(x), Sound(x)
  PROVE  Minimal(x) \in Nat /\ \E s \in Sizes : s >= Minimal(x)
<1>1. /\ x.ht0.used \in Nat /\ x.ht0.used <= 2 * Cardinality(Keys)
      /\ InitialSize \in Nat
  BY UsedBounded, SizesAssumption
<1>2. Minimal(x) \in Nat /\ (Minimal(x) <= 2 * Cardinality(Keys) \/ Minimal(x) = InitialSize)
  BY <1>1 DEF Minimal
<1> QED
  BY <1>2, SizeExists

LEMMA ExpandIfNeededSound ==
  ASSUME NEW x, DictOK(x), Sound(x)
  PROVE  DictOK(ExpandIfNeeded(x)) /\ Sound(ExpandIfNeeded(x))
<1>1. CASE ~ NeedsExpand(x)
  BY <1>1 DEF ExpandIfNeeded
<1>2. CASE NeedsExpand(x)
  <2>1. ExpandSize(x) \in Nat /\ \E s \in Sizes : s >= ExpandSize(x)
    <3>1. CASE x.ht0.size = 0
      BY <3>1, SizesAssumption, SizeExists DEF ExpandSize
    <3>2. CASE x.ht0.size # 0
      <4>1. /\ 2 * x.ht0.used \in Nat
            /\ 2 * x.ht0.used <= 2 * Cardinality(Keys)
        BY UsedBounded
      <4> QED
        BY <3>2, <4>1, SizeExists DEF ExpandSize
    <3> QED
      BY <3>1, <3>2
  <2> QED
    BY <1>2, <2>1, ExpandSound DEF ExpandIfNeeded
<1> QED
  BY <1>1, <1>2

(* After _dictExpandIfNeeded there is a table to put an entry in.          *)
LEMMA ExpandedHasSlots ==
  ASSUME NEW x, DictOK(x), Sound(x)
  PROVE  /\ ExpandIfNeeded(x).ht0.size # 0
         /\ Rehashing(ExpandIfNeeded(x)) => ExpandIfNeeded(x).ht1.size # 0
<1> DEFINE y == ExpandIfNeeded(x)
<1>1. Sound(y)
  BY ExpandIfNeededSound
<1>2. Rehashing(y) => y.ht0.size # 0 /\ y.ht1.size # 0
  BY <1>1 DEF Sound, CursorOK
<1>3. CASE x.ht0.size # 0
  <2>1. y.ht0.size = x.ht0.size
    BY <1>3 DEF ExpandIfNeeded, Expand, DictOK
  <2> QED
    BY <1>2, <1>3, <2>1
<1>4. CASE x.ht0.size = 0
  <2>1. ~ Rehashing(x)
    BY <1>4 DEF Sound, CursorOK
  <2>2. NeedsExpand(x) /\ ExpandSize(x) = InitialSize
    BY <1>4, <2>1 DEF NeedsExpand, ExpandSize
  <2>3. x.ht0.used = 0
    <3>1. Entries(x.ht0) = {}
      BY <1>4 DEF Entries, Slots
    <3> QED
      BY <3>1, FS_EmptySet DEF Sound, WellCounted
  <2>4. InitialSize \in Nat /\ ~ ExpandRefused(x, InitialSize)
    BY <2>1, <2>3, SizesAssumption DEF ExpandRefused
  <2>5. y = [x EXCEPT !.ht0 = NewHt(NextPower(InitialSize))]
    BY <1>4, <2>2, <2>4 DEF ExpandIfNeeded, Expand
  <2>6. NextPower(InitialSize) \in Sizes
    BY <2>4, SizesAssumption, NextPowerFits
  <2>7. y.ht0.size # 0
    BY <2>5, <2>6, NewHtSound, SizesAssumption DEF DictOK
  <2> QED
    BY <1>2, <2>7
<1> QED
  BY <1>3, <1>4

(***************************************************************************)
(* The calls.                                                              *)
(***************************************************************************)

LEMMA LookupIffPresent ==
  ASSUME NEW x, DictOK(x), Sound(x), NEW k \in Keys
  PROVE  Lookup(x, k) <=> k \in Entries(x.ht0) \cup Entries(x.ht1)
<1>1. /\ InTable(x.ht0, k) <=> k \in Entries(x.ht0)
      /\ InTable(x.ht1, k) <=> k \in Entries(x.ht1)
  BY InTableIffEntry DEF DictOK, Sound
<1>2. ~ Rehashing(x) => Entries(x.ht1) = {}
  BY EmptyHtSound DEF Sound, CursorOK
<1> QED
  BY <1>1, <1>2 DEF Lookup

LEMMA LinkSound ==
  ASSUME NEW x, DictOK(x), Sound(x), NEW k \in Keys, ~ Lookup(x, k),
         x.ht0.size # 0
  PROVE  DictOK(Link(x, k)) /\ Sound(Link(x, k))
<1>1. k \notin Entries(x.ht0) /\ k \notin Entries(x.ht1)
  BY LookupIffPresent
<1>2. CASE Rehashing(x)
  <2> DEFINE g == Insert(x.ht1, k)
  <2>1. x.ht1.size # 0 /\ HtOK(x.ht1) /\ WellPlaced(x.ht1) /\ WellCounted(x.ht1)
    BY <1>2 DEF Sound, CursorOK, DictOK
  <2>2. /\ HtOK(g) /\ WellPlaced(g) /\ WellCounted(g)
        /\ Entries(g) = Entries(x.ht1) \cup {k} /\ g.size = x.ht1.size
    BY <1>1, <2>1, InsertSound
  <2>3. Link(x, k) = [ht0 |-> x.ht0, ht1 |-> g, rehashidx |-> x.rehashidx]
    BY <1>2 DEF Link, DictOK
  <2> HIDE DEF g
  <2> QED
    BY <1>1, <1>2, <2>1, <2>2, <2>3 DEF DictOK, Sound, CursorOK, Rehashing
<1>3. CASE ~ Rehashing(x)
  <2> DEFINE g == Insert(x.ht0, k)
  <2>1. HtOK(x.ht0) /\ WellPlaced(x.ht0) /\ WellCounted(x.ht0)
    BY DEF Sound, DictOK
  <2>2. /\ HtOK(g) /\ WellPlaced(g) /\ WellCounted(g)
        /\ Entries(g) = Entries(x.ht0) \cup {k} /\ g.size = x.ht0.size
    BY <1>1, <2>1, InsertSound
  <2>3. Link(x, k) = [ht0 |-> g, ht1 |-> x.ht1, rehashidx |-> x.rehashidx]
    BY <1>3 DEF Link, DictOK
  <2> HIDE DEF g
  <2> QED
    BY <1>1, <1>3, <2>2, <2>3 DEF DictOK, Sound, CursorOK, Rehashing
<1> QED
  BY <1>2, <1>3

LEMMA DropEntrySound ==
  ASSUME NEW x, DictOK(x), Sound(x), NEW k \in Keys, Lookup(x, k)
  PROVE  DictOK(DropEntry(x, k)) /\ Sound(DropEntry(x, k))
<1>1. CASE InTable(x.ht0, k)
  <2> DEFINE g == Unlink(x.ht0, k)
  <2>1. /\ HtOK(g) /\ WellPlaced(g) /\ WellCounted(g)
        /\ Entries(g) = Entries(x.ht0) \ {k} /\ g.size = x.ht0.size
        /\ \A i \in Slots(x.ht0) : g.table[i] \subseteq x.ht0.table[i]
    BY <1>1, UnlinkSound DEF DictOK, Sound
  <2>2. DropEntry(x, k) = [ht0 |-> g, ht1 |-> x.ht1, rehashidx |-> x.rehashidx]
    BY <1>1 DEF DropEntry, DictOK
  <2>3. Slots(g) = Slots(x.ht0)
    BY <2>1 DEF Slots
  <2> HIDE DEF g
  <2>4. CursorOK(DropEntry(x, k))
    BY <2>1, <2>2, <2>3 DEF Sound, CursorOK, Rehashing
  <2> QED
    BY <2>1, <2>2, <2>4 DEF DictOK, Sound
<1>2. CASE ~ InTable(x.ht0, k)
  <2> DEFINE g == Unlink(x.ht1, k)
  <2>1. Rehashing(x) /\ InTable(x.ht1, k)
    BY <1>2 DEF Lookup
  <2>2. /\ HtOK(g) /\ WellPlaced(g) /\ WellCounted(g)
        /\ Entries(g) = Entries(x.ht1) \ {k} /\ g.size = x.ht1.size
    BY <2>1, UnlinkSound DEF DictOK, Sound
  <2>3. DropEntry(x, k) = [ht0 |-> x.ht0, ht1 |-> g, rehashidx |-> x.rehashidx]
    BY <1>2 DEF DropEntry, DictOK
  <2> HIDE DEF g
  <2>4. CursorOK(DropEntry(x, k))
    BY <2>1, <2>2, <2>3 DEF Sound, CursorOK, Rehashing
  <2> QED
    BY <2>2, <2>3, <2>4 DEF DictOK, Sound
<1> QED
  BY <1>1, <1>2

LEMMA AddToSound ==
  ASSUME NEW x, DictOK(x), Sound(x), NEW k \in Keys
  PROVE  DictOK(AddTo(x, k).dict) /\ Sound(AddTo(x, k).dict)
<1> DEFINE x1 == RehashStep(x)
           x2 == ExpandIfNeeded(x1)
<1>1. DictOK(x1) /\ Sound(x1)
  BY RehashStepSound
<1>2. DictOK(x2) /\ Sound(x2) /\ x2.ht0.size # 0
  BY <1>1, ExpandIfNeededSound, ExpandedHasSlots
<1>3. ~ Lookup(x2, k) => DictOK(Link(x2, k)) /\ Sound(Link(x2, k))
  BY <1>2, LinkSound
<1>4. \/ AddTo(x, k).dict = x2
      \/ ~ Lookup(x2, k) /\ AddTo(x, k).dict = Link(x2, k)
  BY DEF AddTo
<1> QED
  BY <1>2, <1>3, <1>4

(***************************************************************************)
(* The theorems.                                                           *)
(***************************************************************************)

TablesInv == DictOK(d) /\ Sound(d)

LEMMA InitTables == Init => TablesInv
<1> SUFFICES ASSUME Init PROVE TablesInv
  OBVIOUS
<1>1. d = [ht0 |-> EmptyHt, ht1 |-> EmptyHt, rehashidx |-> -1]
  BY DEF Init
<1> QED
  BY <1>1, EmptyHtSound DEF TablesInv, DictOK, Sound, CursorOK, Rehashing

LEMMA NextTables == TablesInv /\ [Next]_vars => TablesInv'
<1> SUFFICES ASSUME TablesInv, [Next]_vars PROVE DictOK(d') /\ Sound(d')
  BY DEF TablesInv
<1> USE DEF TablesInv
<1>1. ASSUME NEW k \in Keys, NEW v \in Vals, DictAdd(k, v)
      PROVE  DictOK(d') /\ Sound(d')
  BY <1>1, AddToSound DEF DictAdd
<1>2. ASSUME NEW k \in Keys, NEW v \in Vals, DictReplace(k, v)
      PROVE  DictOK(d') /\ Sound(d')
  <2>1. DictOK(AddTo(d, k).dict) /\ Sound(AddTo(d, k).dict)
    BY AddToSound
  <2> QED
    BY <1>2, <2>1, RehashStepSound DEF DictReplace
<1>3. ASSUME NEW k \in Keys, DictDelete(k)
      PROVE  DictOK(d') /\ Sound(d')
  <2> DEFINE x == IF d.ht0.size = 0 THEN d ELSE RehashStep(d)
  <2>1. DictOK(x) /\ Sound(x)
    BY RehashStepSound
  <2>2. d' = x \/ (Lookup(x, k) /\ d' = DropEntry(x, k))
    BY <1>3 DEF DictDelete
  <2> HIDE DEF x
  <2> QED
    BY <2>1, <2>2, DropEntrySound
<1>4. ASSUME NEW k \in Keys, DictFind(k)
      PROVE  DictOK(d') /\ Sound(d')
  BY <1>4, RehashStepSound DEF DictFind
<1>5. CASE DictGetRandomKey
  BY <1>5, RehashStepSound DEF DictGetRandomKey
<1>6. CASE DictEmpty
  <2>1. d' = [ht0 |-> EmptyHt, ht1 |-> EmptyHt, rehashidx |-> -1]
    BY <1>6 DEF DictEmpty
  <2> QED
    BY <2>1, EmptyHtSound DEF DictOK, Sound, CursorOK, Rehashing
<1>7. ASSUME NEW n \in 1 .. Cardinality(Keys), DictExpand(n)
      PROVE  DictOK(d') /\ Sound(d')
  <2>1. n \in Nat /\ n <= 2 * Cardinality(Keys)
    BY KeysAssumption, FS_CardinalityType
  <2> QED
    BY <1>7, <2>1, SizeExists, ExpandSound DEF DictExpand
<1>8. ASSUME NEW i \in Iters,
             DictGetIterator(i) \/ DictNext(i) \/ DictReleaseIterator(i)
      PROVE  DictOK(d') /\ Sound(d')
  <2>1. d' = d
    BY <1>8 DEF DictGetIterator, DictNext, DictReleaseIterator
  <2> QED
    BY <2>1
<1>9. CASE DictResize
  <2>1. d' = Expand(d, Minimal(d))
    BY <1>9 DEF DictResize
  <2> QED
    BY <2>1, MinimalFits, ExpandSound
<1>10. CASE DictRehashMilliseconds
  <2>1. Rehashing(d)
    BY <1>10 DEF DictRehashMilliseconds
  <2>2. CASE \E j \in d.rehashidx .. d.ht0.size - 1 : d' = MoveTo(d, j)
    BY <2>1, <2>2, MoveToSound
  <2>3. CASE d.ht0.used = 0 /\ d' = Finish(d)
    BY <2>3, FinishSound
  <2>4. CASE d.ht0.used # 0 /\ d' = Finish(MoveTo(d, d.ht0.size - 1))
    <3>1. d.rehashidx \in Nat /\ d.ht0.size \in Nat
      BY <2>1, HtFields DEF DictOK, Rehashing
    <3>2. d.ht0.size - 1 \in d.rehashidx .. d.ht0.size - 1
      BY <2>1, <2>4, <3>1, SoundHasChain DEF ChainAhead
    <3>3. /\ DictOK(MoveTo(d, d.ht0.size - 1))
          /\ Sound(MoveTo(d, d.ht0.size - 1))
      BY <2>1, <3>2, MoveToSound
    <3> QED
      BY <2>4, <3>3, FinishSound
  <2> QED
    BY <1>10, <2>2, <2>3, <2>4 DEF DictRehashMilliseconds
<1>11. CASE UpdateDictResizePolicy
  BY <1>11 DEF UpdateDictResizePolicy
<1>12. CASE UNCHANGED vars
  BY <1>12 DEF vars
<1> QED
  BY <1>1, <1>2, <1>3, <1>4, <1>5, <1>6, <1>7, <1>8, <1>9, <1>10, <1>11, <1>12
     DEF Next, Call, Iterate, Cron, IncrementallyRehash

(* TablesOK for every set of keys, hash function and capacities: each key  *)
(* is in at most one chain of one table, the one its hash selects, the     *)
(* counters are exact, and nothing is left behind the rehash cursor.       *)
THEOREM TablesAlwaysOK == Spec => []TablesOK
<1>1. TablesInv => TablesOK
  BY DEF TablesInv, TablesOK
<1> QED
  BY <1>1, InitTables, NextTables, PTL DEF Spec

(* The comment at dict.c:218 for every instance: the scan for the next     *)
(* chain to move never runs off the end of ht[0].                          *)
THEOREM CursorNeverOverflows == Spec => []CursorFindsAChain
<1>1. TablesInv => CursorFindsAChain
  BY SoundHasChain DEF TablesInv, CursorFindsAChain
<1> QED
  BY <1>1, InitTables, NextTables, PTL DEF Spec

-----------------------------------------------------------------------------
(* A chain is the entries of the table whose hash selects its bucket.      *)
LEMMA ChainIs ==
  ASSUME NEW h, HtOK(h), WellPlaced(h), NEW j \in Slots(h), NEW k
  PROVE  k \in h.table[j] <=> k \in Entries(h) /\ Index(h, k) = j
<1>1. k \in h.table[j] => k \in Entries(h) /\ Index(h, k) = j
  BY DEF WellPlaced, Entries
<1>2. ASSUME k \in Entries(h), Index(h, k) = j PROVE k \in h.table[j]
  BY <1>2 DEF WellPlaced, Entries
<1> QED
  BY <1>1, <1>2

(* A table with entries has slots, and their buckets are in range.         *)
LEMMA EntryHasSlot ==
  ASSUME NEW h, HtOK(h), NEW k \in Entries(h)
  PROVE  k \in Keys /\ h.size # 0 /\ Index(h, k) \in Slots(h)
<1>1. k \in Keys
  BY EntriesFinite
<1>2. h.size # 0
  BY HtFields DEF Entries, Slots
<1> QED
  BY <1>1, <1>2, IndexInRange

(* The number of entries is 0 only without entries.                        *)
LEMMA UsedZero ==
  ASSUME NEW h, HtOK(h), WellCounted(h)
  PROVE  h.used = 0 <=> Entries(h) = {}
BY EntriesFinite, FS_EmptySet DEF WellCounted

(***************************************************************************)
(* What the operations do to the entries.                                  *)
(***************************************************************************)

(* What an open iterator relies on when x becomes y: sizes do not change,  *)
(* and only the keys of `gone' leave the table they are in.                *)
Kept(x, y, gone) ==
  /\ x.ht0.size # 0 => y.ht0.size = x.ht0.size
  /\ x.ht1.size # 0 => y.ht1.size = x.ht1.size
  /\ Entries(x.ht0) \ gone \subseteq Entries(y.ht0)
  /\ Entries(x.ht1) \ gone \subseteq Entries(y.ht1)

LEMMA KeptTrans ==
  ASSUME NEW x, NEW y, NEW z, NEW gone, Kept(x, y, {}), Kept(y, z, gone)
  PROVE  Kept(x, z, gone)
BY DEF Kept

LEMMA KeptRefl == \A x : Kept(x, x, {})
BY DEF Kept

(* A step of the rehash moves entries and loses none.                      *)
LEMMA RehashOneAll ==
  ASSUME NEW x, DictOK(x), Sound(x)
  PROVE  All(RehashOne(x)) = All(x)
<1>1. CASE ~ Rehashing(x)
  BY <1>1 DEF RehashOne
<1>2. CASE Rehashing(x) /\ x.ht0.used = 0
  <2>1. Entries(x.ht0) = {}
    BY <1>2, UsedZero DEF DictOK, Sound
  <2> QED
    BY <1>2, <2>1, EmptyHtSound DEF RehashOne, Finish, All
<1>3. CASE Rehashing(x) /\ x.ht0.used # 0
  BY <1>3, FirstNonEmptyFits, MoveToSound DEF RehashOne
<1> QED
  BY <1>1, <1>2, <1>3

LEMMA RehashStepAll ==
  ASSUME NEW x, DictOK(x), Sound(x)
  PROVE  All(RehashStep(x)) = All(x)
BY RehashOneAll DEF RehashStep

LEMMA ExpandKeeps ==
  ASSUME NEW x, DictOK(x), Sound(x), NEW n \in Nat, \E s \in Sizes : s >= n
  PROVE  Kept(x, Expand(x, n), {}) /\ All(Expand(x, n)) = All(x)
<1> DEFINE h == NewHt(NextPower(n))
<1>1. Entries(h) = {}
  BY NextPowerFits, NewHtSound
<1> HIDE DEF h
<1>2. CASE ExpandRefused(x, n)
  BY <1>2, KeptRefl DEF Expand
<1>3. CASE ~ ExpandRefused(x, n) /\ x.ht0.size = 0
  <2>1. Expand(x, n) = [ht0 |-> h, ht1 |-> x.ht1, rehashidx |-> x.rehashidx]
    BY <1>3 DEF Expand, h, DictOK
  <2>2. Entries(x.ht0) = {}
    BY <1>3 DEF Entries, Slots
  <2> QED
    BY <1>1, <1>3, <2>1, <2>2 DEF Kept, All
<1>4. CASE ~ ExpandRefused(x, n) /\ x.ht0.size # 0
  <2>1. Expand(x, n) = [ht0 |-> x.ht0, ht1 |-> h, rehashidx |-> 0]
    BY <1>4 DEF Expand, h, DictOK
  <2>2. x.ht1 = EmptyHt
    BY <1>4 DEF ExpandRefused, Sound, CursorOK
  <2> QED
    BY <1>1, <2>1, <2>2, EmptyHtSound DEF Kept, All
<1> QED
  BY <1>2, <1>3, <1>4

(* The size _dictExpandIfNeeded asks for exists, and dictExpand grants it. *)
LEMMA ExpandGranted ==
  ASSUME NEW x, DictOK(x), Sound(x), NeedsExpand(x)
  PROVE  /\ ExpandSize(x) \in Nat /\ \E s \in Sizes : s >= ExpandSize(x)
         /\ ~ ExpandRefused(x, ExpandSize(x))
<1>1. CASE x.ht0.size = 0
  <2>1. Entries(x.ht0) = {}
    BY <1>1 DEF Entries, Slots
  <2>2. x.ht0.used = 0
    BY <2>1, UsedZero DEF DictOK, Sound
  <2> QED
    BY <1>1, <2>2, SizesAssumption, SizeExists
       DEF ExpandSize, ExpandRefused, NeedsExpand
<1>2. CASE x.ht0.size # 0
  <2>1. /\ x.ht0.used \in Nat /\ 2 * x.ht0.used \in Nat
        /\ 2 * x.ht0.used <= 2 * Cardinality(Keys)
    BY UsedBounded
  <2>2. ExpandSize(x) = 2 * x.ht0.used
    BY <1>2 DEF ExpandSize
  <2> QED
    BY <2>1, <2>2, SizeExists DEF ExpandRefused, NeedsExpand
<1> QED
  BY <1>1, <1>2

LEMMA ExpandIfNeededKeeps ==
  ASSUME NEW x, DictOK(x), Sound(x)
  PROVE  Kept(x, ExpandIfNeeded(x), {}) /\ All(ExpandIfNeeded(x)) = All(x)
<1>1. CASE ~ NeedsExpand(x)
  BY <1>1, KeptRefl DEF ExpandIfNeeded
<1>2. CASE NeedsExpand(x)
  BY <1>2, ExpandGranted, ExpandKeeps DEF ExpandIfNeeded
<1> QED
  BY <1>1, <1>2

LEMMA LinkKeeps ==
  ASSUME NEW x, DictOK(x), Sound(x), NEW k \in Keys, ~ Lookup(x, k),
         x.ht0.size # 0
  PROVE  Kept(x, Link(x, k), {}) /\ All(Link(x, k)) = All(x) \cup {k}
<1>1. k \notin Entries(x.ht0) /\ k \notin Entries(x.ht1)
  BY LookupIffPresent
<1>2. CASE Rehashing(x)
  <2> DEFINE g == Insert(x.ht1, k)
  <2>1. x.ht1.size # 0 /\ HtOK(x.ht1) /\ WellPlaced(x.ht1) /\ WellCounted(x.ht1)
    BY <1>2 DEF Sound, CursorOK, DictOK
  <2>2. Entries(g) = Entries(x.ht1) \cup {k} /\ g.size = x.ht1.size
    BY <1>1, <2>1, InsertSound
  <2>3. Link(x, k) = [ht0 |-> x.ht0, ht1 |-> g, rehashidx |-> x.rehashidx]
    BY <1>2 DEF Link, DictOK
  <2> HIDE DEF g
  <2> QED
    BY <2>2, <2>3 DEF Kept, All
<1>3. CASE ~ Rehashing(x)
  <2> DEFINE g == Insert(x.ht0, k)
  <2>1. HtOK(x.ht0) /\ WellPlaced(x.ht0) /\ WellCounted(x.ht0)
    BY DEF Sound, DictOK
  <2>2. Entries(g) = Entries(x.ht0) \cup {k} /\ g.size = x.ht0.size
    BY <1>1, <2>1, InsertSound
  <2>3. Link(x, k) = [ht0 |-> g, ht1 |-> x.ht1, rehashidx |-> x.rehashidx]
    BY <1>3 DEF Link, DictOK
  <2> HIDE DEF g
  <2> QED
    BY <2>2, <2>3 DEF Kept, All
<1> QED
  BY <1>2, <1>3

LEMMA DropEntryKeeps ==
  ASSUME NEW x, DictOK(x), Sound(x), NEW k \in Keys, Lookup(x, k)
  PROVE  Kept(x, DropEntry(x, k), {k}) /\ All(DropEntry(x, k)) = All(x) \ {k}
<1>0. /\ InTable(x.ht0, k) <=> k \in Entries(x.ht0)
      /\ InTable(x.ht1, k) <=> k \in Entries(x.ht1)
      /\ Entries(x.ht0) \cap Entries(x.ht1) = {}
  BY InTableIffEntry DEF DictOK, Sound
<1>1. CASE InTable(x.ht0, k)
  <2> DEFINE g == Unlink(x.ht0, k)
  <2>1. Entries(g) = Entries(x.ht0) \ {k} /\ g.size = x.ht0.size
    BY <1>1, UnlinkSound DEF DictOK, Sound
  <2>2. DropEntry(x, k) = [ht0 |-> g, ht1 |-> x.ht1, rehashidx |-> x.rehashidx]
    BY <1>1 DEF DropEntry, DictOK
  <2> HIDE DEF g
  <2> QED
    BY <1>0, <1>1, <2>1, <2>2 DEF Kept, All
<1>2. CASE ~ InTable(x.ht0, k)
  <2> DEFINE g == Unlink(x.ht1, k)
  <2>1. InTable(x.ht1, k)
    BY <1>2 DEF Lookup
  <2>2. Entries(g) = Entries(x.ht1) \ {k} /\ g.size = x.ht1.size
    BY <2>1, UnlinkSound DEF DictOK, Sound
  <2>3. DropEntry(x, k) = [ht0 |-> x.ht0, ht1 |-> g, rehashidx |-> x.rehashidx]
    BY <1>2 DEF DropEntry, DictOK
  <2> HIDE DEF g
  <2> QED
    BY <1>0, <1>2, <2>2, <2>3 DEF Kept, All
<1> QED
  BY <1>1, <1>2

(* dictAdd: it adds a missing key, refuses a present one for no other      *)
(* reason, and moves nothing while an iterator is open.                    *)
LEMMA AddToKeeps ==
  ASSUME NEW x, DictOK(x), Sound(x), NEW k \in Keys
  PROVE  /\ AddTo(x, k).ok <=> k \notin All(x)
         /\ All(AddTo(x, k).dict) = All(x) \cup {k}
         /\ iterators # 0 => Kept(x, AddTo(x, k).dict, {})
<1> DEFINE x1 == RehashStep(x)
           x2 == ExpandIfNeeded(x1)
<1>1. DictOK(x1) /\ Sound(x1) /\ All(x1) = All(x)
  BY RehashStepSound, RehashStepAll
<1>2. iterators # 0 => x1 = x
  BY DEF RehashStep
<1>3. /\ DictOK(x2) /\ Sound(x2) /\ x2.ht0.size # 0
      /\ Kept(x1, x2, {}) /\ All(x2) = All(x)
  BY <1>1, ExpandIfNeededSound, ExpandedHasSlots, ExpandIfNeededKeeps
<1>4. Lookup(x2, k) <=> k \in All(x)
  BY <1>3, LookupIffPresent DEF All
<1>5. ~ (NeedsExpand(x1) /\ ExpandRefused(x1, ExpandSize(x1)))
  BY <1>1, ExpandGranted
<1>6. AddTo(x, k).dict = IF Lookup(x2, k) THEN x2 ELSE Link(x2, k)
  BY <1>5 DEF AddTo
<1>7. AddTo(x, k).ok <=> k \notin All(x)
  <2>1. AddTo(x, k).ok = ~ Lookup(x2, k)
    BY <1>5 DEF AddTo
  <2> QED
    BY <1>4, <2>1, Zenon
<1> HIDE DEF x1, x2
<1>8. CASE Lookup(x2, k)
  <2>1. AddTo(x, k).dict = x2
    BY <1>6, <1>8
  <2>2. iterators # 0 => Kept(x, x2, {})
    BY <1>2, <1>3
  <2>3. All(x2) = All(x) \cup {k}
    BY <1>3, <1>4, <1>8
  <2> QED
    BY <1>7, <2>1, <2>2, <2>3
<1>9. CASE ~ Lookup(x2, k)
  <2>1. AddTo(x, k).dict = Link(x2, k)
    BY <1>6, <1>9
  <2>2. Kept(x2, Link(x2, k), {}) /\ All(Link(x2, k)) = All(x2) \cup {k}
    BY <1>3, <1>9, LinkKeeps
  <2>3. Kept(x1, Link(x2, k), {})
    BY <1>3, <2>2, KeptTrans
  <2>4. iterators # 0 => Kept(x, Link(x2, k), {})
    BY <1>2, <2>3
  <2> QED
    BY <1>3, <1>7, <2>1, <2>2, <2>4
<1> QED
  BY <1>8, <1>9

(***************************************************************************)
(* Walking the buckets.                                                    *)
(***************************************************************************)

HtOf(x, t) == IF t = 0 THEN x.ht0 ELSE x.ht1

(* The keys an iterator standing at bucket idx of table t has in front.    *)
AheadKeys(x, t, idx) ==
  {k \in Keys : \/ t = 0 /\ k \in Entries(x.ht0) /\ Index(x.ht0, k) > idx
                \/ k \in Entries(x.ht1) /\ (t = 0 \/ Index(x.ht1, k) > idx)}

(* Each of them is in one of the buckets dictNext has still to look at.    *)
LEMMA AheadBucket ==
  ASSUME DictOK(d), Sound(d), NEW t \in {0, 1}, NEW idx \in Nat \cup {-1},
         NEW k \in AheadKeys(d, t, idx)
  PROVE  \E c \in Ahead(t, idx) : /\ c[1] \in {0, 1}
                                  /\ k \in Entries(Ht(c[1]))
                                  /\ c[2] = Index(Ht(c[1]), k)
                                  /\ k \in Ht(c[1]).table[c[2]]
<1>1. HtOK(d.ht0) /\ HtOK(d.ht1) /\ WellPlaced(d.ht0) /\ WellPlaced(d.ht1)
  BY DEF DictOK, Sound
<1>2. ASSUME NEW u \in TablesFrom(t), u \in {0, 1}, k \in Entries(Ht(u)),
             u > t \/ Index(Ht(u), k) > idx
      PROVE  \E c \in Ahead(t, idx) : /\ c[1] \in {0, 1}
                                      /\ k \in Entries(Ht(c[1]))
                                      /\ c[2] = Index(Ht(c[1]), k)
                                      /\ k \in Ht(c[1]).table[c[2]]
  <2> DEFINE j == Index(Ht(u), k)
             c == <<u, j>>
  <2>1. HtOK(Ht(u)) /\ WellPlaced(Ht(u))
    BY <1>1, <1>2 DEF Ht
  <2>2. j \in Slots(Ht(u))
    BY <1>2, <2>1, EntryHasSlot
  <2>3. k \in Ht(u).table[j]
    BY <1>2, <2>1, <2>2, ChainIs
  <2> HIDE DEF j
  <2>4. c \in TablesFrom(t) \X UNION {Slots(Ht(w)) : w \in TablesFrom(t)}
    BY <1>2, <2>2
  <2>5. c \in Ahead(t, idx)
    BY <1>2, <2>2, <2>3, <2>4 DEF Ahead, j
  <2> QED
    BY <1>2, <2>3, <2>5 DEF j
<1>3. CASE t = 0 /\ k \in Entries(d.ht0) /\ Index(d.ht0, k) > idx
  <2>1. 0 \in TablesFrom(t)
    BY <1>3 DEF TablesFrom
  <2> QED
    BY <1>2, <1>3, <2>1 DEF Ht
<1>4. CASE k \in Entries(d.ht1) /\ (t = 0 \/ Index(d.ht1, k) > idx)
  <2>1. Rehashing(d)
    BY <1>4, EmptyHtSound DEF Sound, CursorOK
  <2>2. 1 \in TablesFrom(t)
    BY <2>1 DEF TablesFrom
  <2> QED
    BY <1>2, <1>4, <2>2 DEF Ht
<1> QED
  BY <1>3, <1>4 DEF AheadKeys

(* The first of these buckets, and what lies behind it, is all there is    *)
(* ahead, and nothing is in both.                                          *)
LEMMA AheadSplit ==
  ASSUME DictOK(d), Sound(d), NEW t \in {0, 1}, NEW idx \in Nat \cup {-1},
         NEW b \in Ahead(t, idx), \A c \in Ahead(t, idx) : c = b \/ Before(b, c)
  PROVE  /\ b[1] \in {0, 1} /\ b[2] \in Slots(Ht(b[1])) /\ b[2] \in Nat
         /\ AheadKeys(d, t, idx)
              = Ht(b[1]).table[b[2]] \cup AheadKeys(d, b[1], b[2])
         /\ Ht(b[1]).table[b[2]] \cap AheadKeys(d, b[1], b[2]) = {}
<1> DEFINE u == b[1]
           j == b[2]
           h == Ht(u)
<1>1. HtOK(d.ht0) /\ HtOK(d.ht1) /\ WellPlaced(d.ht0) /\ WellPlaced(d.ht1)
  BY DEF DictOK, Sound
<1>2. /\ u \in TablesFrom(t) /\ j \in Slots(h) /\ (u > t \/ j > idx)
      /\ u \in {0, 1} /\ u >= t
  BY DEF Ahead, TablesFrom
<1>3. HtOK(h) /\ WellPlaced(h)
  BY <1>1, <1>2 DEF Ht
<1>4. j \in Nat
  BY <1>2, <1>3, HtFields DEF Slots
<1>5. \A k : k \in h.table[j] <=> k \in Entries(h) /\ Index(h, k) = j
  BY <1>2, <1>3, ChainIs
<1>6. Entries(h) \subseteq Keys
  BY <1>3, EntriesFinite
<1>7. (u = 0 => h = d.ht0) /\ (u = 1 => h = d.ht1)
  BY DEF Ht
<1>8. Entries(d.ht0) \cap Entries(d.ht1) = {}
  BY DEF Sound
<1>9. \A k \in Entries(d.ht1) : Index(d.ht1, k) \in Nat
  BY <1>1, EntryHasSlot, HtFields DEF Slots
<1>10. \A k \in Entries(d.ht0) : Index(d.ht0, k) \in Nat
  BY <1>1, EntryHasSlot, HtFields DEF Slots
<1>11. ASSUME NEW k \in AheadKeys(d, t, idx)
       PROVE  k \in h.table[j] \cup AheadKeys(d, u, j)
  <2>1. PICK c \in Ahead(t, idx) : /\ c[1] \in {0, 1}
                                   /\ k \in Entries(Ht(c[1]))
                                   /\ c[2] = Index(Ht(c[1]), k)
                                   /\ k \in Ht(c[1]).table[c[2]]
    BY AheadBucket
  <2>2. CASE c = b
    BY <2>1, <2>2
  <2>3. CASE Before(b, c)
    <3>1. u < c[1] \/ (u = c[1] /\ j < c[2])
      BY <2>3 DEF Before
    <3>2. k \in Keys
      BY DEF AheadKeys
    <3>3. CASE c[1] = 0
      <4>1. u = 0 /\ k \in Entries(d.ht0) /\ Index(d.ht0, k) > j
        BY <1>2, <1>4, <1>10, <2>1, <3>1, <3>3 DEF Ht
      <4> QED
        BY <3>2, <4>1 DEF AheadKeys
    <3>4. CASE c[1] = 1
      <4>1. k \in Entries(d.ht1) /\ (u = 0 \/ Index(d.ht1, k) > j)
        BY <1>2, <1>4, <1>9, <2>1, <3>1, <3>4 DEF Ht
      <4> QED
        BY <3>2, <4>1 DEF AheadKeys
    <3> QED
      BY <2>1, <3>3, <3>4
  <2> QED
    BY <2>2, <2>3
<1>12. ASSUME NEW k \in h.table[j] PROVE k \in AheadKeys(d, t, idx)
  <2>1. k \in Entries(h) /\ Index(h, k) = j /\ k \in Keys
    BY <1>5, <1>6
  <2> HIDE DEF u, j, h
  <2> QED
    BY <1>2, <1>4, <1>7, <2>1 DEF AheadKeys
<1>13. ASSUME NEW k \in AheadKeys(d, u, j) PROVE k \in AheadKeys(d, t, idx)
  <2> HIDE DEF u, j, h
  <2>1. CASE u = 0
    BY <1>2, <1>4, <1>10, <2>1 DEF AheadKeys
  <2>2. CASE u = 1
    BY <1>2, <1>4, <1>9, <2>2 DEF AheadKeys
  <2> QED
    BY <1>2, <2>1, <2>2
<1>14. h.table[j] \cap AheadKeys(d, u, j) = {}
  <2> SUFFICES ASSUME NEW k \in h.table[j], k \in AheadKeys(d, u, j) PROVE FALSE
    OBVIOUS
  <2>1. k \in Entries(h) /\ Index(h, k) = j
    BY <1>5
  <2> HIDE DEF u, j, h
  <2> QED
    BY <1>2, <1>4, <1>7, <1>8, <2>1 DEF AheadKeys
<1> QED
  BY <1>2, <1>4, <1>11, <1>12, <1>13, <1>14

(* An iterator starts in front of everything.                              *)
LEMMA AheadAll ==
  ASSUME DictOK(d), Sound(d)
  PROVE  AheadKeys(d, 0, -1) = Present
<1>1. HtOK(d.ht0) /\ HtOK(d.ht1)
  BY DEF DictOK
<1>2. \A k \in Entries(d.ht0) : Index(d.ht0, k) > -1
  BY <1>1, EntryHasSlot, HtFields DEF Slots
<1>3. Entries(d.ht0) \subseteq Keys /\ Entries(d.ht1) \subseteq Keys
  BY <1>1, EntriesFinite
<1> QED
  BY <1>2, <1>3 DEF AheadKeys, Present

(* The keys ahead stay ahead, and no other key does that was there.        *)
LEMMA AheadKept ==
  ASSUME NEW x, NEW y, DictOK(x), Sound(x), DictOK(y), Sound(y),
         NEW gone, Kept(x, y, gone), NEW t, NEW idx,
         NEW k \in All(x) \ gone
  PROVE  k \in AheadKeys(x, t, idx) <=> k \in AheadKeys(y, t, idx)
<1>1. /\ Entries(x.ht0) \cap Entries(x.ht1) = {}
      /\ Entries(y.ht0) \cap Entries(y.ht1) = {}
  BY DEF Sound
<1>2. ASSUME k \in Entries(x.ht0)
      PROVE  k \in Entries(y.ht0) /\ Index(y.ht0, k) = Index(x.ht0, k)
  <2>1. x.ht0.size # 0
    BY <1>2, EntryHasSlot DEF DictOK
  <2> QED
    BY <1>2, <2>1 DEF Kept, Index
<1>3. ASSUME k \in Entries(x.ht1)
      PROVE  k \in Entries(y.ht1) /\ Index(y.ht1, k) = Index(x.ht1, k)
  <2>1. x.ht1.size # 0
    BY <1>3, EntryHasSlot DEF DictOK
  <2> QED
    BY <1>3, <2>1 DEF Kept, Index
<1>4. CASE k \in Entries(x.ht0)
  BY <1>1, <1>2, <1>4 DEF AheadKeys
<1>5. CASE k \in Entries(x.ht1)
  BY <1>1, <1>3, <1>5 DEF AheadKeys
<1> QED
  BY <1>4, <1>5 DEF All

(***************************************************************************)
(* The inductive invariant of an iterator y over the dict x; m and s are   *)
(* what it must return and what it has returned.                           *)
(***************************************************************************)

\* Created, and dictNext not called yet; or not there.
Resting(y, m, s) ==
  /\ y.index = -1 /\ y.table = 0 /\ ~ y.done
  /\ y.next = NULL /\ y.rest = {}
  /\ m = {} /\ s = {}

\* What lies in front is disjoint from what was returned, and with it covers
\* what has to be.
Frontier(x, t, idx, left, m, s) ==
  /\ s \subseteq All(x)
  /\ s \cap (left \cup AheadKeys(x, t, idx)) = {}
  /\ m \subseteq s \cup left \cup AheadKeys(x, t, idx)

Walking(x, y, m, s) ==
  /\ y.index \in Slots(HtOf(x, y.table))
  /\ y.rest \subseteq HtOf(x, y.table).table[y.index]
  /\ y.next \in Successors(y.rest)
  /\ y.entry \notin y.rest
  /\ Frontier(x, y.table, y.index, y.rest, m, s)

Ended(y, m, s) == y.index # -1 /\ y.next = NULL /\ y.rest = {} /\ m \subseteq s

IterOK(x, y, m, s) ==
  IF ~ y.open THEN Resting(y, m, s)
  ELSE /\ y.live
       /\ IF y.done THEN Ended(y, m, s) ELSE Walking(x, y, m, s)

OpenIters == {i \in Iters : it[i].open}

\* d->iterators counts the open iterators.
CountOK == IsFiniteSet(OpenIters) /\ iterators = Cardinality(OpenIters)

WalkInv ==
  /\ TypeOK /\ Sound(d) /\ CountOK
  /\ \A i \in Iters : IterOK(d, it[i], must[i], seen[i])

(* A key of a chain is not ahead of it.                                    *)
LEMMA ChainNotAhead ==
  ASSUME DictOK(d), Sound(d), NEW t \in {0, 1}, NEW j \in Slots(Ht(t)),
         NEW k \in Ht(t).table[j]
  PROVE  k \in Present /\ k \in Keys /\ k \notin AheadKeys(d, t, j)
<1>1. /\ HtOK(d.ht0) /\ HtOK(d.ht1) /\ WellPlaced(d.ht0) /\ WellPlaced(d.ht1)
      /\ Entries(d.ht0) \cap Entries(d.ht1) = {}
  BY DEF DictOK, Sound
<1>2. HtOK(Ht(t)) /\ WellPlaced(Ht(t))
  BY <1>1 DEF Ht
<1>3. k \in Entries(Ht(t)) /\ Index(Ht(t), k) = j /\ k \in Keys
  BY <1>2, ChainIs, EntriesFinite
<1>4. j \in Nat
  BY <1>2, HtFields DEF Slots
<1>5. CASE t = 0
  BY <1>1, <1>3, <1>4, <1>5 DEF Ht, AheadKeys, Present
<1>6. CASE t = 1
  BY <1>1, <1>3, <1>4, <1>6 DEF Ht, AheadKeys, Present
<1> QED
  BY <1>5, <1>6

(* dictNext follows nextEntry.                                             *)
LEMMA WalkOn ==
  ASSUME DictOK(d), Sound(d), NEW y \in IterType, NEW m, NEW s,
         Walking(d, y, m, s), y.next # NULL, NEW n \in Successors(y.rest \ {y.next}),
         NEW z \in IterType,
         z.table = y.table, z.index = y.index, z.entry = y.next, z.next = n,
         z.rest = y.rest \ {y.next}
  PROVE  /\ y.next \in Present /\ y.next \notin s
         /\ Walking(d, z, m, s \cup {y.next})
<1>1. y.table \in {0, 1}
  BY DEF IterType
<1>2. Ht(y.table) = HtOf(d, y.table) /\ All(d) = Present
  BY DEF Ht, HtOf, All, Present
<1>3. y.next \in y.rest
  BY DEF Walking, Successors
<1>4. y.next \in Present /\ y.next \notin AheadKeys(d, y.table, y.index)
  BY <1>1, <1>2, <1>3, ChainNotAhead DEF Walking
<1>5. y.next \notin s
  BY <1>3 DEF Walking, Frontier
<1>6. Frontier(d, y.table, y.index, y.rest \ {y.next}, m, s \cup {y.next})
  BY <1>2, <1>3, <1>4 DEF Walking, Frontier
<1> QED
  BY <1>4, <1>5, <1>6 DEF Walking

(* dictNext goes on to the next bucket that is not empty.                  *)
LEMMA WalkToBucket ==
  ASSUME DictOK(d), Sound(d), NEW t \in {0, 1}, NEW idx \in Nat \cup {-1},
         NEW m, NEW s, Frontier(d, t, idx, {}, m, s),
         NEW b \in Ahead(t, idx), \A c \in Ahead(t, idx) : c = b \/ Before(b, c),
         NEW e \in Ht(b[1]).table[b[2]]
  PROVE  /\ e \in Present /\ e \notin s /\ e \in Keys
         /\ b[1] \in {0, 1} /\ b[2] \in Slots(Ht(b[1]))
         /\ Frontier(d, b[1], b[2], Ht(b[1]).table[b[2]] \ {e}, m, s \cup {e})
<1> DEFINE chain == Ht(b[1]).table[b[2]]
<1>1. /\ b[1] \in {0, 1} /\ b[2] \in Slots(Ht(b[1]))
      /\ AheadKeys(d, t, idx) = chain \cup AheadKeys(d, b[1], b[2])
      /\ chain \cap AheadKeys(d, b[1], b[2]) = {}
  BY AheadSplit
<1>2. All(d) = Present
  BY DEF All, Present
<1>3. e \in Present /\ e \in Keys
  BY <1>1, ChainNotAhead
<1>4. e \notin s
  BY <1>1 DEF Frontier
<1>5. Frontier(d, b[1], b[2], chain \ {e}, m, s \cup {e})
  BY <1>1, <1>2, <1>3 DEF Frontier
<1> QED
  BY <1>1, <1>3, <1>4, <1>5

(* dictNext finds no bucket: nothing is ahead.                             *)
LEMMA WalkEnds ==
  ASSUME DictOK(d), Sound(d), NEW t \in {0, 1}, NEW idx \in Nat \cup {-1},
         NEW m, NEW s, Frontier(d, t, idx, {}, m, s), Ahead(t, idx) = {}
  PROVE  m \subseteq s
<1>1. AheadKeys(d, t, idx) = {}
  BY AheadBucket
<1> QED
  BY <1>1 DEF Frontier

(* What an open iterator knows stays true while others change the dict.    *)
LEMMA WalkingKept ==
  ASSUME NEW x, NEW w, DictOK(x), Sound(x), DictOK(w), Sound(w),
         NEW gone \in SUBSET Keys, Kept(x, w, gone), All(x) \ gone \subseteq All(w),
         NEW y \in IterType, NEW m, NEW s, Walking(x, y, m, s),
         gone \cap y.rest = {}
  PROVE  Walking(w, y, m \ gone, s \ gone)
<1> DEFINE hx == HtOf(x, y.table)
           hw == HtOf(w, y.table)
<1>1. /\ HtOK(hx) /\ WellPlaced(hx) /\ HtOK(hw) /\ WellPlaced(hw)
  BY DEF HtOf, DictOK, Sound
<1>2. y.index \in Slots(hx) /\ hx.size # 0
  BY <1>1, HtFields DEF Walking, Slots
<1>3. hw.size = hx.size /\ Entries(hx) \ gone \subseteq Entries(hw)
  BY <1>2 DEF Kept, HtOf
<1>4. /\ y.index \in Slots(hw) /\ \A k : Index(hw, k) = Index(hx, k)
      /\ Entries(hx) \subseteq All(x)
  BY <1>2, <1>3 DEF Slots, Index, All, HtOf
<1>5. \A k \in y.rest : k \in Entries(hx) /\ Index(hx, k) = y.index
  BY <1>1, <1>2, ChainIs DEF Walking
<1>6. y.rest \subseteq hw.table[y.index]
  <2> SUFFICES ASSUME NEW k \in y.rest PROVE k \in hw.table[y.index]
    OBVIOUS
  <2>1. k \in Entries(hw) /\ Index(hw, k) = y.index
    BY <1>3, <1>4, <1>5
  <2> QED
    BY <1>1, <1>4, <2>1, ChainIs
<1>7. \A k \in All(x) \ gone : k \in AheadKeys(x, y.table, y.index)
                                 <=> k \in AheadKeys(w, y.table, y.index)
  BY AheadKept
<1>8. AheadKeys(x, y.table, y.index) \subseteq All(x) /\ y.rest \subseteq All(x)
  BY <1>4, <1>5 DEF AheadKeys, All
<1>9. Frontier(x, y.table, y.index, y.rest, m, s)
  BY DEF Walking
<1>10. Frontier(w, y.table, y.index, y.rest, m \ gone, s \ gone)
  BY <1>7, <1>8, <1>9 DEF Frontier
<1> QED
  BY <1>4, <1>6, <1>10 DEF Walking

(***************************************************************************)
(* The steps.                                                              *)
(***************************************************************************)

LEMMA WalkInvFacts ==
  ASSUME WalkInv
  PROVE  /\ DictOK(d) /\ Sound(d) /\ TablesInv
         /\ it \in [Iters -> IterType]
         /\ must \in [Iters -> SUBSET Keys] /\ seen \in [Iters -> SUBSET Keys]
         /\ \A i \in Iters : it[i].open => iterators # 0
         /\ All(d) = Present /\ Present \subseteq Keys
<1>1. ASSUME NEW i \in Iters, it[i].open PROVE iterators # 0
  <2>1. OpenIters # {}
    BY <1>1 DEF OpenIters
  <2> QED
    BY <2>1, FS_EmptySet DEF WalkInv, CountOK
<1>2. DictOK(d) /\ Present \subseteq Keys
  BY EntriesFinite DEF WalkInv, TypeOK, Present, DictOK
<1> QED
  BY <1>1, <1>2 DEF WalkInv, TypeOK, TablesInv, All, Present

(* A call that changes the dict while iterators may be open.               *)
LEMMA CallKeepsIters ==
  ASSUME WalkInv, DictOK(d'), Sound(d'), NEW gone \in SUBSET Keys,
         iterators # 0 => Kept(d, d', gone),
         All(d) \ gone \subseteq All(d'),
         \A i \in Iters : it[i].open => gone \cap it[i].rest = {},
         it' = [i \in Iters |-> [it[i] EXCEPT !.rest = @ \ gone]],
         must' = [i \in Iters |-> must[i] \ gone],
         seen' = [i \in Iters |-> seen[i] \ gone],
         iterators' = iterators
  PROVE  /\ CountOK' /\ \A i \in Iters : IterOK(d', it'[i], must'[i], seen'[i])
         /\ it' \in [Iters -> IterType]
         /\ must' \in [Iters -> SUBSET Keys] /\ seen' \in [Iters -> SUBSET Keys]
<1>1. it' \in [Iters -> IterType]
  <2>1. ASSUME NEW i \in Iters PROVE [it[i] EXCEPT !.rest = @ \ gone] \in IterType
    <3>1. it[i] \in IterType
      BY WalkInvFacts
    <3> QED
      BY <3>1 DEF IterType
  <2> QED
    BY <2>1
<1>2. must' \in [Iters -> SUBSET Keys] /\ seen' \in [Iters -> SUBSET Keys]
  BY WalkInvFacts
<1>3. ASSUME NEW i \in Iters
      PROVE  /\ it'[i].open = it[i].open /\ it'[i].rest = it[i].rest
             /\ it'[i] = it[i]
  <2>1. it[i] \in IterType /\ it'[i] = [it[i] EXCEPT !.rest = @ \ gone]
    BY WalkInvFacts
  <2>2. gone \cap it[i].rest = {}
    <3>1. CASE it[i].open
      BY <3>1
    <3>2. CASE ~ it[i].open
      BY <3>2 DEF WalkInv, IterOK, Resting
    <3> QED
      BY <3>1, <3>2
  <2>3. it[i].rest \ gone = it[i].rest
    BY <2>2
  <2> QED
    BY <2>1, <2>3 DEF IterType
<1>4. CountOK'
  <2>1. OpenIters' = OpenIters
    BY <1>3 DEF OpenIters
  <2> QED
    BY <2>1 DEF WalkInv, CountOK
<1>5. ASSUME NEW i \in Iters PROVE IterOK(d', it'[i], must'[i], seen'[i])
  <2> DEFINE y == it[i]
  <2>1. /\ it'[i] = y /\ must'[i] = must[i] \ gone /\ seen'[i] = seen[i] \ gone
        /\ y \in IterType /\ IterOK(d, y, must[i], seen[i])
    BY <1>3, WalkInvFacts DEF WalkInv
  <2>2. CASE ~ y.open
    BY <2>1, <2>2 DEF IterOK, Resting
  <2>3. CASE y.open /\ y.done
    BY <2>1, <2>3 DEF IterOK, Ended
  <2>4. CASE y.open /\ ~ y.done
    <3>1. Kept(d, d', gone) /\ gone \cap y.rest = {}
      BY <2>4, WalkInvFacts
    <3>2. Walking(d, y, must[i], seen[i])
      BY <2>1, <2>4 DEF IterOK
    <3>3. Walking(d', y, must[i] \ gone, seen[i] \ gone)
      BY <2>1, <3>1, <3>2, WalkInvFacts, WalkingKept
    <3> QED
      BY <2>1, <2>4, <3>3 DEF IterOK
  <2> QED
    BY <2>2, <2>3, <2>4
<1> QED
  BY <1>1, <1>2, <1>4, <1>5

(* A call that leaves the iterators alone.                                 *)
LEMMA CallKeepsItersNoneGone ==
  ASSUME WalkInv, DictOK(d'), Sound(d'), iterators # 0 => Kept(d, d', {}),
         All(d) \subseteq All(d'), UNCHANGED <<it, must, seen, iterators>>
  PROVE  CountOK' /\ \A i \in Iters : IterOK(d', it'[i], must'[i], seen'[i])
<1>1. it' = [i \in Iters |-> [it[i] EXCEPT !.rest = @ \ {}]]
  <2>1. ASSUME NEW i \in Iters PROVE it[i] = [it[i] EXCEPT !.rest = @ \ {}]
    <3>1. it[i] \in IterType /\ it[i].rest \ {} = it[i].rest
      BY WalkInvFacts
    <3> QED
      BY <3>1 DEF IterType
  <2>2. it = [i \in Iters |-> it[i]]
    BY WalkInvFacts
  <2> QED
    BY <2>1, <2>2
<1>2. must' = [i \in Iters |-> must[i] \ {}] /\ seen' = [i \in Iters |-> seen[i] \ {}]
  BY WalkInvFacts
<1>3. All(d) \ {} \subseteq All(d') /\ {} \in SUBSET Keys
  OBVIOUS
<1>4. \A i \in Iters : it[i].open => {} \cap it[i].rest = {}
  OBVIOUS
<1> QED
  BY <1>1, <1>2, <1>3, <1>4, CallKeepsIters

(* The work of serverCron and emptyDb, with no iterator there.             *)
LEMMA QuietStep ==
  ASSUME WalkInv, NoIterator, UNCHANGED <<it, must, seen>>,
         iterators' = iterators \/ iterators' = 0
  PROVE  CountOK' /\ \A i \in Iters : IterOK(d', it'[i], must'[i], seen'[i])
<1>1. \A i \in Iters : ~ it[i].open
  BY DEF NoIterator, WalkInv, IterOK
<1>2. OpenIters = {} /\ OpenIters' = {}
  BY <1>1 DEF OpenIters
<1>3. CountOK'
  BY <1>2, FS_EmptySet DEF WalkInv, CountOK
<1> QED
  BY <1>1, <1>3 DEF WalkInv, IterOK, Resting

(* The fields dictNext sets.                                               *)
LEMMA IterAt ==
  ASSUME NEW y \in IterType, y.live, ~ y.done,
         NEW t \in 0 .. 1, NEW j \in Nat, NEW e \in Keys,
         NEW n \in Keys \cup {NULL}, NEW r \in SUBSET Keys, NEW z,
         z = [y EXCEPT !.open = TRUE, !.table = t, !.index = j, !.entry = e,
                       !.next = n, !.rest = r]
  PROVE  /\ z \in IterType /\ z.open /\ z.live /\ ~ z.done
         /\ z.table = t /\ z.index = j /\ z.entry = e /\ z.next = n /\ z.rest = r
BY DEF IterType

LEMMA IterAtEnd ==
  ASSUME NEW y \in IterType, y.live, y.next = NULL, y.rest = {},
         NEW t \in 0 .. 1, NEW j \in Nat, NEW z,
         z = [y EXCEPT !.open = TRUE, !.done = TRUE, !.entry = NULL, !.table = t,
                       !.index = j]
  PROVE  /\ z \in IterType /\ z.open /\ z.live /\ z.done /\ z.entry = NULL
         /\ z.index = j /\ z.next = NULL /\ z.rest = {}
BY DEF IterType

(* What dictNext does to its iterator.                                     *)
LEMMA DictNextStep ==
  ASSUME WalkInv, NEW i \in Iters, DictNext(i)
  PROVE  /\ it' = [it EXCEPT ![i] = it'[i]] /\ it'[i] \in IterType
         /\ must' = [must EXCEPT ![i] = must'[i]] /\ must'[i] \in SUBSET Keys
         /\ seen' = [seen EXCEPT ![i] = seen'[i]] /\ seen'[i] \in SUBSET Keys
         /\ it'[i].open /\ IterOK(d, it'[i], must'[i], seen'[i])
         /\ it'[i].entry # NULL => it'[i].entry \notin seen[i]
         /\ ret' \in Present \cup {NULL}
         /\ iterators' = IF it[i].open THEN iterators ELSE iterators + 1
<1> DEFINE x == it[i]
           ahead == Ahead(x.table, x.index)
           first == x.index = -1 /\ x.table = 0
           m == must'[i]
<1>1. /\ x \in IterType /\ x.live /\ ~ x.done
      /\ IterOK(d, x, must[i], seen[i])
      /\ DictOK(d) /\ Sound(d) /\ All(d) = Present /\ Present \subseteq Keys
      /\ HtOK(d.ht0) /\ HtOK(d.ht1)
  BY WalkInvFacts DEF DictNext, WalkInv, DictOK
<1>2. /\ x.table \in {0, 1} /\ x.index \in Nat \cup {-1}
      /\ must \in [Iters -> SUBSET Keys] /\ seen \in [Iters -> SUBSET Keys]
      /\ it \in [Iters -> IterType]
  BY <1>1, WalkInvFacts DEF IterType
<1>3. first <=> ~ x.open
  <2>1. CASE ~ x.open
    BY <1>1, <2>1 DEF IterOK, Resting
  <2>2. CASE x.open
    <3>1. x.index \in Slots(HtOf(d, x.table))
      BY <1>1, <2>2 DEF IterOK, Walking
    <3>2. x.index \in Nat
      BY <1>1, <3>1, HtFields DEF Slots, HtOf
    <3> QED
      BY <2>2, <3>2
  <2> QED
    BY <2>1, <2>2
<1>4. /\ must' = [must EXCEPT ![i] = m] /\ m \in SUBSET Keys
      /\ m = IF first THEN Present ELSE must[i]
      /\ iterators' = IF x.open THEN iterators ELSE iterators + 1
  BY <1>1, <1>2, <1>3 DEF DictNext
<1>5. x.next # NULL => x.open /\ Walking(d, x, m, seen[i])
  BY <1>1, <1>3, <1>4 DEF IterOK, Resting
<1>6. x.next = NULL => Frontier(d, x.table, x.index, {}, m, seen[i])
  <2>1. CASE ~ x.open
    BY <1>1, <1>3, <1>4, <2>1, AheadAll DEF IterOK, Resting, Frontier
  <2>2. CASE x.open /\ x.next = NULL
    <3>1. Walking(d, x, m, seen[i])
      BY <1>1, <1>3, <1>4, <2>2 DEF IterOK
    <3>2. x.rest = {}
      BY <1>1, <2>2, <3>1, KeysAssumption DEF Walking, Successors, IterType
    <3> QED
      BY <3>1, <3>2 DEF Walking
  <2> QED
    BY <2>1, <2>2
<1> HIDE DEF m
<1>7. CASE x.next # NULL /\ Return(i, <<x.table, x.index>>, x.next, x.rest \ {x.next})
  <2>1. PICK n \in Successors(x.rest \ {x.next}) :
          /\ it' = [it EXCEPT ![i] =
                      [@ EXCEPT !.open = TRUE, !.table = x.table, !.index = x.index,
                                !.entry = x.next, !.next = n,
                                !.rest = x.rest \ {x.next}]]
          /\ ret' = x.next
          /\ seen' = [seen EXCEPT ![i] = @ \cup {x.next}]
    BY <1>7 DEF Return
  <2> DEFINE z == [x EXCEPT !.open = TRUE, !.table = x.table, !.index = x.index,
                            !.entry = x.next, !.next = n,
                            !.rest = x.rest \ {x.next}]
  <2>2. it' = [it EXCEPT ![i] = z] /\ it'[i] = z /\ seen'[i] = seen[i] \cup {x.next}
    BY <1>2, <2>1
  <2>3. n \in Keys \cup {NULL} /\ x.next \in Keys
    BY <1>1, <1>7, <2>1 DEF Successors, IterType
  <2>4. /\ z \in IterType /\ z.open /\ z.live /\ ~ z.done
        /\ z.table = x.table /\ z.index = x.index /\ z.entry = x.next /\ z.next = n
        /\ z.rest = x.rest \ {x.next}
    BY <1>1, <2>3 DEF IterType
  <2> HIDE DEF z
  <2>5. /\ x.next \in Present /\ x.next \notin seen[i]
        /\ Walking(d, z, m, seen[i] \cup {x.next})
    BY <1>1, <1>5, <1>7, <2>1, <2>4, WalkOn
  <2>6. IterOK(d, z, m, seen[i] \cup {x.next})
    BY <2>4, <2>5 DEF IterOK
  <2> QED
    BY <1>2, <1>4, <2>1, <2>2, <2>3, <2>4, <2>5, <2>6 DEF m
<1>8. CASE /\ x.next = NULL
           /\ \E b \in ahead :
                /\ \A c \in ahead : c = b \/ Before(b, c)
                /\ \E e \in Ht(b[1]).table[b[2]] :
                     Return(i, b, e, Ht(b[1]).table[b[2]] \ {e})
  <2>0. PICK b \in ahead :
          /\ \A c \in ahead : c = b \/ Before(b, c)
          /\ \E e \in Ht(b[1]).table[b[2]] :
               Return(i, b, e, Ht(b[1]).table[b[2]] \ {e})
    BY <1>8
  <2> DEFINE chain == Ht(b[1]).table[b[2]]
  <2>1. PICK e \in chain : Return(i, b, e, chain \ {e})
    BY <2>0
  <2>2. PICK n \in Successors(chain \ {e}) :
          /\ it' = [it EXCEPT ![i] =
                      [@ EXCEPT !.open = TRUE, !.table = b[1], !.index = b[2],
                                !.entry = e, !.next = n, !.rest = chain \ {e}]]
          /\ ret' = e
          /\ seen' = [seen EXCEPT ![i] = @ \cup {e}]
    BY <2>1 DEF Return
  <2> DEFINE z == [x EXCEPT !.open = TRUE, !.table = b[1], !.index = b[2],
                            !.entry = e, !.next = n, !.rest = chain \ {e}]
  <2>3. it' = [it EXCEPT ![i] = z] /\ it'[i] = z /\ seen'[i] = seen[i] \cup {e}
    BY <1>2, <2>2
  <2>4. b[1] \in {0, 1} /\ b[2] \in Slots(Ht(b[1])) /\ b[2] \in Nat
    BY <1>1, <1>2, <2>0, AheadSplit
  <2>5. chain \subseteq Keys /\ n \in Keys \cup {NULL} /\ e \in Keys
    BY <1>1, <2>1, <2>2, <2>4, ChainNotAhead DEF Successors
  <2>6. /\ z \in IterType /\ z.open /\ z.live /\ ~ z.done
        /\ z.table = b[1] /\ z.index = b[2] /\ z.entry = e /\ z.next = n
        /\ z.rest = chain \ {e}
    <3>1. chain \ {e} \in SUBSET Keys /\ b[1] \in 0 .. 1
      BY <2>4, <2>5
    <3> HIDE DEF chain, x
    <3> QED
      BY <1>1, <2>4, <2>5, <3>1 DEF IterType
  <2> HIDE DEF z
  <2>7. /\ e \in Present /\ e \notin seen[i]
        /\ Walking(d, z, m, seen[i] \cup {e})
    <3>0. /\ DictOK(d) /\ Sound(d) /\ x.table \in {0, 1} /\ x.index \in Nat \cup {-1}
          /\ Frontier(d, x.table, x.index, {}, m, seen[i])
          /\ b \in Ahead(x.table, x.index)
          /\ \A c \in Ahead(x.table, x.index) : c = b \/ Before(b, c)
          /\ e \in Ht(b[1]).table[b[2]]
      BY <1>1, <1>2, <1>6, <1>8, <2>0, <2>1
    <3>1. /\ e \in Present /\ e \notin seen[i]
          /\ b[1] \in {0, 1} /\ b[2] \in Slots(Ht(b[1]))
          /\ Frontier(d, b[1], b[2], chain \ {e}, m, seen[i] \cup {e})
      <4> HIDE DEF x, ahead
      <4> QED
        BY <3>0, WalkToBucket, ZenonT(30)
    <3>2. Ht(b[1]) = HtOf(d, b[1])
      BY DEF Ht, HtOf
    <3> HIDE DEF x, ahead
    <3> QED
      BY <2>2, <2>6, <3>1, <3>2 DEF Walking
  <2>8. IterOK(d, z, m, seen[i] \cup {e})
    BY <2>6, <2>7 DEF IterOK
  <2> QED
    BY <1>2, <1>4, <2>2, <2>3, <2>5, <2>6, <2>7, <2>8 DEF m
<1>9. CASE /\ x.next = NULL /\ ahead = {}
           /\ it' = [it EXCEPT ![i] =
                [@ EXCEPT !.open = TRUE, !.done = TRUE, !.entry = NULL,
                          !.table = IF Rehashing(d) THEN 1 ELSE x.table,
                          !.index = Ht(IF Rehashing(d) THEN 1 ELSE x.table).size]]
           /\ ret' = NULL
           /\ seen' = seen
  <2> DEFINE end == Ht(IF Rehashing(d) THEN 1 ELSE x.table).size
             last == IF Rehashing(d) THEN 1 ELSE x.table
             z == [x EXCEPT !.open = TRUE, !.done = TRUE, !.entry = NULL,
                            !.table = last, !.index = end]
  <2>0. it' = [it EXCEPT ![i] = z]
    BY <1>9 DEF last, end
  <2>1. it'[i] = z
    BY <1>2, <2>0
  <2>2. end \in Nat
    BY <1>1, HtFields DEF Ht
  <2>3. x.rest = {}
    BY <1>1, <1>9, KeysAssumption
       DEF IterOK, Resting, Walking, Successors, IterType
  <2> HIDE DEF end
  <2>4. /\ z \in IterType /\ z.open /\ z.live /\ z.done /\ z.entry = NULL
        /\ z.index = end /\ z.next = NULL /\ z.rest = {}
    <3>1. last \in 0 .. 1
      BY <1>2
    <3> HIDE DEF last, x
    <3> QED
      BY <1>1, <1>9, <2>2, <2>3, <3>1, IterAtEnd
  <2>5. m \subseteq seen[i]
    BY <1>1, <1>2, <1>6, <1>9, WalkEnds
  <2>6. IterOK(d, z, m, seen[i])
    BY <2>2, <2>4, <2>5 DEF IterOK, Ended
  <2> HIDE DEF z
  <2> QED
    BY <1>2, <1>4, <1>9, <2>0, <2>1, <2>4, <2>6 DEF m
<1> QED
  BY <1>7, <1>8, <1>9 DEF DictNext

(* What the calls do to the entries, and under an open iterator.           *)
LEMMA AddStep ==
  ASSUME WalkInv, NEW k \in Keys, NEW v \in Vals, DictAdd(k, v)
  PROVE  All(d') = All(d) \cup {k} /\ (iterators # 0 => Kept(d, d', {}))
<1>1. d' = AddTo(d, k).dict
  BY DEF DictAdd
<1> QED
  BY <1>1, WalkInvFacts, AddToKeeps

LEMMA ReplaceStep ==
  ASSUME WalkInv, NEW k \in Keys, NEW v \in Vals, DictReplace(k, v)
  PROVE  All(d') = All(d) \cup {k} /\ (iterators # 0 => Kept(d, d', {}))
<1> DEFINE r == AddTo(d, k)
<1>1. /\ DictOK(r.dict) /\ Sound(r.dict) /\ All(r.dict) = All(d) \cup {k}
      /\ iterators # 0 => Kept(d, r.dict, {})
  BY WalkInvFacts, AddToKeeps, AddToSound
<1>2. d' = r.dict \/ d' = RehashStep(r.dict)
  BY DEF DictReplace
<1> HIDE DEF r
<1>3. All(RehashStep(r.dict)) = All(r.dict)
  BY <1>1, RehashStepAll
<1>4. iterators # 0 => RehashStep(r.dict) = r.dict
  BY DEF RehashStep
<1> QED
  BY <1>1, <1>2, <1>3, <1>4

(* Without slots in the first table there is nothing in the second.        *)
LEMMA NoSlotsNoEntries ==
  ASSUME NEW x, DictOK(x), Sound(x), x.ht0.size = 0
  PROVE  All(x) = {}
<1>1. Entries(x.ht0) = {}
  BY DEF Entries, Slots
<1>2. x.ht1 = EmptyHt
  BY DEF Sound, CursorOK
<1> QED
  BY <1>1, <1>2, EmptyHtSound DEF All

LEMMA DeleteStep ==
  ASSUME WalkInv, NEW k \in Keys, DictDelete(k)
  PROVE  /\ All(d') = All(d) \ {k} /\ (iterators # 0 => Kept(d, d', {k}))
         /\ ret' = IF k \in All(d) THEN "ok" ELSE "err"
         /\ val' = IF k \in All(d) THEN [val EXCEPT ![k] = NULL] ELSE val
<1> DEFINE x == IF d.ht0.size = 0 THEN d ELSE RehashStep(d)
           found == d.ht0.size # 0 /\ Lookup(x, k)
<1>1. DictOK(x) /\ Sound(x) /\ All(x) = All(d) /\ (iterators # 0 => x = d)
  BY WalkInvFacts, RehashStepSound, RehashStepAll DEF RehashStep
<1>2. Lookup(x, k) <=> k \in All(d)
  BY <1>1, LookupIffPresent DEF All
<1>3. d.ht0.size = 0 => All(d) = {}
  BY NoSlotsNoEntries, WalkInvFacts
<1>4. found <=> k \in All(d)
  BY <1>2, <1>3
<1>5. /\ d' = IF found THEN DropEntry(x, k) ELSE x
      /\ ret' = IF found THEN "ok" ELSE "err"
      /\ val' = IF found THEN [val EXCEPT ![k] = NULL] ELSE val
  BY DEF DictDelete
<1>6. found => Kept(x, DropEntry(x, k), {k}) /\ All(DropEntry(x, k)) = All(x) \ {k}
  BY <1>1, DropEntryKeeps
<1>7. Kept(x, x, {k})
  BY DEF Kept
<1> HIDE DEF x, found
<1> QED
  BY <1>1, <1>4, <1>5, <1>6, <1>7

(* dictFind and dictGetRandomKey move the rehash on, at most.              *)
LEMMA LookupStep ==
  ASSUME WalkInv, NEW x, x = d \/ x = RehashStep(d)
  PROVE  /\ DictOK(x) /\ Sound(x) /\ All(x) = All(d)
         /\ iterators # 0 => Kept(d, x, {})
BY WalkInvFacts, RehashStepSound, RehashStepAll, KeptRefl DEF RehashStep

(* What serverCron does to the tables shows in none of the entries.        *)
LEMMA ResizeKeeps ==
  ASSUME DictOK(d), Sound(d), DictResize
  PROVE  All(d') = All(d)
<1>1. d' = Expand(d, Minimal(d))
  BY DEF DictResize
<1> QED
  BY <1>1, MinimalFits, ExpandKeeps

LEMMA FinishAll ==
  ASSUME NEW x, DictOK(x), Sound(x), Rehashing(x), x.ht0.used = 0
  PROVE  All(Finish(x)) = All(x)
BY UsedZero, EmptyHtSound DEF Finish, All, DictOK, Sound

LEMMA RehashMillisecondsKeeps ==
  ASSUME DictOK(d), Sound(d), DictRehashMilliseconds
  PROVE  All(d') = All(d)
<1> DEFINE last == d.ht0.size - 1
<1>1. Rehashing(d)
  BY DEF DictRehashMilliseconds
<1>2. CASE \E j \in d.rehashidx .. last : d' = MoveTo(d, j)
  BY <1>1, <1>2, MoveToSound
<1>3. CASE d.ht0.used = 0 /\ d' = Finish(d)
  BY <1>1, <1>3, FinishAll
<1>4. CASE d.ht0.used # 0 /\ d' = Finish(MoveTo(d, last))
  <2>1. d.rehashidx \in Nat /\ d.ht0.size \in Nat
    BY <1>1, HtFields DEF DictOK, Rehashing
  <2>2. last \in d.rehashidx .. last
    BY <1>1, <1>4, <2>1, SoundHasChain DEF ChainAhead
  <2>3. /\ DictOK(MoveTo(d, last)) /\ Sound(MoveTo(d, last))
        /\ All(MoveTo(d, last)) = All(d)
    BY <1>1, <2>2, MoveToSound
  <2>4. /\ Rehashing(MoveTo(d, last)) /\ MoveTo(d, last).rehashidx = last + 1
        /\ MoveTo(d, last).ht0.size = d.ht0.size
    BY <1>1, <2>2, MoveToSound
  <2>5. MoveTo(d, last).ht0.used = 0
    <3> DEFINE y == MoveTo(d, last)
    <3>1. \A i \in Slots(y.ht0) : i < y.rehashidx
      BY <2>1, <2>4 DEF Slots
    <3>2. Entries(y.ht0) = {}
      <4> HIDE DEF y
      <4> QED
        BY <2>3, <2>4, <3>1 DEF Sound, CursorOK, Entries, y
    <3>3. HtOK(y.ht0) /\ WellCounted(y.ht0)
      BY <2>3 DEF Sound, DictOK
    <3> QED
      BY <3>2, <3>3, UsedZero
  <2> QED
    BY <1>4, <2>3, <2>4, <2>5, FinishAll
<1> QED
  BY <1>2, <1>3, <1>4 DEF DictRehashMilliseconds

(* The draw of dictGetRandomKey ends at an entry, or there is none.        *)
LEMMA RandomKeyStep ==
  ASSUME WalkInv, DictGetRandomKey
  PROVE  /\ All(d') = All(d)
         /\ IF Present = {} THEN ret' = NULL ELSE ret' \in Present
         /\ ret' \in Present \cup {NULL}
<1> DEFINE x == IF DictSize(d) = 0 THEN d ELSE RehashStep(d)
           drawn == Entries(x.ht0) \cup (IF Rehashing(x) THEN Entries(x.ht1) ELSE {})
<1>1. /\ d' = x
      /\ IF DictSize(d) = 0 THEN ret' = NULL ELSE ret' \in drawn
  BY DEF DictGetRandomKey
<1>2. All(x) = All(d) /\ DictOK(x) /\ Sound(x)
  BY WalkInvFacts, RehashStepSound, RehashStepAll
<1>3. DictSize(d) = 0 <=> Present = {}
  <2>1. /\ HtOK(d.ht0) /\ HtOK(d.ht1) /\ WellCounted(d.ht0) /\ WellCounted(d.ht1)
        /\ d.ht0.used \in Nat /\ d.ht1.used \in Nat
    BY WalkInvFacts, HtFields DEF DictOK, Sound
  <2>2. DictSize(d) = 0 <=> d.ht0.used = 0 /\ d.ht1.used = 0
    BY <2>1 DEF DictSize
  <2> QED
    BY <2>1, <2>2, UsedZero DEF Present
<1> HIDE DEF x
<1>4. drawn \subseteq All(x)
  BY DEF All
<1> QED
  BY <1>1, <1>2, <1>3, <1>4, WalkInvFacts

(* Every step keeps what the iterators rely on.                            *)
LEMMA NextIters ==
  ASSUME WalkInv, [Next]_vars
  PROVE  /\ CountOK' /\ \A i \in Iters : IterOK(d', it'[i], must'[i], seen'[i])
         /\ it' \in [Iters -> IterType]
         /\ must' \in [Iters -> SUBSET Keys] /\ seen' \in [Iters -> SUBSET Keys]
<1> DEFINE Goal == /\ CountOK' /\ \A i \in Iters : IterOK(d', it'[i], must'[i], seen'[i])
                   /\ it' \in [Iters -> IterType]
                   /\ must' \in [Iters -> SUBSET Keys]
                   /\ seen' \in [Iters -> SUBSET Keys]
<1>0. /\ DictOK(d') /\ Sound(d')
      /\ it \in [Iters -> IterType]
      /\ must \in [Iters -> SUBSET Keys] /\ seen \in [Iters -> SUBSET Keys]
  BY WalkInvFacts, NextTables DEF TablesInv
<1> SUFFICES Goal
  OBVIOUS
<1>1. ASSUME NEW k \in Keys, NEW v \in Vals, DictAdd(k, v) PROVE Goal
  <2>1. UNCHANGED <<it, must, seen, iterators>>
    BY <1>1 DEF DictAdd
  <2> QED
    BY <1>0, <1>1, <2>1, AddStep, CallKeepsItersNoneGone
<1>2. ASSUME NEW k \in Keys, NEW v \in Vals, DictReplace(k, v) PROVE Goal
  <2>1. UNCHANGED <<it, must, seen, iterators>>
    BY <1>2 DEF DictReplace
  <2> QED
    BY <1>0, <1>2, <2>1, ReplaceStep, CallKeepsItersNoneGone
<1>3. ASSUME NEW k \in Keys, DictDelete(k) PROVE Goal
  <2>1. All(d') = All(d) \ {k} /\ (iterators # 0 => Kept(d, d', {k}))
    BY <1>3, DeleteStep
  <2>2. /\ it' = [i \in Iters |-> [it[i] EXCEPT !.rest = @ \ {k}]]
        /\ must' = [i \in Iters |-> must[i] \ {k}]
        /\ seen' = [i \in Iters |-> seen[i] \ {k}]
        /\ iterators' = iterators
        /\ \A i \in Iters : it[i].open => it[i].entry = k
    BY <1>3 DEF DictDelete
  <2>3. \A i \in Iters : it[i].open => {k} \cap it[i].rest = {}
    <3>1. ASSUME NEW i \in Iters, it[i].open PROVE k \notin it[i].rest
      BY <2>2, <3>1 DEF WalkInv, IterOK, Walking, Ended
    <3> QED
      BY <3>1
  <2>4. All(d) \ {k} \subseteq All(d') /\ {k} \in SUBSET Keys
    BY <2>1
  <2> HIDE DEF Goal
  <2>5. /\ CountOK' /\ \A i \in Iters : IterOK(d', it'[i], must'[i], seen'[i])
        /\ it' \in [Iters -> IterType]
        /\ must' \in [Iters -> SUBSET Keys] /\ seen' \in [Iters -> SUBSET Keys]
    BY <1>0, <2>1, <2>2, <2>3, <2>4, CallKeepsIters
  <2> QED
    BY <2>5 DEF Goal
<1>4. ASSUME NEW k \in Keys, DictFind(k) PROVE Goal
  <2>1. /\ d' = d \/ d' = RehashStep(d)
        /\ UNCHANGED <<it, must, seen, iterators>>
    BY <1>4 DEF DictFind
  <2> QED
    BY <1>0, <2>1, LookupStep, CallKeepsItersNoneGone
<1>5. CASE DictGetRandomKey
  <2>1. /\ d' = d \/ d' = RehashStep(d)
        /\ UNCHANGED <<it, must, seen, iterators>>
    BY <1>5 DEF DictGetRandomKey
  <2> QED
    BY <1>0, <2>1, LookupStep, CallKeepsItersNoneGone
<1>6. CASE DictEmpty \/ DictResize \/ DictRehashMilliseconds
             \/ \E n \in 1 .. Cardinality(Keys) : DictExpand(n)
  <2>1. /\ NoIterator /\ UNCHANGED <<it, must, seen>>
        /\ iterators' = iterators \/ iterators' = 0
    BY <1>6 DEF DictEmpty, DictResize, DictRehashMilliseconds, DictExpand
  <2> QED
    BY <1>0, <2>1, QuietStep
<1>7. CASE UpdateDictResizePolicy \/ UNCHANGED vars
  <2>1. d' = d /\ UNCHANGED <<it, must, seen, iterators>>
    BY <1>7 DEF UpdateDictResizePolicy, vars
  <2> QED
    BY <1>0, <2>1, KeptRefl, CallKeepsItersNoneGone
<1>8. ASSUME NEW i \in Iters, DictGetIterator(i) PROVE Goal
  <2>1. /\ d' = d /\ iterators' = iterators /\ ~ it[i].live
        /\ it' = [it EXCEPT ![i] = [NewIter EXCEPT !.live = TRUE]]
        /\ must' = [must EXCEPT ![i] = {}] /\ seen' = [seen EXCEPT ![i] = {}]
    BY <1>8 DEF DictGetIterator
  <2> DEFINE z == [NewIter EXCEPT !.live = TRUE]
  <2>n. NewIter \in IterType
    BY DEF NewIter, IterType
  <2>z. /\ z.table = 0 /\ z.index = -1 /\ z.entry = NULL /\ z.next = NULL /\ z.rest = {}
    BY DEF NewIter
  <2>o. z.open = FALSE /\ z.done = FALSE
    BY DEF NewIter
  <2>t. z \in IterType
    BY <2>n DEF IterType
  <2> HIDE DEF z
  <2>r. Resting(z, {}, {})
    BY <2>z, <2>o, Zenon DEF Resting
  <2>2. z \in IterType /\ ~ z.open /\ Resting(z, {}, {})
    BY <2>t, <2>o, <2>r, Zenon
  <2>3. ~ it[i].open
    BY <2>1 DEF WalkInv, IterOK
  <2>4. \A j \in Iters : it'[j].open = it[j].open \/ j = i
    BY <1>0, <2>1
  <2>5. OpenIters' = OpenIters
    <3>1. it'[i] = z
      BY <1>0, <2>1 DEF z
    <3> QED
      BY <2>2, <2>3, <2>4, <3>1 DEF OpenIters
  <2>6. CountOK'
    BY <2>1, <2>5 DEF WalkInv, CountOK
  <2>7. ASSUME NEW j \in Iters PROVE IterOK(d', it'[j], must'[j], seen'[j])
    <3>1. CASE j = i
      <4>1. it'[j] = z /\ must'[j] = {} /\ seen'[j] = {}
        BY <1>0, <2>1, <3>1 DEF z
      <4> QED
        BY <2>2, <4>1 DEF IterOK
    <3>2. CASE j # i
      BY <1>0, <2>1, <3>2 DEF WalkInv
    <3> QED
      BY <3>1, <3>2
  <2>8. it' \in [Iters -> IterType]
    BY <1>0, <2>1, <2>2 DEF z
  <2>9. must' \in [Iters -> SUBSET Keys] /\ seen' \in [Iters -> SUBSET Keys]
    BY <1>0, <2>1
  <2> QED
    BY <2>6, <2>7, <2>8, <2>9
<1>9. ASSUME NEW i \in Iters, DictNext(i) PROVE Goal
  <2>1. /\ it' = [it EXCEPT ![i] = it'[i]] /\ it'[i] \in IterType
        /\ must' = [must EXCEPT ![i] = must'[i]] /\ must'[i] \in SUBSET Keys
        /\ seen' = [seen EXCEPT ![i] = seen'[i]] /\ seen'[i] \in SUBSET Keys
        /\ it'[i].open /\ IterOK(d, it'[i], must'[i], seen'[i])
        /\ iterators' = IF it[i].open THEN iterators ELSE iterators + 1
    BY <1>9, DictNextStep
  <2>2. d' = d
    BY <1>9 DEF DictNext
  <2>3. OpenIters' = OpenIters \cup {i}
    BY <1>0, <2>1 DEF OpenIters
  <2>4. CountOK'
    <3>1. IsFiniteSet(OpenIters) /\ iterators = Cardinality(OpenIters)
      BY DEF WalkInv, CountOK
    <3>2. CASE it[i].open
      <4>1. OpenIters' = OpenIters
        BY <2>3, <3>2 DEF OpenIters
      <4> QED
        BY <2>1, <3>1, <3>2, <4>1 DEF CountOK
    <3>3. CASE ~ it[i].open
      <4>1. i \notin OpenIters
        BY <3>3 DEF OpenIters
      <4>2. /\ IsFiniteSet(OpenIters')
            /\ Cardinality(OpenIters') = Cardinality(OpenIters) + 1
        BY <2>3, <3>1, <4>1, FS_AddElement
      <4> QED
        BY <2>1, <3>1, <3>3, <4>2 DEF CountOK
    <3> QED
      BY <3>2, <3>3
  <2>5. ASSUME NEW j \in Iters PROVE IterOK(d', it'[j], must'[j], seen'[j])
    <3>1. CASE j = i
      BY <2>1, <2>2, <3>1
    <3>2. CASE j # i
      <4>1. it'[j] = it[j] /\ must'[j] = must[j] /\ seen'[j] = seen[j]
        BY <1>0, <2>1, <3>2
      <4> QED
        BY <2>2, <4>1 DEF WalkInv
    <3> QED
      BY <3>1, <3>2
  <2>6. it' \in [Iters -> IterType]
    BY <1>0, <2>1
  <2>7. must' \in [Iters -> SUBSET Keys] /\ seen' \in [Iters -> SUBSET Keys]
    BY <1>0, <2>1
  <2> QED
    BY <2>4, <2>5, <2>6, <2>7
<1>10. ASSUME NEW i \in Iters, DictReleaseIterator(i) PROVE Goal
  <2>1. /\ d' = d
        /\ iterators' = IF it[i].index = -1 /\ it[i].table = 0
                        THEN iterators ELSE iterators - 1
        /\ it' = [it EXCEPT ![i] = NewIter]
        /\ must' = [must EXCEPT ![i] = {}] /\ seen' = [seen EXCEPT ![i] = {}]
    BY <1>10 DEF DictReleaseIterator
  <2>2. NewIter \in IterType /\ ~ NewIter.open /\ Resting(NewIter, {}, {})
    BY DEF NewIter, IterType, Resting
  <2>3. it[i].index = -1 /\ it[i].table = 0 <=> ~ it[i].open
    <3>1. IterOK(d, it[i], must[i], seen[i]) /\ HtOK(d.ht0) /\ HtOK(d.ht1)
      BY WalkInvFacts DEF WalkInv, DictOK
    <3>2. CASE ~ it[i].open
      BY <3>1, <3>2 DEF IterOK, Resting
    <3>3. CASE it[i].open /\ it[i].done
      BY <3>1, <3>3 DEF IterOK, Ended
    <3>4. CASE it[i].open /\ ~ it[i].done
      <4>1. it[i].index \in Slots(HtOf(d, it[i].table))
        BY <3>1, <3>4 DEF IterOK, Walking
      <4>2. it[i].index \in Nat
        BY <3>1, <4>1, HtFields DEF Slots, HtOf
      <4> QED
        BY <3>4, <4>2
    <3> QED
      BY <3>2, <3>3, <3>4
  <2>4. OpenIters' = OpenIters \ {i}
    <3>1. it'[i] = NewIter /\ \A j \in Iters \ {i} : it'[j] = it[j]
      BY <1>0, <2>1
    <3> QED
      BY <2>2, <3>1 DEF OpenIters
  <2>5. CountOK'
    <3>1. IsFiniteSet(OpenIters) /\ iterators = Cardinality(OpenIters)
      BY DEF WalkInv, CountOK
    <3>2. CASE it[i].open
      <4>1. i \in OpenIters
        BY <3>2 DEF OpenIters
      <4>2. /\ IsFiniteSet(OpenIters')
            /\ Cardinality(OpenIters') = Cardinality(OpenIters) - 1
        BY <2>4, <3>1, <4>1, FS_RemoveElement
      <4> QED
        BY <2>1, <2>3, <3>1, <3>2, <4>2 DEF CountOK
    <3>3. CASE ~ it[i].open
      <4>1. OpenIters' = OpenIters
        BY <2>4, <3>3 DEF OpenIters
      <4> QED
        BY <2>1, <2>3, <3>1, <3>3, <4>1 DEF CountOK
    <3> QED
      BY <3>2, <3>3
  <2>6. ASSUME NEW j \in Iters PROVE IterOK(d', it'[j], must'[j], seen'[j])
    <3>1. CASE j = i
      <4>1. it'[j] = NewIter /\ must'[j] = {} /\ seen'[j] = {}
        BY <1>0, <2>1, <3>1
      <4> QED
        BY <2>2, <4>1 DEF IterOK
    <3>2. CASE j # i
      BY <1>0, <2>1, <3>2 DEF WalkInv
    <3> QED
      BY <3>1, <3>2
  <2>7. it' \in [Iters -> IterType]
    BY <1>0, <2>1, <2>2
  <2>8. must' \in [Iters -> SUBSET Keys] /\ seen' \in [Iters -> SUBSET Keys]
    BY <1>0, <2>1
  <2> QED
    BY <2>5, <2>6, <2>7, <2>8
<1> QED
  BY <1>1, <1>2, <1>3, <1>4, <1>5, <1>6, <1>7, <1>8, <1>9, <1>10
     DEF Next, Call, Iterate, Cron, IncrementallyRehash

LEMMA InitWalk == Init => WalkInv
<1> SUFFICES ASSUME Init PROVE WalkInv
  OBVIOUS
<1>1. DictOK(d) /\ Sound(d)
  BY InitTables DEF TablesInv
<1>2. /\ val = [k \in Keys |-> NULL] /\ iterators = 0 /\ canResize = TRUE
      /\ it = [i \in Iters |-> NewIter] /\ ret = NULL
      /\ must = [i \in Iters |-> {}] /\ seen = [i \in Iters |-> {}]
  BY DEF Init
<1>3. NewIter \in IterType /\ ~ NewIter.open /\ Resting(NewIter, {}, {})
  BY DEF NewIter, IterType, Resting
<1>4. TypeOK
  BY <1>1, <1>2, <1>3 DEF TypeOK, Results
<1>5. CountOK
  <2>1. OpenIters = {}
    BY <1>2, <1>3 DEF OpenIters
  <2> QED
    BY <1>2, <2>1, FS_EmptySet DEF CountOK
<1>6. \A i \in Iters : IterOK(d, it[i], must[i], seen[i])
  BY <1>2, <1>3 DEF IterOK
<1> QED
  BY <1>1, <1>4, <1>5, <1>6 DEF WalkInv

(* The values, the flag and the results stay in their types.               *)
LEMMA NextResults ==
  ASSUME WalkInv, [Next]_vars
  PROVE  /\ val' \in [Keys -> Vals \cup {NULL}] /\ canResize' \in BOOLEAN
         /\ ret' \in Results
<1> DEFINE Goal == /\ val' \in [Keys -> Vals \cup {NULL}] /\ canResize' \in BOOLEAN
                   /\ ret' \in Results
<1> SUFFICES Goal
  OBVIOUS
<1>0. /\ val \in [Keys -> Vals \cup {NULL}] /\ canResize \in BOOLEAN
      /\ ret \in Results
  BY DEF WalkInv, TypeOK
<1>1. ASSUME NEW k \in Keys, NEW v \in Vals, DictAdd(k, v) \/ DictReplace(k, v)
      PROVE  Goal
  <2>1. /\ val' = val \/ val' = [val EXCEPT ![k] = v]
        /\ canResize' = canResize
        /\ ret' \in {"ok", "err", "added", "replaced"}
    BY <1>1 DEF DictAdd, DictReplace
  <2> QED
    BY <1>0, <2>1 DEF Results
<1>2. ASSUME NEW k \in Keys, DictDelete(k) PROVE Goal
  <2>1. /\ val' = val \/ val' = [val EXCEPT ![k] = NULL]
        /\ canResize' = canResize /\ ret' \in {"ok", "err"}
    BY <1>2 DEF DictDelete
  <2> QED
    BY <1>0, <2>1 DEF Results
<1>3. ASSUME NEW k \in Keys, DictFind(k) PROVE Goal
  <2>1. /\ val' = val /\ canResize' = canResize
        /\ ret' = val[k] \/ ret' = NULL
    BY <1>3 DEF DictFind
  <2> QED
    BY <1>0, <2>1 DEF Results
<1>4. CASE DictGetRandomKey
  <2>1. val' = val /\ canResize' = canResize
    BY <1>4 DEF DictGetRandomKey
  <2>2. ret' \in Present \cup {NULL}
    BY <1>4, RandomKeyStep
  <2> QED
    BY <1>0, <2>1, <2>2, WalkInvFacts DEF Results
<1>5. CASE DictEmpty \/ DictResize \/ DictRehashMilliseconds
             \/ (\E n \in 1 .. Cardinality(Keys) : DictExpand(n))
             \/ UNCHANGED vars
  <2>1. /\ val' = val \/ val' = [k \in Keys |-> NULL]
        /\ canResize' = canResize /\ ret' = ret
    BY <1>5 DEF DictEmpty, DictResize, DictRehashMilliseconds, DictExpand, vars
  <2> QED
    BY <1>0, <2>1
<1>6. CASE UpdateDictResizePolicy
  BY <1>0, <1>6 DEF UpdateDictResizePolicy
<1>7. ASSUME NEW i \in Iters, DictGetIterator(i) \/ DictReleaseIterator(i)
      PROVE  Goal
  <2>1. val' = val /\ canResize' = canResize /\ ret' = ret
    BY <1>7 DEF DictGetIterator, DictReleaseIterator
  <2> QED
    BY <1>0, <2>1
<1>8. ASSUME NEW i \in Iters, DictNext(i) PROVE Goal
  <2>1. val' = val /\ canResize' = canResize
    BY <1>8 DEF DictNext
  <2>2. ret' \in Present \cup {NULL}
    BY <1>8, DictNextStep
  <2> QED
    BY <1>0, <2>1, <2>2, WalkInvFacts DEF Results
<1> HIDE DEF Goal
<1> QED
  BY <1>1, <1>2, <1>3, <1>4, <1>5, <1>6, <1>7, <1>8
  DEF Next, Call, Iterate, Cron, IncrementallyRehash

LEMMA NextWalk == WalkInv /\ [Next]_vars => WalkInv'
<1> SUFFICES ASSUME WalkInv, [Next]_vars PROVE WalkInv'
  OBVIOUS
<1>1. DictOK(d') /\ Sound(d')
  BY WalkInvFacts, NextTables DEF TablesInv
<1>2. /\ CountOK' /\ \A i \in Iters : IterOK(d', it'[i], must'[i], seen'[i])
      /\ it' \in [Iters -> IterType]
      /\ must' \in [Iters -> SUBSET Keys] /\ seen' \in [Iters -> SUBSET Keys]
  BY NextIters
<1>3. iterators' \in Nat
  BY <1>2, FS_CardinalityType DEF CountOK
<1>4. TypeOK'
  BY <1>1, <1>2, <1>3, NextResults DEF TypeOK
<1> QED
  BY <1>1, <1>2, <1>4 DEF WalkInv

(***************************************************************************)
(* The theorems about iterators.                                           *)
(***************************************************************************)

(* Every variable keeps the shape of its C structure: d->iterators, which  *)
(* dictReleaseIterator decrements without a look, never goes below zero.   *)
THEOREM DictTypeCorrect == Spec => []TypeOK
<1>1. WalkInv => TypeOK
  BY DEF WalkInv
<1> QED
  BY <1>1, InitWalk, NextWalk, PTL DEF Spec

(* The nextEntry dictNext saved is still in the chain it was read from,    *)
(* with all that is behind it, whatever calls the caller makes meanwhile.  *)
THEOREM NextEntryAlwaysAlive == Spec => []NextEntryAlive
<1>1. WalkInv => NextEntryAlive
  <2> SUFFICES ASSUME WalkInv, NEW i \in Iters, it[i].rest # {}
               PROVE  /\ it[i].index \in Slots(Ht(it[i].table))
                      /\ it[i].rest \subseteq Ht(it[i].table).table[it[i].index]
                      /\ it[i].next \in it[i].rest
    BY DEF NextEntryAlive
  <2>1. IterOK(d, it[i], must[i], seen[i])
    BY DEF WalkInv
  <2>2. Walking(d, it[i], must[i], seen[i])
    BY <2>1 DEF IterOK, Resting, Ended
  <2> QED
    BY <2>2 DEF Walking, Successors, HtOf, Ht
<1> QED
  BY <1>1, InitWalk, NextWalk, PTL DEF Spec

(* "Otherwise some element can be missed" (dict.c:260): a walk that ends   *)
(* has returned every key that was there throughout.                       *)
THEOREM NothingEverMissed == Spec => []NothingMissed
<1>1. WalkInv => NothingMissed
  <2> SUFFICES ASSUME WalkInv, NEW i \in Iters, it[i].done
               PROVE  must[i] \subseteq seen[i]
    BY DEF NothingMissed
  <2>1. IterOK(d, it[i], must[i], seen[i])
    BY DEF WalkInv
  <2> QED
    BY <2>1 DEF IterOK, Resting, Ended
<1> QED
  BY <1>1, InitWalk, NextWalk, PTL DEF Spec

(* "... or duplicated": no step of a walk returns what an earlier one has. *)
THEOREM NothingEverRepeated == Spec => NothingRepeated
<1> DEFINE Fresh == \A i \in Iters : Position(i)' # Position(i) /\ it'[i].entry # NULL
                                       => it'[i].entry \notin seen[i]
<1>1. WalkInv /\ [Next]_vars => [Fresh]_vars
  <2> SUFFICES ASSUME WalkInv, Next, NEW j \in Iters, Position(j)' # Position(j),
                      it'[j].entry # NULL
               PROVE  it'[j].entry \notin seen[j]
    OBVIOUS
  <2>0. it \in [Iters -> IterType]
    BY WalkInvFacts
  <2>1. ASSUME NEW i \in Iters, DictNext(i) PROVE i = j
    <3>1. it' = [it EXCEPT ![i] = it'[i]]
      BY <2>1, DictNextStep
    <3> QED
      BY <2>0, <3>1 DEF Position
  <2>2. ASSUME NEW i \in Iters, DictGetIterator(i) \/ DictReleaseIterator(i)
        PROVE  FALSE
    <3>1. CASE i = j
      <4>1. it'[j].entry = NULL
        BY <2>0, <2>2, <3>1 DEF DictGetIterator, DictReleaseIterator, NewIter
      <4> QED
        BY <4>1
    <3>2. CASE i # j
      <4>1. it'[j] = it[j]
        BY <2>0, <2>2, <3>2 DEF DictGetIterator, DictReleaseIterator
      <4> QED
        BY <4>1 DEF Position
    <3> QED
      BY <3>1, <3>2
  <2>3. ASSUME NEW k \in Keys, DictDelete(k) PROVE FALSE
    <3>1. it'[j] = [it[j] EXCEPT !.rest = @ \ {k}] /\ it[j] \in IterType
      BY <2>0, <2>3 DEF DictDelete
    <3>2. /\ it'[j].table = it[j].table /\ it'[j].index = it[j].index
          /\ it'[j].entry = it[j].entry
      BY <3>1 DEF IterType
    <3> QED
      BY <3>2 DEF Position
  <2>4. ASSUME UNCHANGED it PROVE FALSE
    BY <2>4 DEF Position
  <2>5. PICK i \in Iters : DictNext(i)
    BY <2>2, <2>3, <2>4
       DEF Next, Call, Iterate, Cron, IncrementallyRehash, DictAdd, DictReplace, DictFind,
           DictGetRandomKey, DictEmpty, DictExpand, DictResize,
           DictRehashMilliseconds, UpdateDictResizePolicy
  <2> QED
    BY <2>1, <2>5, DictNextStep
<1>2. NothingRepeated <=> [][Fresh]_vars
  BY PTL DEF NothingRepeated
<1> QED
  BY <1>1, <1>2, InitWalk, NextWalk, PTL DEF Spec

(***************************************************************************)
(* The refinement: a dict is a map.                                        *)
(***************************************************************************)

absMap == [k \in Present |-> val[k]]

(* A step that keeps the entries and their values stutters.                *)
LEMMA MapUnchanged ==
  ASSUME Present' = Present, val' = val
  PROVE  absMap' = absMap
BY DEF absMap

LEMMA MapBound ==
  ASSUME NEW k \in Keys, NEW v, val \in [Keys -> Vals \cup {NULL}],
         Present \subseteq Keys,
         Present' = Present \cup {k}, val' = [val EXCEPT ![k] = v]
  PROVE  absMap' = [x \in DOMAIN absMap \cup {k} |-> IF x = k THEN v ELSE absMap[x]]
BY DEF absMap

LEMMA PresentAll == Present = All(d) /\ Present' = All(d')
BY DEF Present, All

(* Each step of the dict is a call of the map or invisible.                *)
LEMMA NextMap == WalkInv /\ [Next]_vars => [Map!Next]_(Map!vars)
<1> SUFFICES ASSUME WalkInv, [Next]_vars
             PROVE  Map!Next \/ (absMap' = absMap /\ ret' = ret)
  BY DEF Map!vars, absMap
<1>0. /\ val \in [Keys -> Vals \cup {NULL}] /\ Present \subseteq Keys
      /\ DictOK(d) /\ Sound(d) /\ DOMAIN absMap = Present
      /\ \A k \in Present : absMap[k] = val[k]
  BY WalkInvFacts DEF WalkInv, TypeOK, absMap
<1>1. ASSUME NEW k \in Keys, NEW v \in Vals, DictAdd(k, v) PROVE Map!Add(k, v)
  <2>1. AddTo(d, k).ok <=> k \notin Present
    BY <1>0, AddToKeeps, PresentAll
  <2>2. Present' = Present \cup {k}
    BY <1>1, AddStep, PresentAll
  <2>3. CASE k \notin Present
    <3>1. val' = [val EXCEPT ![k] = v] /\ ret' = "ok"
      BY <1>1, <2>1, <2>3 DEF DictAdd
    <3>2. absMap' = [x \in Present \cup {k} |-> IF x = k THEN v ELSE absMap[x]]
      BY <1>0, <2>2, <3>1, MapBound
    <3> QED
      BY <1>0, <2>3, <3>1, <3>2 DEF Map!Add, Map!Bind, Map!Present, absMap
  <2>4. CASE k \in Present
    <3>1. val' = val /\ ret' = "err" /\ Present' = Present
      BY <1>1, <2>1, <2>2, <2>4 DEF DictAdd
    <3> QED
      BY <1>0, <2>4, <3>1, MapUnchanged DEF Map!Add, Map!Present, absMap
  <2> QED
    BY <2>3, <2>4
<1>2. ASSUME NEW k \in Keys, NEW v \in Vals, DictReplace(k, v)
      PROVE  Map!Replace(k, v)
  <2>1. AddTo(d, k).ok <=> k \notin Present
    BY <1>0, AddToKeeps, PresentAll
  <2>2. Present' = Present \cup {k}
    BY <1>2, ReplaceStep, PresentAll
  <2>3. /\ val' = [val EXCEPT ![k] = v]
        /\ ret' = IF AddTo(d, k).ok THEN "added" ELSE "replaced"
    BY <1>2 DEF DictReplace
  <2>4. ret' = IF k \in Present THEN "replaced" ELSE "added"
    BY <2>1, <2>3
  <2>5. absMap' = [x \in Present \cup {k} |-> IF x = k THEN v ELSE absMap[x]]
    BY <1>0, <2>2, <2>3, MapBound
  <2> QED
    BY <1>0, <2>4, <2>5 DEF Map!Replace, Map!Bind, Map!Present, absMap
<1>3. ASSUME NEW k \in Keys, DictDelete(k) PROVE Map!Delete(k)
  <2>1. /\ Present' = Present \ {k}
        /\ ret' = IF k \in Present THEN "ok" ELSE "err"
        /\ val' = IF k \in Present THEN [val EXCEPT ![k] = NULL] ELSE val
    BY <1>3, DeleteStep, PresentAll
  <2>2. \A x \in Present \ {k} : val'[x] = val[x]
    BY <1>0, <2>1
  <2>3. absMap' = [x \in Present \ {k} |-> absMap[x]]
    BY <1>0, <2>1, <2>2 DEF absMap
  <2> QED
    BY <1>0, <2>1, <2>3 DEF Map!Delete, Map!Present, absMap
<1>4. ASSUME NEW k \in Keys, DictFind(k) PROVE Map!Find(k)
  <2> DEFINE x == IF d.ht0.size = 0 THEN d ELSE RehashStep(d)
  <2>1. /\ d' = x /\ val' = val
        /\ ret' = IF d.ht0.size # 0 /\ Lookup(x, k) THEN val[k] ELSE NULL
    BY <1>4 DEF DictFind
  <2>2. DictOK(x) /\ Sound(x) /\ All(x) = All(d)
    BY LookupStep
  <2>3. Lookup(x, k) <=> k \in Present
    BY <2>2, LookupIffPresent, PresentAll DEF All
  <2>4. d.ht0.size = 0 => Present = {}
    BY <1>0, NoSlotsNoEntries, PresentAll
  <2>5. Present' = Present
    BY <2>1, <2>2, PresentAll
  <2> HIDE DEF x
  <2>6. ret' = IF k \in Present THEN absMap[k] ELSE NULL
    BY <1>0, <2>1, <2>3, <2>4
  <2> QED
    BY <1>0, <2>1, <2>5, <2>6, MapUnchanged DEF Map!Find, Map!Present, absMap
<1>5. CASE DictGetRandomKey
  <2>1. /\ Present' = Present /\ val' = val
        /\ IF Present = {} THEN ret' = NULL ELSE ret' \in Present
    BY <1>5, RandomKeyStep, PresentAll DEF DictGetRandomKey
  <2> QED
    BY <1>0, <2>1, MapUnchanged DEF Map!Next, Map!RandomKey, Map!Present, absMap
<1>6. CASE DictEmpty
  <2>1. /\ d' = [ht0 |-> EmptyHt, ht1 |-> EmptyHt, rehashidx |-> -1]
        /\ ret' = ret
    BY <1>6 DEF DictEmpty
  <2>2. Present' = {}
    BY <2>1, EmptyHtSound DEF Present
  <2>3. absMap' = [x \in {} |-> NULL]
    BY <2>2 DEF absMap
  <2> QED
    BY <2>1, <2>3 DEF Map!Next, Map!Empty, absMap
<1>7. CASE \E n \in 1 .. Cardinality(Keys) : DictExpand(n)
  <2>1. PICK n \in 1 .. Cardinality(Keys) : DictExpand(n)
    BY <1>7
  <2>2. n \in Nat /\ n <= 2 * Cardinality(Keys)
    BY KeysAssumption, FS_CardinalityType
  <2>3. All(d') = All(d) /\ val' = val /\ ret' = ret
    BY <1>0, <2>1, <2>2, SizeExists, ExpandKeeps DEF DictExpand
  <2> QED
    BY <2>3, PresentAll, MapUnchanged
<1>8. CASE DictResize
  <2>1. All(d') = All(d) /\ val' = val /\ ret' = ret
    BY <1>0, <1>8, ResizeKeeps DEF DictResize
  <2> QED
    BY <2>1, PresentAll, MapUnchanged
<1>9. CASE DictRehashMilliseconds
  <2>1. All(d') = All(d) /\ val' = val /\ ret' = ret
    BY <1>0, <1>9, RehashMillisecondsKeeps DEF DictRehashMilliseconds
  <2> QED
    BY <2>1, PresentAll, MapUnchanged
<1>10. ASSUME NEW i \in Iters, DictNext(i) PROVE Map!Visit
  <2>1. d' = d /\ val' = val
    BY <1>10 DEF DictNext
  <2>2. ret' \in Present \cup {NULL}
    BY <1>10, DictNextStep
  <2>3. Present' = Present
    BY <2>1, PresentAll
  <2> QED
    BY <1>0, <2>1, <2>2, <2>3, MapUnchanged DEF Map!Visit, Map!Present, absMap
<1>11. ASSUME NEW i \in Iters, DictGetIterator(i) \/ DictReleaseIterator(i)
       PROVE  absMap' = absMap /\ ret' = ret
  <2>1. d' = d /\ val' = val /\ ret' = ret
    BY <1>11 DEF DictGetIterator, DictReleaseIterator
  <2> QED
    BY <2>1, PresentAll, MapUnchanged
<1>12. CASE UpdateDictResizePolicy \/ UNCHANGED vars
  <2>1. d' = d /\ val' = val /\ ret' = ret
    BY <1>12 DEF UpdateDictResizePolicy, vars
  <2> QED
    BY <2>1, PresentAll, MapUnchanged
<1> QED
  BY <1>1, <1>2, <1>3, <1>4, <1>5, <1>6, <1>7, <1>8, <1>9, <1>10, <1>11, <1>12
     DEF Next, Call, Iterate, Cron, IncrementallyRehash, Map!Next

(* A dict implements the map of KeyValueMap: chaining, resizing and the    *)
(* position of the rehash never show in the result of a call.              *)
THEOREM DictIsAMap == Spec => ImplementsMap
<1>1. Init => Map!Init
  BY EmptyHtSound DEF Init, Map!Init, Present
<1> QED
  BY <1>1, InitWalk, NextWalk, NextMap, PTL DEF Spec, ImplementsMap, Map!Spec
=============================================================================
