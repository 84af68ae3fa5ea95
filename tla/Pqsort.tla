------------------------------- MODULE Pqsort -------------------------------
(***************************************************************************)
(* pqsort.c: quick sort that leaves alone the parts of the array outside   *)
(* the slots lrange..rrange.  Arrays are functions from 0..n-1; Cmp is the *)
(* comparison.                                                             *)
(***************************************************************************)
EXTENDS Integers, Sequences, FiniteSets

CONSTANTS Few, Many,   \* 7 and 40 in the code
          Cmp(_, _)

Swap(a, i, j) == [a EXCEPT ![i] = a[j], ![j] = a[i]]

Med3(a, i, j, k) ==
  LET Less(x, y) == Cmp(a[x], a[y]) < 0
  IN  IF Less(i, j) THEN IF Less(j, k) THEN j ELSE IF Less(i, k) THEN k ELSE i
      ELSE IF Less(k, j) THEN j ELSE IF Less(i, k) THEN i ELSE k

\* One element of an insertion sort of the slots from base on: the one at i.
RECURSIVE Sink(_, _, _)
Sink(a, base, i) ==
  IF i > base /\ Cmp(a[i - 1], a[i]) > 0 THEN Sink(Swap(a, i, i - 1), base, i - 1) ELSE a

RECURSIVE InsertFrom(_, _, _, _)
InsertFrom(a, base, n, i) ==
  IF i = base + n THEN a ELSE InsertFrom(Sink(a, base, i), base, n, i + 1)

InsertionSort(a, base, n) == InsertFrom(a, base, n, base + 1)

\* The slot of the pivot for the n slots from base on.
Pivot(a, base, n) ==
  LET d == n \div 8
      pl == base
      pm == base + n \div 2
      pn == base + n - 1
  IN  IF n = Few THEN pm
      ELSE IF n > Many
        THEN Med3(a, Med3(a, pl, pl + d, pl + 2 * d), Med3(a, pm - d, pm, pm + d),
                  Med3(a, pn - 2 * d, pn - d, pn))
      ELSE Med3(a, pl, pm, pn)

\* The scan with the pivot at base: elements equal to it go to both ends, up to
\* pa and from pd on; p.swapped is swap_cnt.
RECURSIVE ScanUp(_, _)
ScanUp(p, base) ==
  IF p.pb <= p.pc /\ Cmp(p.a[p.pb], p.a[base]) <= 0
  THEN IF Cmp(p.a[p.pb], p.a[base]) = 0
       THEN ScanUp([p EXCEPT !.a = Swap(p.a, p.pa, p.pb), !.pa = @ + 1, !.pb = @ + 1,
                             !.swapped = TRUE], base)
       ELSE ScanUp([p EXCEPT !.pb = @ + 1], base)
  ELSE p

RECURSIVE ScanDown(_, _)
ScanDown(p, base) ==
  IF p.pb <= p.pc /\ Cmp(p.a[p.pc], p.a[base]) >= 0
  THEN IF Cmp(p.a[p.pc], p.a[base]) = 0
       THEN ScanDown([p EXCEPT !.a = Swap(p.a, p.pc, p.pd), !.pd = @ - 1, !.pc = @ - 1,
                               !.swapped = TRUE], base)
       ELSE ScanDown([p EXCEPT !.pc = @ - 1], base)
  ELSE p

RECURSIVE Partition(_, _)
Partition(p, base) ==
  LET q == ScanDown(ScanUp(p, base), base)
  IN  IF q.pb > q.pc THEN q
      ELSE Partition([q EXCEPT !.a = Swap(q.a, q.pb, q.pc), !.pb = @ + 1, !.pc = @ - 1,
                               !.swapped = TRUE], base)

\* n slots from i on change places with those from j on.
RECURSIVE VecSwap(_, _, _, _)
VecSwap(a, i, j, n) == IF n <= 0 THEN a ELSE VecSwap(Swap(a, i, j), i + 1, j + 1, n - 1)

Lesser(x, y) == IF x < y THEN x ELSE y

RECURSIVE Sort(_, _, _, _, _)
Sort(a, base, n, lrange, rrange) ==
  LET Scan(b) == Partition([a |-> b, pa |-> base + 1, pb |-> base + 1,
                            pc |-> base + n - 1, pd |-> base + n - 1, swapped |-> FALSE], base)
      Ends(p, r1, r2) == VecSwap(VecSwap(p.a, base, p.pb - r1, r1), p.pb, base + n - r2, r2)
      \* m slots from first on are sorted when some of them are asked for.
      Part(b, first, m) ==
        IF m > 1 /\ ~(rrange < first /\ lrange < first)
                 /\ ~(lrange > first + m - 1 /\ rrange > first + m - 1)
        THEN Sort(b, first, m, lrange, rrange) ELSE b
      Parts(b, below, above) == Part(Part(b, base, below), base + n - above, above)
      Scanned(p) ==
        IF ~p.swapped THEN InsertionSort(p.a, base, n)
        ELSE Parts(Ends(p, Lesser(p.pa - base, p.pb - p.pa), Lesser(p.pd - p.pc, base + n - p.pd - 1)),
                   p.pb - p.pa, p.pd - p.pc)
  IN  IF n < Few THEN InsertionSort(a, base, n)
      ELSE Scanned(Scan(Swap(a, base, Pivot(a, base, n))))

PqSort(a, n, lrange, rrange) == Sort(a, 0, n, lrange, rrange)

-----------------------------------------------------------------------------

\* The elements stay the same, and the slots asked for hold what a full sort
\* would have put there, up to the order of equal elements.
SliceSorted(a, n, lrange, rrange) ==
  LET Slots(f, x) == {i \in 0..(n - 1) : f[i] = x}
      wanted == lrange..(IF rrange < n THEN rrange ELSE n - 1)
      Result(s) ==
        /\ \A i \in 0..(n - 1) : Cardinality(Slots(a, a[i])) = Cardinality(Slots(s, a[i]))
        /\ \A i \in wanted : /\ \A j \in 0..(i - 1) : Cmp(s[j], s[i]) <= 0
                             /\ \A j \in (i + 1)..(n - 1) : Cmp(s[i], s[j]) <= 0
  IN  Result(PqSort(a, n, lrange, rrange))

=============================================================================
