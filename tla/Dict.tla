-------------------------------- MODULE Dict --------------------------------
(***************************************************************************)
(* The hash table of redis-2.0.0-src/dict.c: chaining, two tables during   *)
(* an incremental rehash, and iterators that suspend the rehash while they *)
(* are open.                                                               *)
(*                                                                         *)
(* A chain is the set of its keys.  The order of a chain matters to one    *)
(* operation only, dictNext, and there every order is possible: new        *)
(* entries go to the head, so they never join the part of a chain an       *)
(* iterator has still to walk.                                             *)
(***************************************************************************)
EXTENDS Integers, FiniteSets

CONSTANTS
  Keys,        \* the keys callers use
  Vals,        \* the values callers store
  Hash,        \* the type's hashFunction: [Keys -> Nat]
  Sizes,       \* the capacities a table can have: powers of two from InitialSize
  InitialSize, \* DICT_HT_INITIAL_SIZE
  MinFill,     \* REDIS_HT_MINFILL, a percentage
  Batch,       \* buckets moved between two looks at the clock (100 in the code)
  ActiveRehashing, \* server.activerehashing
  Iters,       \* dictIterator structures
  NULL

(* The last conjunct keeps every size dictExpand is asked for below the    *)
(* LONG_MAX cut of _dictNextPower.                                         *)
ASSUME KeysAssumption == IsFiniteSet(Keys) /\ NULL \notin Keys
ASSUME HashAssumption == Hash \in [Keys -> Nat]
ASSUME SizesAssumption ==
  /\ Sizes \subseteq Nat \ {0}
  /\ InitialSize \in Sizes
  /\ \A s \in Sizes : InitialSize <= s
  /\ \E s \in Sizes : s >= 2 * Cardinality(Keys)
ASSUME ActiveRehashingAssumption == ActiveRehashing \in BOOLEAN
ASSUME ParamsAssumption == MinFill \in Nat /\ Batch \in Nat \ {0}

VARIABLES
  d,           \* the dict: [ht0, ht1, rehashidx]
  val,         \* the value in the entry of each key, NULL without an entry
  iterators,   \* d->iterators
  canResize,   \* dict_can_resize
  it,          \* the iterators
  must,        \* history: keys present since an iterator's first dictNext
  seen,        \* history: keys an iterator has returned, and still there
  ret          \* the result of the last call

vars == <<d, val, iterators, canResize, it, must, seen, ret>>

-----------------------------------------------------------------------------
(* The two tables.                                                         *)

Slots(h) == 0 .. h.size - 1

EmptyHt == [size |-> 0, table |-> [i \in {} |-> {}], used |-> 0]

NewHt(n) == [size |-> n, table |-> [i \in 0 .. n - 1 |-> {}], used |-> 0]

Entries(h) == UNION {h.table[i] : i \in Slots(h)}

Present == Entries(d.ht0) \cup Entries(d.ht1)

Index(h, k) == Hash[k] % h.size     \* hash & sizemask: sizes are powers of two

Rehashing(x) == x.rehashidx # -1

NextPower(n) ==
  CHOOSE s \in Sizes : s >= n /\ \A t \in Sizes : t >= n => s <= t

(* dictExpand: what it refuses, and what it does otherwise.                *)
ExpandRefused(x, n) == Rehashing(x) \/ x.ht0.used > n

Expand(x, n) ==
  IF ExpandRefused(x, n) THEN x
  ELSE IF x.ht0.size = 0 THEN [x EXCEPT !.ht0 = NewHt(NextPower(n))]
  ELSE [x EXCEPT !.ht1 = NewHt(NextPower(n)), !.rehashidx = 0]

(* One turn of the loop of dictRehash is either the swap of the tables,    *)
(* once ht[0] is empty, or the move of one chain.  Moving the chains of    *)
(* the buckets rehashidx..j at once is j - rehashidx + 1 such turns, less  *)
(* the empty buckets they skip.                                            *)
Finish(x) == [ht0 |-> x.ht1, ht1 |-> EmptyHt, rehashidx |-> -1]

Moved(x, j) == UNION {x.ht0.table[i] : i \in x.rehashidx .. j}

MoveTo(x, j) ==
  LET moved == Moved(x, j)
  IN  [ht0 |-> [size  |-> x.ht0.size,
                table |-> [i \in Slots(x.ht0) |->
                             IF i \in x.rehashidx .. j THEN {} ELSE x.ht0.table[i]],
                used  |-> x.ht0.used - Cardinality(moved)],
       ht1 |-> [size  |-> x.ht1.size,
                table |-> [i \in Slots(x.ht1) |->
                             x.ht1.table[i] \cup {k \in moved : Index(x.ht1, k) = i}],
                used  |-> x.ht1.used + Cardinality(moved)],
       rehashidx |-> j + 1]

FirstNonEmpty(x) ==
  CHOOSE i \in x.rehashidx .. x.ht0.size - 1 :
    /\ x.ht0.table[i] # {}
    /\ \A m \in x.rehashidx .. i - 1 : x.ht0.table[m] = {}

\* dictRehash(d,1)
RehashOne(x) ==
  IF ~Rehashing(x) THEN x
  ELSE IF x.ht0.used = 0 THEN Finish(x)
  ELSE MoveTo(x, FirstNonEmpty(x))

\* _dictRehashStep: no entry may move under an open iterator.
RehashStep(x) == IF iterators = 0 THEN RehashOne(x) ELSE x

(* _dictExpandIfNeeded: create the first table, or double a full one       *)
(* (used >= size there, so the larger of the two is used).                 *)
ExpandSize(x) == IF x.ht0.size = 0 THEN InitialSize ELSE 2 * x.ht0.used

NeedsExpand(x) ==
  /\ ~Rehashing(x)
  /\ x.ht0.size = 0 \/ (x.ht0.used >= x.ht0.size /\ canResize)

ExpandIfNeeded(x) == IF NeedsExpand(x) THEN Expand(x, ExpandSize(x)) ELSE x

(* The tables a lookup searches: ht[0], and ht[1] only during a rehash.    *)
InTable(h, k) == h.size # 0 /\ k \in h.table[Index(h, k)]

\* Mutant of Lookup: the first table only.
LookupFirst(x, k) == InTable(x.ht0, k)

Lookup(x, k) == InTable(x.ht0, k) \/ (Rehashing(x) /\ InTable(x.ht1, k))

Insert(h, k) ==
  [size |-> h.size, used |-> h.used + 1,
   table |-> [h.table EXCEPT ![Index(h, k)] = @ \cup {k}]]

Unlink(h, k) ==
  [size |-> h.size, used |-> h.used - 1,
   table |-> [h.table EXCEPT ![Index(h, k)] = @ \ {k}]]

\* Mutant of Link: ht[0] keeps receiving entries during a rehash.
LinkFirst(x, k) == [x EXCEPT !.ht0 = Insert(@, k)]

\* The new entry goes to ht[1] during a rehash, so that ht[0] only shrinks.
Link(x, k) ==
  IF Rehashing(x) THEN [x EXCEPT !.ht1 = Insert(@, k)]
                  ELSE [x EXCEPT !.ht0 = Insert(@, k)]

\* Mutant of DropEntry: the counter of the first table pays for both.
DropEntryMiscounted(x, k) ==
  IF InTable(x.ht0, k) THEN [x EXCEPT !.ht0 = Unlink(@, k)]
  ELSE [x EXCEPT !.ht1.table[Index(x.ht1, k)] = @ \ {k}, !.ht0.used = @ - 1]

DropEntry(x, k) ==
  IF InTable(x.ht0, k) THEN [x EXCEPT !.ht0 = Unlink(@, k)]
  ELSE [x EXCEPT !.ht1 = Unlink(@, k)]

\* dictAdd on the state x: its tables and result.
AddTo(x, k) ==
  LET x1 == RehashStep(x)
      x2 == ExpandIfNeeded(x1)
      refused == (NeedsExpand(x1) /\ ExpandRefused(x1, ExpandSize(x1)))
                 \/ Lookup(x2, k)
  IN  [dict |-> IF refused THEN x2 ELSE Link(x2, k), ok |-> ~refused]

DictSize(x) == x.ht0.used + x.ht1.used
DictSlots(x) == x.ht0.size + x.ht1.size

-----------------------------------------------------------------------------
NewIter == [live |-> FALSE, open |-> FALSE, done |-> FALSE, table |-> 0,
            index |-> -1, entry |-> NULL, next |-> NULL, rest |-> {}]

(* live: created and not released; open: its first dictNext has counted it *)
(* in d->iterators; rest: the keys behind `entry' in its chain; next:      *)
(* nextEntry, the first of them.                                           *)
Init ==
  /\ d = [ht0 |-> EmptyHt, ht1 |-> EmptyHt, rehashidx |-> -1]
  /\ val = [k \in Keys |-> NULL]
  /\ iterators = 0
  /\ canResize = TRUE
  /\ it = [i \in Iters |-> NewIter]
  /\ must = [i \in Iters |-> {}]
  /\ seen = [i \in Iters |-> {}]
  /\ ret = NULL

NoIterator == \A i \in Iters : ~it[i].live

DictAdd(k, v) ==
  LET r == AddTo(d, k)
  IN  /\ d' = r.dict
      /\ val' = IF r.ok THEN [val EXCEPT ![k] = v] ELSE val
      /\ ret' = IF r.ok THEN "ok" ELSE "err"
      /\ UNCHANGED <<iterators, canResize, it, must, seen>>

\* dictReplace: dictAdd, and when it refuses a dictFind of the old entry.
DictReplace(k, v) ==
  LET r == AddTo(d, k)
  IN  /\ d' = IF r.ok THEN r.dict ELSE RehashStep(r.dict)
      /\ val' = [val EXCEPT ![k] = v]
      /\ ret' = IF r.ok THEN "added" ELSE "replaced"
      /\ UNCHANGED <<iterators, canResize, it, must, seen>>

(* dictGenericDelete.  A caller walking the dict deletes nothing but the   *)
(* entry dictNext has just returned to it.                                 *)
DictDelete(k) ==
  LET x == IF d.ht0.size = 0 THEN d ELSE RehashStep(d)
      found == d.ht0.size # 0 /\ Lookup(x, k)
  IN  /\ \A i \in Iters : it[i].open => it[i].entry = k
      /\ d' = IF found THEN DropEntry(x, k) ELSE x
      /\ ret' = IF found THEN "ok" ELSE "err"
      /\ it' = [i \in Iters |-> [it[i] EXCEPT !.rest = @ \ {k}]]
      /\ must' = [i \in Iters |-> must[i] \ {k}]
      /\ seen' = [i \in Iters |-> seen[i] \ {k}]
      /\ val' = IF found THEN [val EXCEPT ![k] = NULL] ELSE val
      /\ UNCHANGED <<iterators, canResize>>

DictFind(k) ==
  LET x == IF d.ht0.size = 0 THEN d ELSE RehashStep(d)
  IN  /\ d' = x
      /\ ret' = IF d.ht0.size # 0 /\ Lookup(x, k) THEN val[k] ELSE NULL
      /\ UNCHANGED <<val, iterators, canResize, it, must, seen>>

\* dictGetRandomKey draws until it hits a bucket that is not empty.
DictGetRandomKey ==
  LET x == IF DictSize(d) = 0 THEN d ELSE RehashStep(d)
      drawn == Entries(x.ht0) \cup (IF Rehashing(x) THEN Entries(x.ht1) ELSE {})
  IN  /\ d' = x
      /\ IF DictSize(d) = 0 THEN ret' = NULL ELSE ret' \in drawn
      /\ UNCHANGED <<val, iterators, canResize, it, must, seen>>

(* dictEmpty, as emptyDb and flushdbCommand call it: between iterations;   *)
(* _dictClear frees the entries of a table and then the table.             *)
DictEmpty ==
  /\ NoIterator
  /\ d' = [ht0 |-> EmptyHt, ht1 |-> EmptyHt, rehashidx |-> -1]
  /\ iterators' = 0
  /\ val' = [k \in Keys |-> NULL]
  /\ UNCHANGED <<canResize, it, must, seen, ret>>

(* dictExpand on a dict just created: rdbLoadObject presizes a set.        *)
DictExpand(n) ==
  /\ NoIterator /\ d.ht0.size = 0 /\ n > InitialSize
  /\ d' = Expand(d, n)
  /\ UNCHANGED <<val, iterators, canResize, it, must, seen, ret>>

-----------------------------------------------------------------------------
(* serverCron, between two commands, with no iterator left open.           *)

\* dictResize: as large as the elements need.
Minimal(x) == IF x.ht0.used < InitialSize THEN InitialSize ELSE x.ht0.used

\* tryResizeHashTables: htNeedsResize, then dictResize.
DictResize ==
  /\ NoIterator /\ canResize /\ ~Rehashing(d)
  /\ DictSize(d) # 0 /\ DictSlots(d) > InitialSize
  /\ DictSize(d) * 100 < MinFill * DictSlots(d)
  /\ d' = Expand(d, Minimal(d))
  /\ UNCHANGED <<val, iterators, canResize, it, must, seen, ret>>

NonEmptyUpTo(x, j) ==
  {i \in x.rehashidx .. j : x.ht0.table[i] # {}}

\* Mutant of DictRehashMilliseconds: one batch, and never the swap.
RehashWithoutSwap ==
  /\ NoIterator /\ canResize /\ Rehashing(d)
  /\ \E j \in d.rehashidx .. d.ht0.size - 1 :
       /\ d.ht0.table[j] # {}
       /\ Cardinality(NonEmptyUpTo(d, j)) % Batch = 0
       /\ d' = MoveTo(d, j)
  /\ UNCHANGED <<val, iterators, canResize, it, must, seen, ret>>

(* incrementallyRehash gives serverCron's millisecond to one dictionary,   *)
(* the main one of a database (those of expires, of sets and of hashes are *)
(* rehashed by calls only): batches of Batch turns until the clock runs    *)
(* out between two batches, or the rehash is over in the middle of one.    *)
DictRehashMilliseconds ==
  /\ NoIterator /\ canResize /\ Rehashing(d)
  /\ \/ \E j \in d.rehashidx .. d.ht0.size - 1 :
          /\ d.ht0.table[j] # {}
          /\ Cardinality(NonEmptyUpTo(d, j)) % Batch = 0
          /\ d' = MoveTo(d, j)
     \/ LET last == d.ht0.size - 1
        IN  d' = IF d.ht0.used = 0 THEN Finish(d) ELSE Finish(MoveTo(d, last))
  /\ UNCHANGED <<val, iterators, canResize, it, must, seen, ret>>

\* serverCron, when no child runs.
IncrementallyRehash == ActiveRehashing /\ DictRehashMilliseconds

\* updateDictResizePolicy: no resizing while a child shares the memory.
UpdateDictResizePolicy ==
  /\ canResize' = ~canResize
  /\ UNCHANGED <<d, val, iterators, it, must, seen, ret>>

-----------------------------------------------------------------------------
(* Iterators.                                                              *)

DictGetIterator(i) ==
  /\ ~it[i].live
  /\ it' = [it EXCEPT ![i] = [NewIter EXCEPT !.live = TRUE]]
  /\ must' = [must EXCEPT ![i] = {}]
  /\ seen' = [seen EXCEPT ![i] = {}]
  /\ UNCHANGED <<d, val, iterators, canResize, ret>>

Ht(t) == IF t = 0 THEN d.ht0 ELSE d.ht1

\* Mutant of TablesFrom: the walk ends with the first table.
FirstTableOnly(t) == {t}

\* The tables an iterator standing in table t has still to walk.
TablesFrom(t) == IF t = 0 /\ Rehashing(d) THEN {0, 1} ELSE {t}

\* The non-empty buckets after (t, idx), in the order of dictNext.
Ahead(t, idx) ==
  {b \in TablesFrom(t) \X UNION {Slots(Ht(u)) : u \in TablesFrom(t)} :
     /\ b[2] \in Slots(Ht(b[1]))
     /\ b[1] > t \/ b[2] > idx
     /\ Ht(b[1]).table[b[2]] # {}}

Before(b, c) == b[1] < c[1] \/ (b[1] = c[1] /\ b[2] < c[2])

\* nextEntry: some key of the rest of the chain, NULL at its end.
Successors(rest) == IF rest = {} THEN {NULL} ELSE rest

\* dictNext returns e, in bucket b, with `rest' behind it in the chain.
Return(i, b, e, rest) ==
  \E n \in Successors(rest) :
    /\ it' = [it EXCEPT ![i] =
                [@ EXCEPT !.open = TRUE, !.table = b[1], !.index = b[2],
                          !.entry = e, !.next = n, !.rest = rest]]
    /\ ret' = e
    /\ seen' = [seen EXCEPT ![i] = @ \cup {e}]

DictNext(i) ==
  LET x == it[i]
      ahead == Ahead(x.table, x.index)
      first == x.index = -1 /\ x.table = 0
  IN  /\ x.live /\ ~x.done
      /\ iterators' = IF first THEN iterators + 1 ELSE iterators
      /\ must' = IF first THEN [must EXCEPT ![i] = Present] ELSE must
      /\ \/ /\ x.next # NULL
            /\ Return(i, <<x.table, x.index>>, x.next, x.rest \ {x.next})
         \/ /\ x.next = NULL
            /\ \E b \in ahead :
                 /\ \A c \in ahead : c = b \/ Before(b, c)
                 /\ \E e \in Ht(b[1]).table[b[2]] :
                      Return(i, b, e, Ht(b[1]).table[b[2]] \ {e})
         \/ /\ x.next = NULL /\ ahead = {}
            /\ it' = [it EXCEPT ![i] =
                 [@ EXCEPT !.open = TRUE, !.done = TRUE, !.entry = NULL,
                           !.table = IF Rehashing(d) THEN 1 ELSE x.table,
                           !.index = Ht(IF Rehashing(d) THEN 1 ELSE x.table).size]]
            /\ ret' = NULL
            /\ seen' = seen
      /\ UNCHANGED <<d, val, canResize>>

\* A caller may stop early and release.
DictReleaseIterator(i) ==
  /\ it[i].live
  /\ iterators' = IF it[i].index = -1 /\ it[i].table = 0
                  THEN iterators ELSE iterators - 1
  /\ it' = [it EXCEPT ![i] = NewIter]
  /\ must' = [must EXCEPT ![i] = {}]
  /\ seen' = [seen EXCEPT ![i] = {}]
  /\ UNCHANGED <<d, val, canResize, ret>>

-----------------------------------------------------------------------------
Call ==
  \/ \E k \in Keys, v \in Vals : DictAdd(k, v) \/ DictReplace(k, v)
  \/ \E k \in Keys : DictDelete(k) \/ DictFind(k)
  \/ DictGetRandomKey
  \/ DictEmpty
  \/ \E n \in 1 .. Cardinality(Keys) : DictExpand(n)

Iterate ==
  \E i \in Iters :
    DictGetIterator(i) \/ DictNext(i) \/ DictReleaseIterator(i)

Cron == DictResize \/ IncrementallyRehash \/ UpdateDictResizePolicy

Next == Call \/ Iterate \/ Cron

Spec == Init /\ [][Next]_vars

(* serverCron runs from the event loop, between commands: no iterator is   *)
(* open then, and unless a child is running, or the configuration says     *)
(* activerehashing no, it rehashes for a while.                            *)
FairSpec == Spec /\ SF_vars(IncrementallyRehash)

-----------------------------------------------------------------------------
(* The invariants, in named parts.                                         *)

HtOK(h) ==
  \E n \in Sizes \cup {0} :
    h \in [size : {n}, table : [0 .. n - 1 -> SUBSET Keys], used : Nat]

DictOK(x) ==
  /\ x = [ht0 |-> x.ht0, ht1 |-> x.ht1, rehashidx |-> x.rehashidx]
  /\ HtOK(x.ht0) /\ HtOK(x.ht1)
  /\ x.rehashidx \in Nat \cup {-1}

IterType ==
  [live : BOOLEAN, open : BOOLEAN, done : BOOLEAN, table : 0 .. 1,
   index : Nat \cup {-1}, entry : Keys \cup {NULL}, next : Keys \cup {NULL},
   rest : SUBSET Keys]

Results == Keys \cup Vals \cup {NULL, "ok", "err", "added", "replaced"}

\* The type invariant.
TypeOK ==
  /\ DictOK(d)
  /\ val \in [Keys -> Vals \cup {NULL}]
  /\ iterators \in Nat
  /\ canResize \in BOOLEAN
  /\ it \in [Iters -> IterType]
  /\ must \in [Iters -> SUBSET Keys]
  /\ seen \in [Iters -> SUBSET Keys]
  /\ ret \in Results

\* Every entry is in the bucket its hash selects.
WellPlaced(h) == \A i \in Slots(h) : \A k \in h.table[i] : Index(h, k) = i

\* `used' counts the entries.
WellCounted(h) == h.used = Cardinality(Entries(h))

\* rehashidx says whether there is a second table, and bounds what is left.
CursorOK(x) ==
  IF Rehashing(x)
  THEN /\ x.rehashidx <= x.ht0.size
       /\ x.ht0.size # 0 /\ x.ht1.size # 0
       /\ \A i \in Slots(x.ht0) : i < x.rehashidx => x.ht0.table[i] = {}
  ELSE x.ht1 = EmptyHt

Sound(x) ==
  /\ WellPlaced(x.ht0) /\ WellPlaced(x.ht1)
  /\ WellCounted(x.ht0) /\ WellCounted(x.ht1)
  /\ Entries(x.ht0) \cap Entries(x.ht1) = {}
  /\ CursorOK(x)

(* The tables stay sound through every interleaving of calls, iterators    *)
(* and cron: each key is in at most one chain of one table, the one its    *)
(* hash selects; the counters that end the rehash and drive the resize are *)
(* exact; nothing is left behind the rehash cursor.                        *)
TablesOK == Sound(d)

ChainAhead(x) ==
  Rehashing(x) /\ x.ht0.used # 0 =>
    \E i \in x.rehashidx .. x.ht0.size - 1 : x.ht0.table[i] # {}

(* "Note that rehashidx can't overflow as we are sure there are more       *)
(* elements because ht[0].used != 0" (dict.c:218): the scan of dictRehash  *)
(* for the next chain ends inside ht[0].                                   *)
CursorFindsAChain == ChainAhead(d)

(* What dictNext saved as nextEntry is still in the chain it was read      *)
(* from, with everything behind it: neither a rehash nor the deletion the  *)
(* caller is allowed pulls it away.                                        *)
NextEntryAlive ==
  \A i \in Iters :
    it[i].rest # {} => /\ it[i].index \in Slots(Ht(it[i].table))
                      /\ it[i].rest \subseteq Ht(it[i].table).table[it[i].index]
                      /\ it[i].next \in it[i].rest

(* "When we have iterators in the middle of a rehashing we can't mess with *)
(* the two hash tables otherwise some element can be missed or duplicated" *)
(* (dict.c:260).  Not missed: a walk that ends has returned every key      *)
(* that was there from its first step on.                                  *)
NothingMissed == \A i \in Iters : it[i].done => must[i] \subseteq seen[i]

(* Not duplicated: dictNext never returns an entry it has returned and     *)
(* that was not deleted since.                                             *)
Position(i) == <<it[i].table, it[i].index, it[i].entry>>

NothingRepeated ==
  [][\A i \in Iters : Position(i)' # Position(i) /\ it'[i].entry # NULL
                         => it'[i].entry \notin seen[i]]_vars

(* A dict is a map: resizing and the position of the rehash never show in  *)
(* the result of a call.                                                   *)
Map == INSTANCE KeyValueMap WITH map <- [k \in Present |-> val[k]]

ImplementsMap == Map!Spec

(* A rehash of the main dict of a database that starts is completed, even  *)
(* on an idle server, unless a child is always running or activerehashing  *)
(* is no (redis.c:1454).                                                   *)
RehashEnds ==
  ActiveRehashing /\ []<>(NoIterator /\ canResize) => (Rehashing(d) ~> ~Rehashing(d))
=============================================================================
