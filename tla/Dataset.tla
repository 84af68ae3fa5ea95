------------------------------- MODULE Dataset -------------------------------
(***************************************************************************)
(* The dataset of a database and the commands that change it, as operators *)
(* from datasets to datasets: redis.c from lookupKey to sortCommand.       *)
(*                                                                         *)
(* A dataset s has for each key its value and its expire time, and counts  *)
(* in s.dirty what was added to server.dirty: call() propagates a command  *)
(* when that is not zero.  Operators that may end in several ways, because *)
(* the code draws a random element or depends on the order of a hash       *)
(* table, are sets of datasets.                                            *)
(*                                                                         *)
(* Values are tagged.  Numbers stand for strings that are numbers, Text    *)
(* for any other string; members, fields and list elements are strings.    *)
(* Replies are left out: nothing here depends on them.                     *)
(***************************************************************************)
EXTENDS Integers, Sequences, SequencesExt, FiniteSetsExt, Functions

CONSTANTS Keys,
          WeightKey   \* element -> the key that "BY w_*" and "GET w_*" make of it

Text == -1

None == [type |-> "none", v |-> 0]
String(n) == [type |-> "string", v |-> n]
List(seq) == [type |-> "list", v |-> seq]
Set(members) == [type |-> "set", v |-> members]
ZSet(scores) == [type |-> "zset", v |-> scores]
Hash(fields) == [type |-> "hash", v |-> fields]

EmptyDb == [val |-> [k \in Keys |-> None], exp |-> [k \in Keys |-> "no"], dirty |-> 0]

-----------------------------------------------------------------------------
(* Looking keys up.  An expire time is "later" or, once passed, "due".     *)

Absent(s, k) == s.val[k] = None
Volatile(s, k) == s.exp[k] # "no"
Is(s, k, type) == s.val[k].type = type
Value(s, k) == s.val[k].v

Changed(s, n) == [s EXCEPT !.dirty = @ + n]
Put(s, k, value) == [s EXCEPT !.val[k] = value]
RemoveExpire(s, k) == [s EXCEPT !.exp[k] = "no"]
SetExpire(s, k) == [s EXCEPT !.exp[k] = "later"]

DeleteKey(s, k) == RemoveExpire(Put(s, k, None), k)

\* The key is deleted and, when it was there, counted.
DeleteCounted(s, k) == IF Absent(s, k) THEN s ELSE Changed(DeleteKey(s, k), 1)

ExpireIfNeeded(s, k) == IF s.exp[k] = "due" THEN DeleteKey(s, k) ELSE s

DeleteIfVolatile(s, k) == IF Volatile(s, k) THEN Changed(DeleteKey(s, k), 1) ELSE s

LookupKeyRead(s, k) == ExpireIfNeeded(s, k)
LookupKeyWrite(s, k) == DeleteIfVolatile(s, k)

LookupKeysRead(s, keys) == FoldLeft(LookupKeyRead, s, keys)
LookupKeysWrite(s, keys) == FoldLeft(LookupKeyWrite, s, keys)

\* A value that has become empty takes its key with it.
IsEmpty(value) == IF value.type = "set" THEN value.v = {} ELSE value.v = <<>>

PutUnlessEmpty(s, k, value) ==
  IF IsEmpty(value) THEN DeleteKey(s, k) ELSE Put(s, k, value)

\* Start and end of a range that may count from the end of n elements, as
\* the two bounds of a sequence; the range is empty when start > end.
RangeStart(start, n) == (IF start >= 0 THEN start ELSE IF n + start < 0 THEN 0 ELSE n + start) + 1
RangeEnd(end, n) == LET e == IF end < 0 THEN n + end ELSE end
                    IN  IF e >= n THEN n ELSE e + 1

-----------------------------------------------------------------------------
(* Strings.                                                                *)

SetGenericCommand(s, k, v, nx, expire) ==
  LET t == IF nx THEN DeleteIfVolatile(s, k) ELSE s
  IN  IF nx /\ ~Absent(t, k) THEN t
      ELSE Changed([Put(t, k, String(v)) EXCEPT !.exp[k] = IF expire THEN "later" ELSE "no"], 1)

GetsetCommand(s, k, v) ==
  LET t == LookupKeyRead(s, k)
  IN  IF Absent(t, k) \/ Is(t, k, "string")
      THEN Changed(RemoveExpire(Put(t, k, String(v)), k), 1) ELSE t

\* bindings are pairs of a key and a value.
MsetGenericCommand(s, bindings, nx) ==
  LET t == IF nx THEN FoldLeft(LAMBDA d, b : LookupKeyWrite(d, b[1]), s, bindings) ELSE s
      busy == \E i \in DOMAIN bindings : ~Absent(t, bindings[i][1])
  IN  IF nx /\ busy THEN t
      ELSE Changed(FoldLeft(LAMBDA d, b : RemoveExpire(Put(d, b[1], String(b[2])), b[1]),
                            t, bindings), Len(bindings))

\* Mutant of IncrDecrCommand: the key is looked up as for reading.
IncrDecrRead(s, k, incr) ==
  LET t == LookupKeyRead(s, k)
      old == IF Absent(t, k) THEN 0 ELSE Value(t, k)
  IN  IF ~Absent(t, k) /\ (~Is(t, k, "string") \/ old = Text) THEN t
      ELSE Changed(Put(t, k, String(old + incr)), 1)

IncrDecrCommand(s, k, incr) ==
  LET t == LookupKeyWrite(s, k)
      old == IF Absent(t, k) THEN 0 ELSE Value(t, k)
  IN  IF ~Absent(t, k) /\ (~Is(t, k, "string") \/ old = Text) THEN t
      ELSE Changed(Put(t, k, String(old + incr)), 1)

\* What is appended is no number.
AppendCommand(s, k) ==
  LET t == LookupKeyWrite(s, k)
  IN  IF ~Absent(t, k) /\ ~Is(t, k, "string") THEN t
      ELSE Changed(Put(t, k, String(Text)), 1)

-----------------------------------------------------------------------------
(* Keys of any type.                                                       *)

DelCommand(s, keys) == FoldLeft(DeleteCounted, s, keys)

\* EXPIRE and EXPIREAT, with a time that is in the future or not.
ExpireGenericCommand(s, k, future) ==
  IF Absent(s, k) THEN s
  ELSE IF ~future THEN DeleteCounted(s, k)
  ELSE IF Volatile(s, k) THEN s
  ELSE Changed(SetExpire(s, k), 1)

RenameGenericCommand(s, k, l, nx) ==
  LET t == LookupKeyWrite(s, k)
      u == DeleteIfVolatile(t, l)
  IN  IF k = l THEN s
      ELSE IF Absent(t, k) THEN t
      ELSE IF nx /\ ~Absent(u, l) THEN u
      ELSE Changed(DeleteKey(Put(u, l, u.val[k]), k), 1)

\* The keys of the other database are keys as well: l is k there.
MoveCommand(s, k, l) == RenameGenericCommand(s, k, l, TRUE)

FlushdbCommand(s) ==
  [EmptyDb EXCEPT !.dirty = s.dirty + Cardinality({k \in Keys : ~Absent(s, k)})]

-----------------------------------------------------------------------------
(* Lists.                                                                  *)

\* A list that is looked up to be changed in place; t is returned unless the
\* value has the type.
OfType(t, k, type, changed) == IF Is(t, k, type) THEN changed ELSE t

PushGenericCommand(s, k, e, head) ==
  LET t == LookupKeyWrite(s, k)
      old == IF Absent(t, k) THEN <<>> ELSE Value(t, k)
  IN  IF ~Absent(t, k) /\ ~Is(t, k, "list") THEN t
      ELSE Changed(Put(t, k, List(IF head THEN <<e>> \o old ELSE Append(old, e))), 1)

PopGenericCommand(s, k, head) ==
  LET t == LookupKeyWrite(s, k)
  IN  OfType(t, k, "list",
        IF Value(t, k) = <<>> THEN t
        ELSE Changed(PutUnlessEmpty(t, k,
               List(IF head THEN Tail(Value(t, k)) ELSE Front(Value(t, k)))), 1))

LsetCommand(s, k, index, e) ==
  LET t == LookupKeyWrite(s, k)
      i == IF index < 0 THEN Len(Value(t, k)) + index + 1 ELSE index + 1
  IN  OfType(t, k, "list",
        IF i \notin DOMAIN Value(t, k) THEN t
        ELSE Changed(Put(t, k, List([Value(t, k) EXCEPT ![i] = e])), 1))

LtrimCommand(s, k, start, end) ==
  LET t == LookupKeyWrite(s, k)
      n == Len(Value(t, k))
  IN  OfType(t, k, "list",
        Changed(PutUnlessEmpty(t, k,
          List(SubSeq(Value(t, k), RangeStart(start, n), RangeEnd(end, n)))), 1))

\* The first limit elements equal to e are removed, all when limit is 0.
WithoutFirst(seq, e, limit) ==
  FoldLeft(LAMBDA a, x : IF x = e /\ (limit = 0 \/ a.removed < limit)
                           THEN [a EXCEPT !.removed = @ + 1]
                           ELSE [a EXCEPT !.kept = Append(@, x)],
           [kept |-> <<>>, removed |-> 0], seq)

LremCommand(s, k, toremove, e) ==
  LET t == LookupKeyWrite(s, k)
      forward == WithoutFirst(Value(t, k), e, toremove)
      backward == WithoutFirst(Reverse(Value(t, k)), e, -toremove)
      left == IF toremove >= 0 THEN forward.kept ELSE Reverse(backward.kept)
  IN  OfType(t, k, "list", Changed(PutUnlessEmpty(t, k, List(left)), Len(Value(t, k)) - Len(left)))

\* Nobody waits for the target (BlockingPop has the clients that do).
Rpoplpushcommand(s, k, l) ==
  LET t == LookupKeyWrite(s, k)
  IN  OfType(t, k, "list",
        IF Value(t, k) = <<>> THEN t
        ELSE LET u == LookupKeyWrite(t, l)
                 e == Last(Value(t, k))
                 rest == PutUnlessEmpty(u, k, List(Front(Value(t, k))))
             IN  IF k = l THEN Changed(Put(u, k, List(<<e>> \o Front(Value(t, k)))), 1)
                 ELSE IF Absent(u, l) THEN Changed(Put(rest, l, List(<<e>>)), 1)
                 ELSE IF ~Is(u, l, "list") THEN u
                 ELSE Changed(Put(rest, l, List(<<e>> \o Value(u, l))), 1))

-----------------------------------------------------------------------------
(* Sets.                                                                   *)

Members(s, k) == IF Absent(s, k) THEN {} ELSE Value(s, k)

SaddCommand(s, k, e) ==
  LET t == LookupKeyWrite(s, k)
  IN  IF ~Absent(t, k) /\ ~Is(t, k, "set") THEN t
      ELSE IF e \in Members(t, k) THEN t
      ELSE Changed(Put(t, k, Set(Members(t, k) \cup {e})), 1)

\* Mutant of SremCommand: the empty set stays.
SremKeeps(s, k, e) ==
  LET t == LookupKeyWrite(s, k)
  IN  OfType(t, k, "set",
        IF e \notin Value(t, k) THEN t
        ELSE Changed(Put(t, k, Set(Value(t, k) \ {e})), 1))

SremCommand(s, k, e) ==
  LET t == LookupKeyWrite(s, k)
  IN  OfType(t, k, "set",
        IF e \notin Value(t, k) THEN t
        ELSE Changed(PutUnlessEmpty(t, k, Set(Value(t, k) \ {e})), 1))

SmoveCommand(s, k, l, e) ==
  LET t == LookupKeysWrite(s, <<k, l>>)
  IN  IF ~Is(t, k, "set") \/ (~Absent(t, l) /\ ~Is(t, l, "set")) THEN t
      ELSE IF e \notin Value(t, k) THEN t
      ELSE IF k = l THEN Changed(t, 1)
      ELSE Changed(Put(PutUnlessEmpty(t, k, Set(Value(t, k) \ {e})),
                       l, Set(Members(t, l) \cup {e})), 1)

SpopCommand(s, k) ==
  LET t == LookupKeyWrite(s, k)
  IN  IF Is(t, k, "set")
      THEN {Changed(PutUnlessEmpty(t, k, Set(Value(t, k) \ {e})), 1) : e \in Value(t, k)}
      ELSE {t}

\* The target is replaced, or deleted when the result is empty.
StoreResult(s, dst, value) == PutUnlessEmpty(DeleteKey(s, dst), dst, value)

\* Sources are looked up in order, up to one that is missing or no set.
SinterstoreCommand(s, dst, keys) ==
  LET stops == {i \in DOMAIN keys : Volatile(s, keys[i]) \/ ~Is(s, keys[i], "set")}
      looked == IF stops = {} THEN Len(keys) ELSE Min(stops)
      t == LookupKeysWrite(s, SubSeq(keys, 1, looked))
  IN  IF stops = {}
      THEN Changed(StoreResult(t, dst, Set({e \in Value(t, keys[1]) :
             \A i \in DOMAIN keys : e \in Value(t, keys[i])})), 1)
      ELSE IF Absent(t, keys[looked]) THEN DeleteCounted(t, dst) ELSE t

SunionDiffStore(s, dst, keys, union) ==
  LET wrong == {i \in DOMAIN keys : ~Volatile(s, keys[i])
                                    /\ ~Absent(s, keys[i]) /\ ~Is(s, keys[i], "set")}
      looked == IF wrong = {} THEN Len(keys) ELSE Min(wrong)
      t == LookupKeysWrite(s, SubSeq(keys, 1, looked))
      others == UNION {Members(t, keys[i]) : i \in 2..Len(keys)}
  IN  IF wrong # {} THEN t
      ELSE Changed(StoreResult(t, dst, Set(IF union THEN Members(t, keys[1]) \cup others
                                           ELSE Members(t, keys[1]) \ others)), 1)

-----------------------------------------------------------------------------
(* Sorted sets.                                                            *)

Scores(s, k) == IF Absent(s, k) THEN <<>> ELSE Value(s, k)
With(f, e, x) == [y \in DOMAIN f \cup {e} |-> IF y = e THEN x ELSE f[y]]
Without(f, gone) == [y \in DOMAIN f \ gone |-> f[y]]

ZaddGenericCommand(s, k, e, score, increment) ==
  LET t == LookupKeyWrite(s, k)
      old == Scores(t, k)
      new == IF increment /\ e \in DOMAIN old THEN old[e] + score ELSE score
  IN  IF ~Absent(t, k) /\ ~Is(t, k, "zset") THEN t
      ELSE IF e \in DOMAIN old /\ old[e] = new THEN t
      ELSE Changed(Put(t, k, ZSet(With(old, e, new))), 1)

\* zremCommand, zremrangebyscoreCommand, zremrangebyrankCommand.
ZremMembers(t, k, gone) ==
  LET here == gone \cap DOMAIN Value(t, k)
  IN  Changed(IF here = DOMAIN Value(t, k) THEN DeleteKey(t, k)
              ELSE Put(t, k, ZSet(Without(Value(t, k), here))), Cardinality(here))

ZremCommand(s, k, e) ==
  LET t == LookupKeyWrite(s, k) IN OfType(t, k, "zset", ZremMembers(t, k, {e}))

ZremrangebyscoreCommand(s, k, min, max) ==
  LET t == LookupKeyWrite(s, k)
  IN  OfType(t, k, "zset",
        ZremMembers(t, k, {e \in DOMAIN Value(t, k) : Value(t, k)[e] \in min..max}))

\* Ordered by score, then by member.
Rank(f, e) == Cardinality({x \in DOMAIN f : f[x] < f[e] \/ (f[x] = f[e] /\ x <= e)})

ZremrangebyrankCommand(s, k, start, end) ==
  LET t == LookupKeyWrite(s, k)
      n == Cardinality(DOMAIN Value(t, k))
  IN  OfType(t, k, "zset",
        ZremMembers(t, k, {e \in DOMAIN Value(t, k) :
                             Rank(Value(t, k), e) \in RangeStart(start, n)..RangeEnd(end, n)}))

ZunionInterAggregate(aggregate, scores) ==
  CASE aggregate = "sum" -> FoldLeft(+, 0, scores)
    [] aggregate = "min" -> Min(Range(scores))
    [] aggregate = "max" -> Max(Range(scores))

\* What was at dst is deleted, and an empty result is not stored.
ZunionInterStore(s, dst, scores) ==
  LET u == DeleteCounted(s, dst)
  IN  IF DOMAIN scores = {} THEN u ELSE Changed(Put(u, dst, ZSet(scores)), 1)

ZunionInterGenericCommand(s, dst, keys, weights, aggregate, union) ==
  LET wrong == {i \in DOMAIN keys : ~Volatile(s, keys[i])
                                    /\ ~Absent(s, keys[i]) /\ ~Is(s, keys[i], "zset")}
      looked == IF wrong = {} THEN Len(keys) ELSE Min(wrong)
      t == LookupKeysWrite(s, SubSeq(keys, 1, looked))
      holders(e) == SelectSeq([i \in DOMAIN keys |-> i], LAMBDA i : e \in DOMAIN Scores(t, keys[i]))
      all == UNION {DOMAIN Scores(t, keys[i]) : i \in DOMAIN keys}
      members == {e \in all : union \/ Len(holders(e)) = Len(keys)}
      score(e) == ZunionInterAggregate(aggregate,
                    [j \in DOMAIN holders(e) |->
                       weights[holders(e)[j]] * Scores(t, keys[holders(e)[j]])[e]])
  IN  IF wrong # {} THEN t ELSE ZunionInterStore(t, dst, [e \in members |-> score(e)])

-----------------------------------------------------------------------------
(* Hashes; that small ones are kept as zipmaps does not show here.         *)

\* The fields to change: none yet when the key is not there.
HashLookupWriteOrCreate(t, k) == IF Absent(t, k) THEN <<>> ELSE Value(t, k)

HsetCommand(s, k, f, v, nx) ==
  LET t == LookupKeyWrite(s, k)
      old == HashLookupWriteOrCreate(t, k)
  IN  IF ~Absent(t, k) /\ ~Is(t, k, "hash") THEN t
      ELSE IF nx /\ f \in DOMAIN old THEN t
      ELSE Changed(Put(t, k, Hash(With(old, f, v))), 1)

HmsetCommand(s, k, bindings) ==
  LET t == LookupKeyWrite(s, k)
      old == HashLookupWriteOrCreate(t, k)
  IN  IF ~Absent(t, k) /\ ~Is(t, k, "hash") THEN t
      ELSE Changed(Put(t, k, Hash(FoldLeft(LAMBDA h, b : With(h, b[1], b[2]), old, bindings))), 1)

HincrbyCommand(s, k, f, incr) ==
  LET t == LookupKeyWrite(s, k)
      old == HashLookupWriteOrCreate(t, k)
      new == IF f \in DOMAIN old THEN old[f] + incr ELSE incr
  IN  IF ~Absent(t, k) /\ ~Is(t, k, "hash") THEN t
      ELSE IF f \in DOMAIN old /\ old[f] = Text THEN t
      ELSE Changed(Put(t, k, Hash(With(old, f, new))), 1)

HdelCommand(s, k, f) ==
  LET t == LookupKeyWrite(s, k)
  IN  OfType(t, k, "hash",
        IF f \notin DOMAIN Value(t, k) THEN t
        ELSE Changed(IF DOMAIN Value(t, k) = {f} THEN DeleteKey(t, k)
                     ELSE Put(t, k, Hash(Without(Value(t, k), {f}))), 1))

-----------------------------------------------------------------------------
(* SORT.                                                                   *)

\* What lookupKeyByPattern finds for an element: a string.
ByPattern(s, e) ==
  LET k == WeightKey[e]
  IN  IF Is(s, k, "string") THEN Value(s, k) ELSE Text

\* strtod of a text is 0, and so is the score of an element without weight.
SortScore(s, e, by) ==
  LET w == IF by = "weight" THEN ByPattern(s, e) ELSE e
  IN  IF w = Text THEN 0 ELSE w

\* The orders the elements may be loaded in: a hash table has its own.
Loaded(s, k) ==
  IF Is(s, k, "list") THEN {Value(s, k)}
  ELSE SetToSeqs(IF Is(s, k, "set") THEN Value(s, k) ELSE DOMAIN Value(s, k))

\* qsort and pqsort put elements of equal score in any order.
Sorted(s, vector, by, desc) ==
  {v \in {[i \in DOMAIN vector |-> vector[p[i]]] : p \in SetToSeqs(DOMAIN vector)} :
     \A i \in 1..(Len(vector) - 1) :
       LET x == SortScore(s, v[i], by)  y == SortScore(s, v[i + 1], by)
       IN  IF desc THEN x >= y ELSE x <= y}

\* The slice that LIMIT selects, as in sortCommand.
SortSlice(vector, limitstart, limitcount) ==
  LET n == Len(vector)
      start == IF limitstart < 0 THEN 0 ELSE limitstart
      end == IF limitcount < 0 THEN n - 1 ELSE start + limitcount - 1
  IN  IF start >= n THEN <<>> ELSE SubSeq(vector, start + 1, IF end >= n THEN n ELSE end + 1)

Weights(vector) == [i \in DOMAIN vector |-> WeightKey[vector[i]]]

\* The slices that SORT may select of the elements of k, each with the dataset
\* that looking up k and the weights leaves.  Options: by ("self", "weight" or
\* "nosort"), get, desc, limit.
SortSlices(s, k, o) ==
  LET t == LookupKeyRead(s, k)
      Read(v) == IF o.by = "weight" THEN LookupKeysRead(t, Weights(v)) ELSE t
      Orders(v) == IF o.by = "nosort" THEN {v} ELSE Sorted(Read(v), v, o.by, o.desc)
      Slice(v) == [s |-> Read(v), slice |-> SortSlice(v, o.limit[1], o.limit[2])]
  IN  {Slice(w) : w \in UNION {Orders(v) : v \in Loaded(t, k)}}

SortGet(x, get) == IF get THEN LookupKeysRead(x.s, Weights(x.slice)) ELSE x.s

\* The option STORE: what GET does not find is stored as an empty string.
SortStored(x, dst, get) ==
  LET u == SortGet(x, get)
      output == IF get THEN [i \in DOMAIN x.slice |-> ByPattern(u, x.slice[i])] ELSE x.slice
  IN  Changed(Put(u, dst, List(output)), 1 + Len(output))

Sortable(s, k) == ~Absent(s, k) /\ s.val[k].type \in {"list", "set", "zset"}

\* With STORE; Queries has SORT without it.
SortCommand(s, k, dst, o) ==
  LET t == LookupKeyRead(s, k)
  IN  IF Sortable(t, k) THEN {SortStored(x, dst, o.get) : x \in SortSlices(s, k, o)} ELSE {t}

=============================================================================
