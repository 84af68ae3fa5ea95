------------------------------- MODULE Queries -------------------------------
(***************************************************************************)
(* The commands that only read, on the datasets of Dataset.  Looking a key *)
(* up to read it deletes it when its time has passed, so that an answer is *)
(* a reply and the dataset that is left; where the code draws an element   *)
(* there are several.                                                      *)
(***************************************************************************)
EXTENDS Dataset

Nil == "nil"
WrongType == "wrong type"

\* One reply, whose parts come in the order of a hash table or not.
Answer(s, reply) == [s |-> s, reply |-> reply]
Number(n) == [n |-> n]
Bulk(v) == [bulk |-> v]
Multi(parts) == [parts |-> parts]

\* lookupKeyReadOrReply and checkType: what the key holds, when it is of the
\* type, as make says; otherwise the reply for a key that is not there.
ReadOf(s, k, type, missing, make(_)) ==
  LET t == LookupKeyRead(s, k)
  IN  Answer(t, IF Absent(t, k) THEN missing ELSE IF ~Is(t, k, type) THEN WrongType ELSE make(Value(t, k)))

GetCommand(s, k) == ReadOf(s, k, "string", Nil, Bulk)

\* A key of another type counts as missing.
MgetCommand(s, keys) ==
  LET t == LookupKeysRead(s, keys)
      One(k) == IF Is(t, k, "string") THEN Bulk(Value(t, k)) ELSE Nil
  IN  Answer(t, Multi([i \in DOMAIN keys |-> One(keys[i])]))

ExistsCommand(s, k) ==
  LET t == ExpireIfNeeded(s, k) IN Answer(t, Number(IF Absent(t, k) THEN 0 ELSE 1))

TypeCommand(s, k) ==
  LET t == LookupKeyRead(s, k) IN Answer(t, t.val[k].type)

\* getExpire, which deletes nothing; a time that has passed is no time.
TtlCommand(s, k) == Answer(s, Number(IF s.exp[k] = "later" THEN 1 ELSE -1))

\* Draws until a key is alive or none is left.
RECURSIVE RandomkeyCommand(_)
RandomkeyCommand(s) ==
  LET present == {k \in Keys : ~Absent(s, k)}
      Drawn(k) == LET t == ExpireIfNeeded(s, k)
                  IN  IF Absent(t, k) THEN RandomkeyCommand(t) ELSE {Answer(t, Bulk(k))}
  IN  IF present = {} THEN {Answer(s, Nil)} ELSE UNION {Drawn(k) : k \in present}

\* Mutant of KeysCommand: keys are listed whether their time has passed or not.
KeysOfAll(s, pattern) ==
  Answer(s, Multi({k \in pattern : ~Absent(s, k)}))

\* Here a pattern is the set of keys it matches (Glob has stringmatchlen).
KeysCommand(s, pattern) ==
  LET t == FoldSet(LAMBDA k, d : ExpireIfNeeded(d, k), s, pattern)
  IN  Answer(t, Multi({k \in pattern : ~Absent(t, k)}))

DbsizeCommand(s) == Answer(s, Number(Cardinality({k \in Keys : ~Absent(s, k)})))

ScardCommand(s, k) == ReadOf(s, k, "set", Number(0), LAMBDA m : Number(Cardinality(m)))

SismemberCommand(s, k, e) ==
  ReadOf(s, k, "set", Number(0), LAMBDA m : Number(IF e \in m THEN 1 ELSE 0))

SrandmemberCommand(s, k) ==
  LET Drawn(e) == ReadOf(s, k, "set", Nil, LAMBDA m : Bulk(e))
  IN  IF Is(LookupKeyRead(s, k), k, "set") THEN {Drawn(e) : e \in Value(s, k)} ELSE {Drawn(0)}

FieldOf(h, f) == IF f \in DOMAIN h THEN Bulk(h[f]) ELSE Nil

HlenCommand(s, k) ==
  ReadOf(s, k, "hash", Number(0), LAMBDA h : Number(Cardinality(DOMAIN h)))

HexistsCommand(s, k, f) ==
  ReadOf(s, k, "hash", Number(0), LAMBDA h : Number(IF f \in DOMAIN h THEN 1 ELSE 0))

HgetCommand(s, k, f) == ReadOf(s, k, "hash", Nil, LAMBDA h : FieldOf(h, f))

\* After the error a reply per field follows all the same; what hashGet makes
\* of a value that is no hash is not defined.
HmgetCommand(s, k, fields) ==
  LET none == [i \in DOMAIN fields |-> Nil]
  IN  ReadOf(s, k, "hash", Multi(none), LAMBDA h : Multi([i \in DOMAIN fields |-> FieldOf(h, fields[i])]))

\* HKEYS, HVALS and HGETALL: the count is of what was sent.
GenericHgetallCommand(s, k, keys, values) ==
  ReadOf(s, k, "hash", Multi({}),
         LAMBDA h : Multi({<<IF keys THEN f ELSE Nil, IF values THEN h[f] ELSE Nil>> : f \in DOMAIN h}))

\* SORT without STORE.
SortReply(s, k, o) ==
  LET t == LookupKeyRead(s, k)
      Found(u, e) == IF Is(u, WeightKey[e], "string") THEN Bulk(ByPattern(u, e)) ELSE Nil
      Output(u, e) == IF o.get THEN Found(u, e) ELSE Bulk(e)
      Sent(x) == LET u == SortGet(x, o.get)
                 IN  Answer(u, Multi([i \in DOMAIN x.slice |-> Output(u, x.slice[i])]))
  IN  IF Absent(t, k) THEN {Answer(t, Multi(<<>>))}
      ELSE IF Sortable(t, k) THEN {Sent(x) : x \in SortSlices(s, k, o)}
      ELSE {Answer(t, WrongType)}

-----------------------------------------------------------------------------
\* Queries by name; e is an element or a field.
Answers(s, q) ==
  CASE q.op = "get" -> {GetCommand(s, q.k)}
    [] q.op = "mget" -> {MgetCommand(s, q.ks)}
    [] q.op = "exists" -> {ExistsCommand(s, q.k)}
    [] q.op = "type" -> {TypeCommand(s, q.k)}
    [] q.op = "ttl" -> {TtlCommand(s, q.k)}
    [] q.op = "randomkey" -> RandomkeyCommand(s)
    [] q.op = "keys" -> {KeysCommand(s, q.pattern)}
    [] q.op = "dbsize" -> {DbsizeCommand(s)}
    [] q.op = "scard" -> {ScardCommand(s, q.k)}
    [] q.op = "sismember" -> {SismemberCommand(s, q.k, q.e)}
    [] q.op = "srandmember" -> SrandmemberCommand(s, q.k)
    [] q.op = "hget" -> {HgetCommand(s, q.k, q.e)}
    [] q.op = "hmget" -> {HmgetCommand(s, q.k, q.es)}
    [] q.op = "hlen" -> {HlenCommand(s, q.k)}
    [] q.op = "hexists" -> {HexistsCommand(s, q.k, q.e)}
    [] q.op = "sortread" -> SortReply(s, q.k, q.o)
    [] q.op = "hgetall" -> {GenericHgetallCommand(s, q.k, q.keys, q.values)}

QueryOps == {"get", "mget", "exists", "type", "ttl", "randomkey", "keys", "dbsize", "scard",
             "sismember", "srandmember", "hget", "hmget", "hlen", "hexists", "hgetall", "sortread"}

\* A dataset as it is for a reader: the keys whose time has passed are gone.
Living(s) == FoldSet(LAMBDA k, d : ExpireIfNeeded(d, k), s, Keys)

=============================================================================
