------------------------------- MODULE Objects -------------------------------
(***************************************************************************)
(* One value and the commands on it, by the data structure that holds it:  *)
(* a string object, a linked list, a set, a sorted set with its skip list, *)
(* a hash as a zipmap and as a dict, an sds string below them all; and the *)
(* configuration.  A redis-cli process, an event loop, a redis-benchmark   *)
(* process are objects as well: calls drive them too.                      *)
(*                                                                         *)
(* The commands here work on cells, nodes and pointers.  Dataset has the   *)
(* same commands on sequences, sets and functions: what a client is        *)
(* promised.  Rdb, CheckDump and Digest read the structures too.           *)
(*                                                                         *)
(* A value that is empty stands for a key that is not there.               *)
(***************************************************************************)
EXTENDS CheckDump, Digest

CONSTANTS Texts,         \* strings that clients send as values and elements
          LongText,      \* a string that is compressed, sent as well
          Fields, FieldValues,   \* of hashes
          CountValues,   \* strings that HINCRBY may leave there
          ZsetMembers,       \* of sorted sets, positive numbers
          ScoreValues,   \* for ZADD
          Increments,    \* of scores, strings and fields
          Indexes,       \* positions, negative ones count from the end
          MaxLength,     \* of lists, strings and sds strings
          Blank, Quote, Backslash,  \* see Sds
          Files, Unusable,          \* see Config
          Settings,                 \* for CONFIG SET: <<name, value>>
          CliArgs, Stdins, Lines, Replies,  \* for redis-cli: arguments, input, lines, answers
          Password,                 \* see Cli
          MonitoredLines,           \* commands that a monitor sees
          Setsize, Thousand,        \* see Ae
          FileEvents, Timers,       \* <<fd, mask, handler>>, <<delay, handler>>
          MaxSeconds, MaxTimers,    \* bounds on the clock and on the timers made
          RequestLen, Reads, Answers, BenchArgs   \* see Bench; options of redis-benchmark

VARIABLE obj             \* [type, ptr]

S == INSTANCE Sds WITH Escaped <- {}, Control <- LAMBDA c : c
P == INSTANCE Pqsort WITH Few <- 3, Many <- 6,
                          Cmp <- LAMBDA x, y : IF x < y THEN -1 ELSE IF x = y THEN 0 ELSE 1
G == INSTANCE Glob
F == INSTANCE Config
C == INSTANCE Cli
E == INSTANCE Ae
B == INSTANCE Bench WITH Newline <- C!Lf
D == INSTANCE Dataset WITH Keys <- {"k"}, WeightKey <- <<>>

Command(name, args) == [name |-> name, args |-> args]

IsEmpty(o) ==
  CASE o.type = "string" -> FALSE
    [] o.type = "list" -> o.ptr.len = 0
    [] o.type = "set" -> o.ptr = {}
    [] o.type = "zset" -> o.ptr.dict = <<>>
    [] o.type = "hash" -> HashLength(o.ptr) = 0
    [] OTHER -> FALSE

\* Only these make a key; the others do nothing when there is none.
Creating == {"SET", "LPUSH", "RPUSH", "SADD", "ZADD", "ZINCRBY", "HSET", "HSETNX", "HMSET", "HINCRBY"}

-----------------------------------------------------------------------------
(* Commands by type, and what each does to the structure.                  *)

StringCommands ==
  {Command("SET", <<t>>) : t \in Texts \cup {LongText}} \cup {Command("APPEND", <<t>>) : t \in Texts}
  \cup {Command("INCRBY", <<n>>) : n \in Increments}

StringExec(o, c) ==
  CASE c.name = "SET" -> SetGenericCommand(c.args[1])
    [] c.name = "APPEND" -> AppendCommand(o, c.args[1])
    [] c.name = "INCRBY" -> IncrDecrCommand(o, c.args[1])

ListCommands ==
  {Command(name, <<t>>) : name \in {"LPUSH", "RPUSH"}, t \in Texts}
  \cup {Command(name, <<>>) : name \in {"LPOP", "RPOP", "RPOPLPUSH"}}
  \cup {Command("LSET", <<i, t>>) : i \in Indexes, t \in Texts}
  \cup {Command("LTRIM", <<i, j>>) : i, j \in Indexes}
  \cup {Command("LREM", <<n, t>>) : n \in -1..1, t \in Texts}

ListExec(l, c) ==
  CASE c.name = "LPUSH" -> L!PushGenericCommand(l, c.args[1], TRUE)
    [] c.name = "RPUSH" -> L!PushGenericCommand(l, c.args[1], FALSE)
    [] c.name = "LPOP" -> L!PopGenericCommand(l, TRUE)
    [] c.name = "RPOP" -> L!PopGenericCommand(l, FALSE)
    [] c.name = "RPOPLPUSH" -> L!Rpoplpushcommand(l)
    [] c.name = "LSET" -> L!LsetCommand(l, c.args[1], c.args[2])
    [] c.name = "LTRIM" -> L!LtrimCommand(l, c.args[1], c.args[2])
    [] c.name = "LREM" -> L!LremCommand(l, c.args[1], c.args[2])

SetCommands == {Command(name, <<t>>) : name \in {"SADD", "SREM"}, t \in Texts \cup {LongText}}

\* A set is a dict from string objects to nothing.
SetFind(set, t) == {o \in set : DictEncObjKeyCompare(o, TryObjectEncoding(Raw(t)))}

SetExec(set, c) ==
  CASE c.name = "SADD" ->
         IF SetFind(set, c.args[1]) # {} THEN set ELSE set \cup {TryObjectEncoding(Raw(c.args[1]))}
    [] c.name = "SREM" -> set \ SetFind(set, c.args[1])

\* The level that zslRandomLevel draws is the last argument.
ZsetCommands ==
  {Command("ZADD", <<e, score, level>>) : e \in ZsetMembers, score \in ScoreValues, level \in 1..MaxLevel}
  \cup {Command("ZINCRBY", <<e, n, level>>) : e \in ZsetMembers, n \in Increments, level \in 1..MaxLevel}
  \cup {Command("ZREM", <<e>>) : e \in ZsetMembers}
  \cup {Command("ZREMRANGEBYSCORE", <<min, max>>) : min, max \in ScoreValues}
  \cup {Command("ZREMRANGEBYRANK", <<i, j>>) : i, j \in Indexes}

ZsetExec(zs, c) ==
  CASE c.name = "ZADD" -> Z!ZaddGenericCommand(zs, c.args[1], c.args[2], FALSE, c.args[3])
    [] c.name = "ZINCRBY" -> Z!ZaddGenericCommand(zs, c.args[1], c.args[2], TRUE, c.args[3])
    [] c.name = "ZREM" -> Z!ZremCommand(zs, c.args[1])
    [] c.name = "ZREMRANGEBYSCORE" -> Z!ZremrangebyscoreCommand(zs, c.args[1], c.args[2])
    [] c.name = "ZREMRANGEBYRANK" -> Z!ZremrangebyrankCommand(zs, c.args[1], c.args[2])

HashCommands ==
  {Command(name, <<f, t>>) : name \in {"HSET", "HSETNX"}, f \in Fields, t \in FieldValues}
  \cup {Command("HMSET", <<f, t, g, t>>) : f, g \in Fields, t \in FieldValues}
  \cup {Command("HINCRBY", <<f, n>>) : f \in Fields, n \in Increments}
  \cup {Command("HDEL", <<f>>) : f \in Fields}

HashExec(h, c) ==
  CASE c.name = "HSET" -> HsetCommand(h, c.args[1], c.args[2])
    [] c.name = "HSETNX" -> HsetnxCommand(h, c.args[1], c.args[2])
    [] c.name = "HMSET" -> HmsetCommand(h, c.args)
    [] c.name = "HINCRBY" -> HincrbyCommand(h, c.args[1], c.args[2])
    [] c.name = "HDEL" -> HdelCommand(h, c.args[1])

SdsCalls ==
  {Command(name, <<t>>) : name \in {"cat", "cpy"}, t \in Texts}
  \cup {Command("trim", <<t[1]>>) : t \in Texts \ {<<>>}}
  \cup {Command("range", <<i, j>>) : i, j \in Indexes} \cup {Command("updatelen", <<>>)}

SdsExec(s, c) ==
  CASE c.name = "cat" -> S!Sdscatlen(s, c.args[1])
    [] c.name = "cpy" -> S!Sdscpylen(s, c.args[1])
    [] c.name = "trim" -> S!Sdstrim(s, {c.args[1]})
    [] c.name = "range" -> S!Sdsrange(s, c.args[1], c.args[2])
    [] c.name = "updatelen" -> S!Sdsupdatelen(s)

\* The files that CONFIG SET appendonly yes opens and the child it forks.
ConfigCommands ==
  {Command("CONFIG", <<"set", <<st[1], st[2]>>, outcome>>) :
     st \in Settings, outcome \in {"ok", "unopened", "unforked"}}
  \cup {Command("CONFIG", <<"resetstat", <<>>, "ok">>)}

ConfigExec(s, c) == F!ConfigCommand(s, c.args[1], c.args[2], c.args[3]).s

\* The server may close the connection before a line, after it has run it or
\* within the reply, and may then take another connection or not.
Servers ==
  [reply : DOMAIN Replies, link : {"up"}, back : {TRUE}]
  \cup [reply : {Len(Replies)}, link : {"before", "after", "within"}, back : BOOLEAN]

CliCommands(s) ==
  CASE s.proc = "start" -> {Command("main", <<args, stdin, v>>) :
                              args \in CliArgs, stdin \in Stdins, v \in {v \in Servers : v.link # "before"}}
    [] s.proc = "prompt" -> {Command("line", <<line, v>>) : line \in Lines, v \in Servers}
    [] s.proc = "monitor" -> {Command("push", <<cells>>) :
         cells \in {C!ReplicationFeedMonitors(1, argv) : argv \in MonitoredLines} \cup {<<>>}}
    [] s.proc = "pubsub" -> {Command("push", <<cells>>) : cells \in {C!AddReply(Replies[i]) : i \in DOMAIN Replies} \cup {<<>>}}
    [] OTHER -> {}

LoopCommands(l) ==
  {Command("create", <<e[1], e[2], e[3], accepted>>) : e \in FileEvents, accepted \in BOOLEAN}
  \cup {Command("delete", <<e[1], e[2]>>) : e \in FileEvents}
  \cup {Command("timer", t) : t \in Timers} \cup {Command("untimer", <<l.timers[i].id>>) : i \in DOMAIN l.timers}
  \cup {Command("turn", <<elapsed, fired>>) : elapsed \in 0..1, fired \in E!Fired(l)}

BenchCalls(s) ==
  CASE s.proc = "start" -> {Command("main", <<args, connects>>) : args \in BenchArgs, connects \in BOOLEAN}
    [] s.proc = "running" -> {Command("pass", <<fired, connects>>) : fired \in B!Passes(s), connects \in BOOLEAN}
    [] OTHER -> {}

CommandsOf(o) ==
  LET all == CASE o.type = "string" -> StringCommands [] o.type = "list" -> ListCommands
               [] o.type = "set" -> SetCommands [] o.type = "zset" -> ZsetCommands
               [] o.type = "hash" -> HashCommands [] o.type = "sds" -> SdsCalls
               [] o.type = "config" -> ConfigCommands [] o.type = "cli" -> CliCommands(o.ptr)
               [] o.type = "loop" -> LoopCommands(o.ptr) [] o.type = "bench" -> BenchCalls(o.ptr)
  IN  IF IsEmpty(o) THEN {c \in all : c.name \in Creating} ELSE all

\* A hash that has become empty is gone; the next one starts as a zipmap again.
HashLeft(h) == IF HashLength(h) = 0 THEN CreateHashObject ELSE h

\* redis-cli and the event loop are left with what happened in the call.
Executed(o, c) ==
  CASE o.type = "string" -> Object("string", StringExec(o.ptr, c))
    [] o.type = "list" -> Object("list", ListExec(o.ptr, c))
    [] o.type = "set" -> Object("set", SetExec(o.ptr, c))
    [] o.type = "zset" -> Object("zset", ZsetExec(o.ptr, c))
    [] o.type = "hash" -> Object("hash", HashLeft(HashExec(o.ptr, c)))
    [] o.type = "sds" -> Object("sds", SdsExec(o.ptr, c))
    [] o.type = "config" -> Object("config", ConfigExec(o.ptr, c))
    [] o.type = "cli" -> Object("cli", C!CliExec(o.ptr, c))
    [] o.type = "loop" -> Object("loop", E!AeExec(o.ptr, c))
    [] o.type = "bench" -> Object("bench", B!BenchExec(o.ptr, c))

Forgotten(o) ==
  CASE o.type = "cli" -> [o EXCEPT !.ptr.ran = <<>>, !.ptr.out = <<>>, !.ptr.ret = 0]
    [] o.type = "loop" -> [o EXCEPT !.ptr.calls = <<>>]
    [] OTHER -> o

\* Bounds, no part of the code.
Small(o) ==
  CASE o.type = "string" -> Decoded(o.ptr) = LongText \/ Len(Decoded(o.ptr)) <= MaxLength
    [] o.type = "list" -> o.ptr.len <= MaxLength
    [] o.type = "zset" -> \A e \in DOMAIN o.ptr.dict : o.ptr.dict[e] \in ScoreValues
    [] o.type = "hash" -> \A p \in HashPairs(o.ptr) : p.val \in FieldValues \cup CountValues
    [] o.type = "sds" -> o.ptr.len <= MaxLength /\ o.ptr.free <= 2 * MaxLength
    [] o.type = "cli" -> Len(o.ptr.in) <= 2 * MaxLength
    [] o.type = "loop" -> o.ptr.now.sec <= MaxSeconds /\ o.ptr.nextid <= MaxTimers
    [] OTHER -> TRUE

Init ==
  obj \in {Object("string", Raw(<<>>)), Object("list", L!ListCreate), Object("set", {}),
           Object("zset", Z!CreateZsetObject), Object("hash", CreateHashObject),
           Object("sds", S!Sdsnewlen(<<>>)), Object("config", F!InitServerConfig)}
         \cup {Object("loop", E!AeCreateEventLoop), Object("bench", B!NewBench)}
         \cup {Object("cli", C!NewCli(protected)) : protected \in BOOLEAN}
         \cup {Object("config", F!Started(f).s) : f \in {f \in DOMAIN Files : F!Started(f).ok}}

Call == \E c \in CommandsOf(obj) : \E after \in {Executed(obj, c)} : Small(after) /\ obj' = Forgotten(after)

ObjectsSpec == Init /\ [][Call]_obj

-----------------------------------------------------------------------------
(* What the structures must be.                                            *)

StructureOK(o) ==
  CASE o.type = "string" -> o.ptr.encoding = "int" => LongOf(o.ptr) \in LongMin..LongMax
    [] o.type = "list" -> L!ListOK(o.ptr)
    [] o.type = "set" -> \A a, b \in o.ptr : Decoded(a) = Decoded(b) => a = b
    [] o.type = "zset" -> Z!ZsetOK(o.ptr)
    [] o.type = "hash" -> HashOK(o.ptr)
    [] o.type = "sds" -> S!SdsOK(o.ptr)
    [] o.type = "config" -> F!ConfigOK(o.ptr)
    [] o.type = "cli" -> C!CliOK(o.ptr)
    [] o.type = "loop" -> E!LoopOK(o.ptr)
    [] o.type = "bench" -> B!BenchOK(o.ptr)

\* After any commands every structure is whole: the pointers of a list mirror
\* each other, the levels, spans and backward pointers of a skip list agree with
\* its dict, a zipmap can be walked to its end and has no field twice, an sds
\* string is followed by its nul and has the free cells it says; no file and no
\* CONFIG SET gives a flag, an enumeration, the port, the number of databases or
\* the seconds of a save point a value that it must not have; a benchmark counts
\* its clients as they are.  The timeout and the changes of a save point are left
\* out: CONFIG SET cuts them to int and may leave them negative, which the loader
\* refuses (redis.c:9995, 10050-10053; 1844, 1857).
WellFormed == StructureOK(obj)

-----------------------------------------------------------------------------
(* The structures against the values they stand for.                       *)

Strings(l) == [i \in DOMAIN l |-> Decoded(l[i])]

FieldMap(pairs) ==
  [f \in {p.key : p \in pairs} |-> (CHOOSE p \in pairs : p.key = f).val]

\* The value that the structure stands for: of Dataset, or a string.
ValueOf(o) ==
  CASE o.type = "string" -> Decoded(o.ptr)
    [] o.type = "sds" -> S!Content(o.ptr)
    [] o.type = "list" -> D!List(Strings(L!Values(o.ptr, L!ListRewind(o.ptr))))
    [] o.type = "set" -> D!Set({Decoded(m) : m \in o.ptr})
    [] o.type = "zset" -> D!ZSet(o.ptr.dict)
    [] o.type = "hash" -> D!Hash(FieldMap(HashPairs(o.ptr)))
    [] OTHER -> o.ptr

\* The numbers that have a name, by name.
Named == LET names == {<<Ll2string(n), n>> : n \in -120..120}
         IN  [s \in {p[1] : p \in names} |-> (CHOOSE p \in names : p[1] = s)[2]]

\* A string that is no number stays; of one that is oddly written nothing is said.
Incremented(s, n, otherwise) ==
  IF s \in DOMAIN Named /\ Named[s] + n \in -120..120 THEN Ll2string(Named[s] + n) ELSE otherwise

StringMeaning(s, c, otherwise) ==
  CASE c.name = "SET" -> c.args[1]
    [] c.name = "APPEND" -> s \o c.args[1]
    [] c.name = "INCRBY" -> Incremented(s, c.args[1], otherwise)

Ranged(s, i, j) == SubSeq(s, D!RangeStart(i, Len(s)), D!RangeEnd(j, Len(s)))

Trimmed(s, c) ==
  LET rest == {i \in DOMAIN s : s[i] \notin {c, Nul}}
  IN  IF rest = {} THEN <<>> ELSE SubSeq(s, Min(rest), Max(rest))

\* Of ranges only those that lie within the string.
SdsMeaning(s, c, otherwise) ==
  CASE c.name = "cat" -> s \o c.args[1]
    [] c.name = "cpy" -> c.args[1]
    [] c.name = "trim" -> Trimmed(s, c.args[1])
    [] c.name = "updatelen" -> CString(s)
    [] c.name = "range" ->
         IF c.args[1] < Len(s) /\ c.args[2] >= -Len(s) THEN Ranged(s, c.args[1], c.args[2])
         ELSE otherwise

DbMeaning(s, c, otherwise) ==
  LET a == c.args
  IN  CASE c.name = "LPUSH" -> D!PushGenericCommand(s, "k", a[1], TRUE)
        [] c.name = "RPUSH" -> D!PushGenericCommand(s, "k", a[1], FALSE)
        [] c.name = "LPOP" -> D!PopGenericCommand(s, "k", TRUE)
        [] c.name = "RPOP" -> D!PopGenericCommand(s, "k", FALSE)
        [] c.name = "RPOPLPUSH" -> D!Rpoplpushcommand(s, "k", "k")
        [] c.name = "LSET" -> D!LsetCommand(s, "k", a[1], a[2])
        [] c.name = "LTRIM" -> D!LtrimCommand(s, "k", a[1], a[2])
        [] c.name = "LREM" -> D!LremCommand(s, "k", a[1], a[2])
        [] c.name = "SADD" -> D!SaddCommand(s, "k", a[1])
        [] c.name = "SREM" -> D!SremCommand(s, "k", a[1])
        [] c.name = "ZADD" -> D!ZaddGenericCommand(s, "k", a[1], a[2], FALSE)
        [] c.name = "ZINCRBY" -> D!ZaddGenericCommand(s, "k", a[1], a[2], TRUE)
        [] c.name = "ZREM" -> D!ZremCommand(s, "k", a[1])
        [] c.name = "ZREMRANGEBYSCORE" -> D!ZremrangebyscoreCommand(s, "k", a[1], a[2])
        [] c.name = "ZREMRANGEBYRANK" -> D!ZremrangebyrankCommand(s, "k", a[1], a[2])
        [] c.name = "HSET" -> D!HsetCommand(s, "k", a[1], a[2], FALSE)
        [] c.name = "HSETNX" -> D!HsetCommand(s, "k", a[1], a[2], TRUE)
        [] c.name = "HMSET" -> D!HmsetCommand(s, "k", <<<<a[1], a[2]>>, <<a[3], a[4]>>>>)
        [] c.name = "HDEL" -> D!HdelCommand(s, "k", a[1])
        [] c.name = "HINCRBY" ->
             LET old == IF D!Absent(s, "k") \/ a[1] \notin DOMAIN D!Value(s, "k") THEN Ll2string(0)
                        ELSE D!Value(s, "k")[a[1]]
                 new == Incremented(old, a[2], <<>>)
             IN  IF new = <<>> THEN otherwise ELSE D!HsetCommand(s, "k", a[1], new, FALSE)

Stored(v) == IF D!IsEmpty(v) THEN D!EmptyDb ELSE D!Put(D!EmptyDb, "k", v)

Agrees(type, c, before, after) ==
  CASE type = "string" -> after = StringMeaning(before, c, after)
    [] type = "sds" -> after = SdsMeaning(before, c, after)
    [] type = "config" ->
         IF c.args[1] = "set" THEN F!SetAgrees(before, c.args[2][1], c.args[2][2], c.args[3])
         ELSE after = before
    [] type = "cli" -> C!CliAgrees(before, c, after)
    [] type = "loop" -> E!AeAgrees(before, c, after)
    [] type = "bench" -> B!BenchAgrees(before, c, after)
    [] OTHER -> Stored(after).val = DbMeaning(Stored(before), c, Stored(after)).val

\* Every command does to the structure what Dataset says it does to the value.
\* (Members of a sorted set with their scores, the fields of a hash under either
\* encoding, the elements of a list whether they are kept as integers or not;
\* CONFIG SET does what the file does.)
CommandsAgree ==
  \A c \in CommandsOf(obj) : Agrees(obj.type, c, ValueOf(obj), ValueOf(Executed(obj, c)))

-----------------------------------------------------------------------------
(* Queries.                                                                *)

StringAnswers(o, s) ==
  /\ StringObjectLen(o) = Len(s)
  /\ \A i, j \in Indexes : j >= -Len(s) => SubstrCommand(o, i, j) = Ranged(s, i, j)
  /\ \A t \in Texts : Nul \notin {t[k] : k \in DOMAIN t} =>
       /\ EqualStringObjects(o, TryObjectEncoding(Raw(t))) <=> s = t
       /\ DictEncObjKeyCompare(o, TryObjectEncoding(Raw(t))) <=> s = t
       /\ CompareStringObjects(o, TryObjectEncoding(Raw(t))) = -MemCmp(t, s)

ListAnswers(l, seq) ==
  LET ValueAtNode(n) == Decoded(l.node[n].value)
      dup == L!ListDup(l)
  IN  /\ L!LlenCommand(l) = Len(seq)
      /\ L!ListOK(dup) /\ Strings(L!Values(dup, L!ListRewind(dup))) = seq
      /\ \A i \in Indexes : LET at == IF i < 0 THEN Len(seq) + i + 1 ELSE i + 1
                                n == L!LindexCommand(l, i)
                            IN  IF at \in DOMAIN seq THEN ValueAtNode(n) = seq[at] ELSE n = L!Nil
      /\ \A i, j \in Indexes : Strings(L!Values(l, L!LrangeCommand(l, i, j))) = Ranged(seq, i, j)

SetAnswers(set, members) == \A t \in Texts : SetFind(set, t) # {} <=> t \in members

\* Elements between two scores, in order, after offset of them and at most limit.
Between(zs, min, max, minex, maxex, offset, limit) ==
  LET Inside(e) == /\ IF minex THEN zs.dict[e] > min ELSE zs.dict[e] >= min
                   /\ IF maxex THEN zs.dict[e] < max ELSE zs.dict[e] <= max
      all == SelectSeq(Z!InOrder(zs.dict), Inside)
  IN  SubSeq(all, offset + 1, IF limit < 0 THEN Len(all) ELSE Min({Len(all), offset + limit}))

ZsetAnswers(zs, seq) ==
  /\ Z!ZcardCommand(zs) = Len(seq)
  /\ \A i, j \in Indexes : /\ Z!ZrangeGenericCommand(zs, i, j, FALSE) = Ranged(seq, i, j)
                           /\ Z!ZrangeGenericCommand(zs, i, j, TRUE) = Ranged(Reverse(seq), i, j)
  /\ \A p \in DOMAIN seq : /\ Z!ZrankGenericCommand(zs, seq[p], FALSE) = p - 1
                           /\ Z!ZrankGenericCommand(zs, seq[p], TRUE) = Len(seq) - p
                           /\ Z!ZscoreCommand(zs, seq[p]) = zs.dict[seq[p]]
  /\ \A min, max \in ScoreValues, minex, maxex \in BOOLEAN, limit \in {<<0, -1>>, <<1, 1>>} :
       Z!GenericZrangebyscoreCommand(zs, min, max, minex, maxex, limit[1], limit[2])
         = Between(zs, min, max, minex, maxex, limit[1], limit[2])

HashAnswers(h, fields) ==
  /\ HashLength(h) = Cardinality(DOMAIN fields)
  /\ \A f \in Fields : HashExists(h, Raw(f)) <=> f \in DOMAIN fields
  /\ \A f \in DOMAIN fields : Decoded(HashGet(h, Raw(f))) = fields[f]

Arrays(lens) == UNION {[0..(n - 1) -> 1..3] : n \in lens}

\* Functions on arrays, patterns and lines: SORT's partial quicksort leaves in the
\* slots asked for what a full sort would, a pattern matches the strings that its
\* parts denote, what is compressed is decompressed to what it was, a line that is split can be put together again.
Algorithms ==
  /\ \A a \in Arrays(1..5) : \A i, j \in 0..4 :
       i <= j /\ j < Cardinality(DOMAIN a) => P!SliceSorted(a, Cardinality(DOMAIN a), i, j)
  /\ \A a \in {[i \in 0..6 |-> (i * m) % 7] : m \in 1..6} : \A i, j \in 0..6 : i <= j => P!SliceSorted(a, 7, i, j)
  /\ G!MatchesAgree({1, 2}, 3, 3)
  /\ \A in \in UNION {[1..n -> {0, 1}] : n \in 6..9} : LZ!LzfAgrees(in, Len(in) - 1)
  /\ LET lines == UNION {[1..n -> {Blank, Quote, Backslash, Byte - 1}] : n \in 0..3}
     IN  \A s \in lines : /\ \A t \in lines : S!ArgsAgree(s, t)
                          /\ \A sep \in lines : sep # <<>> /\ s # <<>> => S!SplitAgrees(s, sep)
                          /\ C!ReprAgrees(s \o <<C!Cr, C!Lf>>)
  /\ \A argv \in MonitoredLines, dictid \in {0, MaxDb} : C!MonitorAgrees(dictid, argv)

\* Every query gives the answer that the value has: ranges, ranks, indexes and
\* lookups follow the pointers, the spans or the cells of the structure, and what
\* CONFIG GET shows is what CONFIG SET takes.
AnswersAgree ==
  /\ Algorithms
  /\ CASE obj.type = "string" -> StringAnswers(obj.ptr, ValueOf(obj))
       [] obj.type = "list" -> ListAnswers(obj.ptr, ValueOf(obj).v)
       [] obj.type = "set" -> SetAnswers(obj.ptr, ValueOf(obj).v)
       [] obj.type = "zset" -> ZsetAnswers(obj.ptr, Z!InOrder(obj.ptr.dict))
       [] obj.type = "hash" -> HashAnswers(obj.ptr, ValueOf(obj).v)
       [] obj.type = "config" -> F!ShownCanBeSet(obj.ptr)
       [] OTHER -> TRUE

-----------------------------------------------------------------------------
(* The dump file.                                                          *)

\* Two databases: the object under a key of the first, volatile or not, and a
\* key of the second whose time has passed at now.
Databases(o, expire) ==
  [j \in 1..DbNum |->
     IF j = 1 THEN (IF IsEmpty(o) THEN <<>>
                    ELSE <<[key |-> <<Digit(1)>>, o |-> o, expire |-> expire]>>)
     ELSE IF j = 2 THEN <<[key |-> <<Minus>>, o |-> Object("string", Raw(<<Minus>>)), expire |-> NoExpire],
                          [key |-> <<>>, o |-> Object("string", Integer(LongMax)), expire |-> 1]>>
     ELSE <<>>]

AsObject(o) ==
  CASE o.type = "sds" -> Object("string", Raw(S!Content(o.ptr)))
    [] OTHER -> o

\* What a database holds, without representation and order.
Contents(db) == {[key |-> de.key, type |-> de.o.type, value |-> ValueOf(de.o), expire |-> de.expire] :
                   de \in Range(db)}

Unexpired(dbs, now) == [j \in DOMAIN dbs |-> SelectSeq(dbs[j], LAMBDA de : de.expire = NoExpire
                                                                          \/ de.expire >= now)]

Now == 2
NoEntry == [type |-> -1, success |-> FALSE, p |-> 0]

LoadedAgain(live, file, loaded) ==
  /\ loaded.ok /\ loaded.p = Len(file) + 1
  /\ \A j \in 1..DbNum : Contents(loaded.v[j]) = Contents(live[j])
  /\ ComputeDatasetDigest(loaded.v) = ComputeDatasetDigest(live)
  /\ \A j \in 1..DbNum : \A de \in Range(loaded.v[j]) : StructureOK(de.o)

Restores(live, file) ==
  /\ LoadedAgain(live, file, RdbLoad(file, Now))
  /\ CheckDump(file, NoEntry) = 0
  /\ \A cut \in {SubSeq(file, 1, Len(file) - n) : n \in {1, 3}} :
       ~RdbLoad(cut, Now).ok /\ CheckDump(cut, NoEntry) > 0

SnapshotRestores(dbs) == Restores(Unexpired(dbs, Now), RdbSave(dbs, Now))

\* A snapshot gives back what was saved, in structures that are whole, and with
\* the digest it had; redis-check-dump finds no error in it.  A snapshot that was
\* cut off is refused by both.
DumpRestores ==
  obj.type \notin {"config", "cli", "loop", "bench"} =>
  \A expire \in {NoExpire, Now + 1} :
    SnapshotRestores(Databases(AsObject(obj), expire))

=============================================================================
