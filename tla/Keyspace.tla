------------------------------ MODULE Keyspace ------------------------------
(***************************************************************************)
(* Two servers that execute the same commands: a master, and a copy that   *)
(* executes what the master's call() propagates (a slave, or the server    *)
(* that later loads the append only file).  Each expires volatile keys by  *)
(* its own clock, samples and memory limit, and nothing tells the other.   *)
(*                                                                         *)
(* The design that keeps them together: a command that writes a key which  *)
(* has an expire time deletes it first (deleteIfVolatile), so that it does *)
(* not matter which of the two still had it.                               *)
(***************************************************************************)
EXTENDS Queries

CONSTANTS Commands,   \* the commands clients send, see Outcomes
          Questions,  \* queries, see Answers
          Accepted(_) \* bound: the datasets that are explored

VARIABLES master, copy, \* the two datasets
          doubt         \* history: a command that may end differently was propagated

vars == <<master, copy, doubt>>

Init == master = EmptyDb /\ copy = EmptyDb /\ doubt = FALSE

-----------------------------------------------------------------------------
\* What a command may make of a dataset: k, l are keys, e is an element, n
\* and m are numbers, ks is a sequence of keys, b is a flag.
Outcomes(s, c) ==
  CASE c.op = "set"      -> {SetGenericCommand(s, c.k, c.n, FALSE, c.b)}
    [] c.op = "setnx"    -> {SetGenericCommand(s, c.k, c.n, TRUE, FALSE)}
    [] c.op = "getset"   -> {GetsetCommand(s, c.k, c.n)}
    [] c.op = "mset"     -> {MsetGenericCommand(s, c.kvs, c.b)}
    [] c.op = "incrby"   -> {IncrDecrCommand(s, c.k, c.n)}
    [] c.op = "append"   -> {AppendCommand(s, c.k)}
    [] c.op = "del"      -> {DelCommand(s, c.ks)}
    [] c.op = "expire"   -> {ExpireGenericCommand(s, c.k, c.b)}
    [] c.op = "rename"   -> {RenameGenericCommand(s, c.k, c.l, c.b)}
    [] c.op = "move"     -> {MoveCommand(s, c.k, c.l)}
    [] c.op = "flushdb"  -> {FlushdbCommand(s)}
    [] c.op = "push"     -> {PushGenericCommand(s, c.k, c.e, c.b)}
    [] c.op = "pop"      -> {PopGenericCommand(s, c.k, c.b)}
    [] c.op = "lset"     -> {LsetCommand(s, c.k, c.n, c.e)}
    [] c.op = "ltrim"    -> {LtrimCommand(s, c.k, c.n, c.m)}
    [] c.op = "lrem"     -> {LremCommand(s, c.k, c.n, c.e)}
    [] c.op = "rpoplpush" -> {Rpoplpushcommand(s, c.k, c.l)}
    [] c.op = "sadd"     -> {SaddCommand(s, c.k, c.e)}
    [] c.op = "srem"     -> {SremCommand(s, c.k, c.e)}
    [] c.op = "smove"    -> {SmoveCommand(s, c.k, c.l, c.e)}
    [] c.op = "spop"     -> SpopCommand(s, c.k)
    [] c.op = "sinterstore" -> {SinterstoreCommand(s, c.k, c.ks)}
    [] c.op = "sunionstore" -> {SunionDiffStore(s, c.k, c.ks, c.b)}
    [] c.op = "zadd"     -> {ZaddGenericCommand(s, c.k, c.e, c.n, c.b)}
    [] c.op = "zrem"     -> {ZremCommand(s, c.k, c.e)}
    [] c.op = "zremrangebyscore" -> {ZremrangebyscoreCommand(s, c.k, c.n, c.m)}
    [] c.op = "zremrangebyrank" -> {ZremrangebyrankCommand(s, c.k, c.n, c.m)}
    [] c.op = "zunionstore" -> {ZunionInterGenericCommand(s, c.k, c.ks, c.w, c.aggregate, c.b)}
    [] c.op = "hset"     -> {HsetCommand(s, c.k, c.e, c.n, c.b)}
    [] c.op = "hmset"    -> {HmsetCommand(s, c.k, c.kvs)}
    [] c.op = "hincrby"  -> {HincrbyCommand(s, c.k, c.e, c.n)}
    [] c.op = "hdel"     -> {HdelCommand(s, c.k, c.e)}
    [] c.op = "sort"     -> SortCommand(s, c.k, c.l, c.o)
    [] c.op \in QueryOps -> {r.s : r \in Answers(s, c)}

\* The ways for a propagated command to end differently on the two: it draws
\* an element or an order; it is a GETSET that finds another type where the
\* key is still alive; it is a SORT that reads or overwrites a volatile key,
\* or that stores no element.
MayEndDifferently(s, c) ==
  \/ Cardinality(Outcomes(s, c)) > 1
  \/ c.op = "getset" /\ Volatile(s, c.k) /\ ~Is(s, c.k, "string")
  \/ /\ c.op = "sort"
     /\ \/ Volatile(s, c.k) \/ Volatile(s, c.l)
        \/ (c.o.by = "weight" \/ c.o.get) /\ \E e \in DOMAIN WeightKey : Volatile(s, WeightKey[e])
        \/ \E t \in Outcomes(s, c) : t.val[c.l] = List(<<>>)

\* call: the command is executed, and propagated when server.dirty changed.
Call(c) ==
  /\ ~doubt
  /\ \E after \in Outcomes(master, c) :
       /\ Accepted(after)
       /\ master' = [after EXCEPT !.dirty = 0]
       /\ IF after.dirty > 0
            THEN /\ \E t \in Outcomes(copy, c) : copy' = [t EXCEPT !.dirty = 0]
                 /\ doubt' = \E s \in {master, copy} : MayEndDifferently(s, c)
            ELSE UNCHANGED <<copy, doubt>>

-----------------------------------------------------------------------------
Expires(s, k) == [s EXCEPT !.exp[k] = "due"]

\* Time passes, by the master's clock or by the copy's.
MasterTime(k) ==
  /\ master.exp[k] = "later" /\ master' = Expires(master, k)
  /\ UNCHANGED <<copy, doubt>>

CopyTime(k) ==
  /\ copy.exp[k] = "later" /\ copy' = Expires(copy, k)
  /\ UNCHANGED <<master, doubt>>

\* serverCron samples the keys that have an expire time.
ActiveExpire(s, k) == s.exp[k] = "due"

\* freeMemoryIfNeeded takes the nearest to its end of three it draws: any
\* key that has an expire time, and no other.
FreeMemoryIfNeeded(s, k) == Volatile(s, k)

MasterDrops(k) ==
  /\ ActiveExpire(master, k) \/ FreeMemoryIfNeeded(master, k)
  /\ master' = DeleteKey(master, k)
  /\ UNCHANGED <<copy, doubt>>

CopyDrops(k) ==
  /\ ActiveExpire(copy, k) \/ FreeMemoryIfNeeded(copy, k)
  /\ copy' = DeleteKey(copy, k)
  /\ UNCHANGED <<master, doubt>>

Next ==
  \/ \E c \in Commands : Call(c)
  \/ \E k \in Keys : MasterTime(k) \/ CopyTime(k) \/ MasterDrops(k) \/ CopyDrops(k)

Spec == Init /\ [][Next]_vars

-----------------------------------------------------------------------------
(* The append only file that rewriteAppendOnlyFile makes of a dataset.     *)

\* Mutant of RewriteElement: lists are written with LPUSH.
RewriteLpush(k, e) == [op |-> "push", k |-> k, e |-> e, b |-> TRUE]

RewriteElement(k, e) == [op |-> "push", k |-> k, e |-> e, b |-> FALSE]

RewriteValue(k, value) ==
  CASE value.type = "none" -> <<>>
    [] value.type = "string" -> <<[op |-> "set", k |-> k, n |-> value.v, b |-> FALSE]>>
    [] value.type = "list" ->
         [i \in DOMAIN value.v |-> RewriteElement(k, value.v[i])]
    [] value.type = "set" ->
         LET es == SetToSeq(value.v)
         IN  [i \in DOMAIN es |-> [op |-> "sadd", k |-> k, e |-> es[i]]]
    [] value.type = "zset" ->
         LET es == SetToSeq(DOMAIN value.v)
         IN  [i \in DOMAIN es |->
                [op |-> "zadd", k |-> k, e |-> es[i], n |-> value.v[es[i]], b |-> FALSE]]
    [] value.type = "hash" ->
         LET es == SetToSeq(DOMAIN value.v)
         IN  [i \in DOMAIN es |->
                [op |-> "hset", k |-> k, e |-> es[i], n |-> value.v[es[i]], b |-> FALSE]]

\* The expire time of a key whose time has passed is skipped.
RewriteExpire(s, k) ==
  IF s.exp[k] = "later" THEN <<[op |-> "expire", k |-> k, b |-> TRUE]>> ELSE <<>>

RewriteAppendOnlyFile(s) ==
  FlattenSeq([i \in 1..Cardinality(Keys) |->
    LET k == SetToSeq(Keys)[i] IN RewriteValue(k, s.val[k]) \o RewriteExpire(s, k)])

\* loadAppendOnlyFile; none of the commands written has two outcomes.
LoadAppendOnlyFile(commands) ==
  FoldLeft(LAMBDA s, c : CHOOSE t \in Outcomes(s, c) : TRUE, EmptyDb, commands)

-----------------------------------------------------------------------------
\* Values have their types and only keys that exist have an expire time.
TypeOK ==
  \A s \in {master, copy} :
    /\ s.dirty = 0
    /\ \A k \in Keys :
         /\ s.exp[k] \in {"no", "later", "due"}
         /\ Absent(s, k) => s.exp[k] = "no"
         /\ s.val[k].type \in {"none", "string", "list", "set", "zset", "hash"}

\* Whenever each server expires its keys, a key without expire time is on
\* both or on neither, with one value; where they differ, each of them has
\* either forgotten the key or will.  This is what propagating the commands
\* of call() and deleteIfVolatile are for.
AgreeUnlessInDoubt ==
  ~doubt => \A k \in Keys :
    \/ master.val[k] = copy.val[k] /\ (Volatile(master, k) <=> Volatile(copy, k))
    \/ \A s \in {master, copy} : Absent(s, k) \/ Volatile(s, k)

\* A key whose time has passed is never seen again, whether or not it is still
\* there: every query answers as if it were gone, and reading propagates nothing
\* and loses nothing else.  (DBSIZE counts such keys.)
ReadsSeeTheLiving ==
  \A q \in Questions :
    LET answers == Answers(master, q)
    IN  /\ \A r \in answers : r.s.dirty = 0 /\ Living(r.s) = Living(master)
        /\ q.op # "dbsize" =>
             {r.reply : r \in answers} = {r.reply : r \in Answers(Living(master), q)}

\* A set, sorted set or hash that has lost its last member is gone.  (SORT
\* stores empty lists: EXISTS, TYPE and the rewrite see them.)
NoEmptyValues ==
  \A k \in Keys : master.val[k].type \in {"set", "zset", "hash"} =>
    ~IsEmpty(master.val[k])

\* Replaying the rewritten append only file gives back every value and
\* expire time, but for keys whose time had passed (they come back without
\* one: redis.c:8683, which is left out here and not watched) and for empty
\* lists (they are gone).
RewriteRebuilds ==
  LET loaded == LoadAppendOnlyFile(RewriteAppendOnlyFile(master))
  IN  \A k \in Keys :
        master.exp[k] # "due" /\ master.val[k] # List(<<>>) =>
          loaded.val[k] = master.val[k] /\ loaded.exp[k] = master.exp[k]

=============================================================================
