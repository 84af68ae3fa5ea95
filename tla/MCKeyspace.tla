------------------------------ MODULE MCKeyspace ------------------------------
(***************************************************************************)
(* Instances of Keyspace: two keys, two elements, small values.            *)
(***************************************************************************)
EXTENDS Keyspace

CONSTANTS a, b

Elements == 1..2
MCWeightKey == [e \in -1..2 |-> b]
Pairs == {<<a, b>>, <<b, a>>}
Flags == BOOLEAN

Options == [by : {"self", "weight", "nosort"}, get : {FALSE}, desc : {FALSE},
            limit : {<<0, -1>>}]
           \cup [by : {"self"}, get : {TRUE}, desc : {TRUE}, limit : {<<0, 1>>}]
           \cup [by : {"self"}, get : {FALSE}, desc : {TRUE}, limit : {<<1, 0>>}]

MCCommands ==
  UNION {
    [op : {"set"}, k : Keys, n : {1, Text}, b : Flags],
    [op : {"setnx", "getset"}, k : Keys, n : {1}],
    [op : {"mset"}, kvs : {<<<<a, 1>>, <<b, 2>>>>}, b : Flags],
    [op : {"incrby"}, k : Keys, n : {1}],
    [op : {"append", "spop"}, k : Keys],
    [op : {"del"}, ks : {<<a>>, <<a, b>>}],
    [op : {"expire"}, k : Keys, b : Flags],
    {[op |-> "rename", k |-> p[1], l |-> p[2], b |-> f] : p \in Pairs, f \in Flags},
    {[op |-> o, k |-> p[1], l |-> p[2]] : o \in {"move", "rpoplpush"}, p \in Pairs \cup {<<a, a>>}},
    {[op |-> "flushdb"]},
    [op : {"push"}, k : Keys, e : Elements, b : Flags],
    [op : {"pop"}, k : Keys, b : Flags],
    [op : {"lset"}, k : Keys, n : {-1}, e : {1}],
    [op : {"ltrim"}, k : Keys, n : {0, 1}, m : {-1, -2}],
    [op : {"lrem"}, k : Keys, n : {-1, 0}, e : {1}],
    [op : {"sadd", "srem"}, k : Keys, e : Elements],
    {[op |-> "smove", k |-> p[1], l |-> p[2], e |-> 1] : p \in Pairs \cup {<<a, a>>}},
    [op : {"sinterstore"}, k : {b}, ks : {<<a, b>>}],
    [op : {"sunionstore"}, k : {b}, ks : {<<a, b>>}, b : Flags],
    [op : {"zadd"}, k : Keys, e : Elements, n : {1}, b : Flags],
    [op : {"zrem"}, k : Keys, e : Elements],
    [op : {"zremrangebyscore"}, k : {a}, n : {1}, m : {1}],
    [op : {"zremrangebyrank"}, k : {a}, n : {0}, m : {-2}],
    {[op |-> "zunionstore", k |-> b, ks |-> <<a, b>>, w |-> <<2, 1>>, aggregate |-> g, b |-> f] :
       g \in {"sum", "min", "max"}, f \in Flags},
    [op : {"hset"}, k : Keys, e : Elements, n : {1}, b : Flags],
    [op : {"hmset"}, k : {a}, kvs : {<<<<1, Text>>, <<2, 1>>>>}],
    [op : {"hincrby"}, k : Keys, e : {1}, n : {1}],
    [op : {"hdel"}, k : Keys, e : Elements],
    {[op |-> "sort", k |-> p[1], l |-> p[2], o |-> o] : p \in Pairs, o \in Options},
    [op : {"get"}, k : Keys],
    {[op |-> "keys", pattern |-> Keys], [op |-> "randomkey"]}}

MCQuestions ==
  UNION {
    [op : {"get", "exists", "type", "ttl", "scard", "srandmember", "hlen"}, k : Keys],
    [op : {"sismember", "hget", "hexists"}, k : Keys, e : {1}],
    [op : {"mget"}, ks : {<<a, b>>}],
    [op : {"hmget"}, k : Keys, es : {<<1, 2>>}],
    [op : {"sortread"}, k : Keys, o : Options],
    [op : {"hgetall"}, k : Keys, keys : {TRUE}, values : BOOLEAN],
    {[op |-> "keys", pattern |-> Keys], [op |-> "randomkey"], [op |-> "dbsize"]}}

\* Bound: two elements, fields or strings in the two keys together, three while
\* neither key has an expire time; numbers up to 2, in a hash 2 together and in
\* a sorted set 3.
Size(value) ==
  CASE value.type = "list" -> Len(value.v)
    [] value.type = "set" -> Cardinality(value.v)
    [] value.type \in {"zset", "hash"} -> Cardinality(DOMAIN value.v)
    [] value.type = "string" -> 1
    [] OTHER -> 0

Small(value) ==
  CASE value.type = "string" -> value.v <= 2
    [] value.type \in {"zset", "hash"} ->
         /\ \A e \in DOMAIN value.v : value.v[e] <= 2
         /\ FoldFunction(+, 0, value.v) <= IF value.type = "zset" THEN 3 ELSE 2
    [] OTHER -> Size(value) <= 2

MCAccepted(s) ==
  /\ Size(s.val[a]) + Size(s.val[b]) <= IF \E k \in Keys : Volatile(s, k) THEN 2 ELSE 3
  /\ \A k \in Keys : Small(s.val[k])

=============================================================================
