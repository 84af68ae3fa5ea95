----------------------------- MODULE CheckDump -----------------------------
(***************************************************************************)
(* redis-check-dump: reads a dump file without building anything, counts   *)
(* the entries it cannot read, and after each of them looks for the next   *)
(* position from which three entries in a row can be read.                 *)
(*                                                                         *)
(* Only the count is kept of what it prints.                               *)
(***************************************************************************)
EXTENDS Rdb

CONSTANT MaxDb      \* the highest database number it accepts, 63 in the code

\* Strings have no content here.
Consumed(p) == Read(<<>>, p)
Skip(f, p, n) == IF Has(f, p, n) THEN Consumed(p + n) ELSE Unread

LoadType(f, p) ==
  IF Has(f, p, 1) /\ (f[p] <= 4 \/ f[p] >= RdbExpireTime) THEN Read(f[p], p + 1) ELSE Unread

PeekType(f, p) == IF LoadType(f, p).ok THEN f[p] ELSE -1

ProcessTime(f, p) == Skip(f, p, 4)

\* The same function as rdbLoadLen.
LoadLength(f, p) == RdbLoadLen(f, p)

LoadIntegerObject(f, p, enctype) == Skip(f, p, CASE enctype = 0 -> 1 [] enctype = 1 -> 2 [] enctype = 2 -> 4)

\* An empty compressed string is read past its end: taken as an error.
LoadLzfStringObject(f, p) ==
  Then(LoadLength(f, p), LAMBDA clen, q :
    Then(LoadLength(f, q), LAMBDA slen, r :
      IF /\ clen.len > 0
         /\ Has(f, r, clen.len)
         /\ LZ!LzfDecompress(SubSeq(f, r, r + clen.len - 1), slen.len) # LZ!Fails
      THEN Consumed(r + clen.len) ELSE Unread))

LoadStringObject(f, p) ==
  Then(LoadLength(f, p), LAMBDA l, q :
    CASE ~l.isencoded -> Skip(f, q, l.len)
      [] l.isencoded /\ l.len < EncLzf -> LoadIntegerObject(f, q, l.len)
      [] l.isencoded /\ l.len = EncLzf -> LoadLzfStringObject(f, q)
      [] OTHER -> Unread)

\* The three highest lengths stand for the infinities and for not a number.
LoadDoubleValue(f, p) ==
  IF ~Has(f, p, 1) THEN Unread
  ELSE IF f[p] >= Byte - 3 THEN Consumed(p + 1)
  ELSE Skip(f, p + 1, f[p])

\* Whether each of the loads in order succeeds, one from where the other ended.
RECURSIVE LoadAll(_, _, _)
LoadAll(f, p, parts) ==
  IF parts = <<>> THEN Consumed(p)
  ELSE Then(IF parts[1] = "double" THEN LoadDoubleValue(f, p) ELSE LoadStringObject(f, p),
            LAMBDA v, q : LoadAll(f, q, Tail(parts)))

\* What follows the key, n times what an element is made of.
PartsOf(type) ==
  CASE type = TypeCode["zset"] -> <<"string", "double">>
    [] type = TypeCode["hash"] -> <<"string", "string">>
    [] OTHER -> <<"string">>

RECURSIVE LoadTimes(_, _, _, _)
LoadTimes(f, p, n, parts) ==
  IF n = 0 THEN Consumed(p)
  ELSE Then(LoadAll(f, p, parts), LAMBDA v, q : LoadTimes(f, q, n - 1, parts))

LoadPair(f, p, type) ==
  Then(LoadStringObject(f, p), LAMBDA key, q :
    CASE type = TypeCode["string"] -> LoadStringObject(f, q)
      [] type \in 1..4 ->
           Then(LoadLength(f, q), LAMBDA l, r : LoadTimes(f, r, l.len, PartsOf(type)))
      [] OTHER -> Unread)

\* An entry that failed is left where its first error was found, which nothing
\* depends on.
LoadEntry(f, p) ==
  LET Entry(type, success, q) == [type |-> type, success |-> success, p |-> q]
      \* Every entry but the last is followed by a valid type.
      Followed(type, r) ==
        IF r.ok THEN Entry(type, PeekType(f, r.p) # -1, r.p) ELSE Entry(type, FALSE, p)
      SelectDb(q) ==
        Followed(RdbSelectDb,
                 Then(LoadLength(f, q), LAMBDA l, r : IF l.len > MaxDb THEN Unread ELSE Consumed(r)))
      Timed(q) ==
        LET type == Then(ProcessTime(f, q), LAMBDA v, r : LoadType(f, r))
        IN  IF type.ok THEN Followed(type.v, LoadPair(f, type.p, type.v))
            ELSE Entry(RdbExpireTime, FALSE, p)
      first == LoadType(f, p)
  IN  IF ~first.ok THEN Entry(-1, FALSE, p)
      ELSE CASE first.v = RdbSelectDb -> SelectDb(first.p)
             [] first.v = RdbEof -> Entry(RdbEof, ~Has(f, first.p, 1), first.p)
             [] first.v = RdbExpireTime -> Timed(first.p)
             [] OTHER -> Followed(first.v, LoadPair(f, first.p, first.v))

\* The entries that a search from p reads: up to three, the last may have failed.
After(e, Next(_)) == IF e.success THEN Next(e.p) ELSE e
Attempt(f, p) == After(LoadEntry(f, p), LAMBDA q : After(LoadEntry(f, q), LAMBDA r : LoadEntry(f, r)))

\* The number of entries that cannot be read from p on.  entry is the last one
\* that was tried: when nothing follows the header, what happens to be there.
RECURSIVE Process(_, _, _), Tried(_, _, _), Resumed(_, _)
Process(f, p, entry) ==
  IF ~Has(f, p, 1) THEN IF entry.type # RdbEof THEN 1 ELSE 0
  ELSE Tried(f, p, LoadEntry(f, p))

\* e is what could be read at p.
Tried(f, p, e) ==
  IF e.success THEN Process(f, e.p, e)
  ELSE 1 + IF p = Len(f) THEN Process(f, p + 1, e)
           ELSE Resumed(f, {q \in p + 1..Len(f) : Attempt(f, q).success})

\* The search went through all positions or ended at the first of those found.
Resumed(f, found) ==
  LET next == CHOOSE q \in found : \A r \in found : q <= r
  IN  Process(f, IF found = {} THEN Len(f) + 1 ELSE next, Attempt(f, IF found = {} THEN Len(f) ELSE next))

ProcessHeader(f) == Has(f, 1, 1) /\ SubSeq(f, 1, 1) = Signature

\* -1 when the header is not that of a dump; garbage is the entry before any was read.
CheckDump(f, garbage) == IF ProcessHeader(f) THEN Process(f, 2, garbage) ELSE -1

=============================================================================
