-------------------------------- MODULE Rdb --------------------------------
(***************************************************************************)
(* The dump file (redis.c 3373-4190): rdbSave and rdbLoad, as functions    *)
(* between databases and sequences of cells.                               *)
(*                                                                         *)
(* An object is the type and the representation of a value; a database is  *)
(* the sequence of its entries in the order of the hash table, each a key, *)
(* an object and an expire time, or NoExpire.  What is read at a position  *)
(* of a file is a record that says whether it could be read, with the      *)
(* position after it.                                                      *)
(***************************************************************************)
EXTENDS Hashes, SequencesExt

CONSTANTS MaxLevel,              \* ZSKIPLIST_MAXLEVEL
          LenSlots, OffSlots,    \* see Lzf
          CompressAbove,         \* strings longer than this are compressed, 20 in the code
          Inf,                   \* the score +inf, -Inf the score -inf
          DbNum                  \* server.dbnum

ASSUME CellsAssumption == Byte = LenSlots * OffSlots

L == INSTANCE Adlist
Z == INSTANCE Skiplist
LZ == INSTANCE Lzf

Object(type, ptr) == [type |-> type, ptr |-> ptr]

\* A member of a sorted set is a number; this is its object.
Member(e) == Integer(e)

TypeCode == [string |-> 0, list |-> 1, set |-> 2, zset |-> 3, hash |-> 4]
RdbEof == Byte - 1
RdbSelectDb == Byte - 2
RdbExpireTime == Byte - 3
Signature == <<1>>               \* "REDIS0001"
NoExpire == -1

-----------------------------------------------------------------------------
(* Saving.                                                                 *)

Quarter == Byte \div 4           \* lengths have all bits of a cell but two

\* n cells of x, the lowest first.
RECURSIVE Cells(_, _)
Cells(x, n) == IF n = 0 THEN <<>> ELSE <<x % Byte>> \o Cells(x \div Byte, n - 1)

Power(n) == IF n = 1 THEN Byte ELSE IF n = 2 THEN Byte * Byte ELSE Byte * Byte * Byte * Byte

\* Of the width of n cells, as a signed number.
Signed(x, n) == IF x >= Power(n) \div 2 THEN x - Power(n) ELSE x
Fits(x, n) == -(Power(n) \div 2) <= x /\ x < Power(n) \div 2

\* Times are cut to 32 bits.
RdbSaveTime(t) == Cells(t % Power(4), 4)

RdbSaveLen(len) ==
  IF len < Quarter THEN <<len>>
  ELSE IF len < Quarter * Byte THEN <<Quarter + len \div Byte, len % Byte>>
  ELSE <<2 * Quarter>> \o Reverse(Cells(len, 4))

\* Encodings follow three quarters: integers of 1, 2 and 4 cells, and Lzf.
Encoded(enc) == 3 * Quarter + enc
EncLzf == 3

RdbEncodeInteger(value) ==
  IF Fits(value, 1) THEN <<Encoded(0)>> \o Cells(value % Power(1), 1)
  ELSE IF Fits(value, 2) THEN <<Encoded(1)>> \o Cells(value % Power(2), 2)
  ELSE IF Fits(value, 4) THEN <<Encoded(2)>> \o Cells(value % Power(4), 4)
  ELSE <<>>

RdbTryIntegerEncoding(s) ==
  LET Encode(n) == IF IsStringRepresentableAsLong(s, n) THEN RdbEncodeInteger(n.value) ELSE <<>>
  IN  Encode(Strtoll(s))

\* <<>> when the string cannot be made four cells shorter.
RdbSaveLzfStringObject(s) ==
  LET Save(out) == IF out = <<>> THEN <<>>
                   ELSE <<Encoded(EncLzf)>> \o RdbSaveLen(Len(out)) \o RdbSaveLen(Len(s)) \o out
  IN  Save(IF Len(s) <= 4 THEN <<>> ELSE CHOOSE c \in LZ!LzfCompress(s, Len(s) - 4) : TRUE)

\* The first of two ways to save a string that is not <<>>.
Either(cells, others) == IF cells # <<>> THEN cells ELSE others

RdbSaveRawString(s) ==
  Either(IF Len(s) <= 11 THEN RdbTryIntegerEncoding(s) ELSE <<>>,
         Either(IF Len(s) > CompressAbove THEN RdbSaveLzfStringObject(s) ELSE <<>>,
                RdbSaveLen(Len(s)) \o s))

RdbSaveStringObject(obj) ==
  Either(IF obj.encoding = "int" THEN RdbEncodeInteger(LongOf(obj)) ELSE <<>>,
         RdbSaveRawString(Decoded(obj)))

RdbSaveDoubleValue(val) ==
  IF val = Inf THEN <<Byte - 2>>
  ELSE IF val = -Inf THEN <<Byte - 1>>
  ELSE <<Len(Ll2string(val))>> \o Ll2string(val)

SaveEach(Save(_), items) == FlattenSeq([i \in DOMAIN items |-> Save(items[i])])

RdbSaveObject(o) ==
  LET SaveEntry(de) == RdbSaveStringObject(de.key) \o RdbSaveStringObject(de.val)
      SaveRawEntry(e) == RdbSaveRawString(e.key) \o RdbSaveRawString(e.val)
      SaveMember(e) == RdbSaveStringObject(Member(e)) \o RdbSaveDoubleValue(o.ptr.dict[e])
  IN  CASE o.type = "string" -> RdbSaveStringObject(o.ptr)
        [] o.type = "list" ->
             RdbSaveLen(o.ptr.len)
             \o SaveEach(RdbSaveStringObject, L!Values(o.ptr, L!ListRewind(o.ptr)))
        [] o.type = "set" ->
             RdbSaveLen(Cardinality(o.ptr)) \o SaveEach(RdbSaveStringObject, SetToSeq(o.ptr))
        [] o.type = "zset" ->
             RdbSaveLen(Cardinality(DOMAIN o.ptr.dict))
             \o SaveEach(SaveMember, SetToSeq(DOMAIN o.ptr.dict))
        [] o.type = "hash" /\ o.ptr.encoding = "zipmap" ->
             RdbSaveLen(ZipmapLen(o.ptr.ptr).len) \o SaveEach(SaveRawEntry, ZipmapNext(o.ptr.ptr))
        [] o.type = "hash" /\ o.ptr.encoding = "ht" ->
             RdbSaveLen(Cardinality(o.ptr.ptr)) \o SaveEach(SaveEntry, SetToSeq(o.ptr.ptr))

SaveKey(de) ==
  (IF de.expire = NoExpire THEN <<>> ELSE <<RdbExpireTime>> \o RdbSaveTime(de.expire))
  \o <<TypeCode[de.o.type]>> \o RdbSaveStringObject(Raw(de.key)) \o RdbSaveObject(de.o)

\* Keys whose time has passed are left out, databases that are empty as well.
RdbSave(dbs, now) ==
  Signature
  \o SaveEach(LAMBDA j :
       IF dbs[j] = <<>> THEN <<>>
       ELSE <<RdbSelectDb>> \o RdbSaveLen(j - 1)
            \o SaveEach(SaveKey, SelectSeq(dbs[j], LAMBDA de : de.expire = NoExpire \/ de.expire >= now)),
       [j \in DOMAIN dbs |-> j])
  \o <<RdbEof>>

-----------------------------------------------------------------------------
(* Loading.                                                                *)

Unread == [ok |-> FALSE]
Read(v, p) == [ok |-> TRUE, v |-> v, p |-> p]

Has(f, p, n) == p + n - 1 <= Len(f)

RECURSIVE Number(_)
Number(cells) == IF cells = <<>> THEN 0 ELSE cells[1] + Byte * Number(Tail(cells))

ReadCells(f, p, n) == IF Has(f, p, n) THEN Read(SubSeq(f, p, p + n - 1), p + n) ELSE Unread

\* What to do with what was read, if anything was.
Then(r, Do(_, _)) == IF r.ok THEN Do(r.v, r.p) ELSE Unread

RdbLoadType(f, p) == IF Has(f, p, 1) THEN Read(f[p], p + 1) ELSE Unread

\* -1 is the error of rdbLoadTime.
RdbLoadTime(f, p) ==
  LET t == Signed(Number(SubSeq(f, p, p + 3)), 4)
  IN  IF Has(f, p, 4) /\ t # -1 THEN Read(t, p + 4) ELSE Unread

RdbLoadLen(f, p) ==
  LET Len6(c) == c % Quarter
      Result(len, isencoded) == [len |-> len, isencoded |-> isencoded]
  IN  IF ~Has(f, p, 1) THEN Unread
      ELSE CASE f[p] \div Quarter = 0 -> Read(Result(f[p], FALSE), p + 1)
             [] f[p] \div Quarter = 3 -> Read(Result(Len6(f[p]), TRUE), p + 1)
             [] f[p] \div Quarter = 1 ->
                  IF Has(f, p, 2) THEN Read(Result(Len6(f[p]) * Byte + f[p + 1], FALSE), p + 2)
                  ELSE Unread
             [] f[p] \div Quarter = 2 ->
                  IF Has(f, p, 5)
                  THEN Read(Result(Number(Reverse(SubSeq(f, p + 1, p + 4))), FALSE), p + 5)
                  ELSE Unread

\* Mutant of RdbLoadIntegerObject: only one cell is taken for a signed number.
LoadIntegerUnsigned(f, p, enctype, encode) ==
  LET n == IF enctype = 0 THEN 1 ELSE IF enctype = 1 THEN 2 ELSE 4
      number == Number(SubSeq(f, p, p + n - 1))
      value == IF n = 1 THEN Signed(number, n) ELSE number
  IN  IF ~Has(f, p, n) THEN Unread
      ELSE Read(IF encode THEN CreateStringObjectFromLongLong(value) ELSE Raw(Ll2string(value)),
                p + n)

\* An integer of 1, 2 or 4 cells.
RdbLoadIntegerObject(f, p, enctype, encode) ==
  LET n == IF enctype = 0 THEN 1 ELSE IF enctype = 1 THEN 2 ELSE 4
      value == Signed(Number(SubSeq(f, p, p + n - 1)), n)
  IN  IF ~Has(f, p, n) THEN Unread
      ELSE Read(IF encode THEN CreateStringObjectFromLongLong(value) ELSE Raw(Ll2string(value)),
                p + n)

RdbLoadLzfStringObject(f, p) ==
  LET Data(clen, len, q) ==
        IF clen = 0 \/ ~Has(f, q, clen) THEN Unread
        ELSE LET val == LZ!LzfDecompress(SubSeq(f, q, q + clen - 1), len)
             IN  IF val = LZ!Fails THEN Unread ELSE Read(Raw(val), q + clen)
  IN  Then(RdbLoadLen(f, p), LAMBDA c, q :
        Then(RdbLoadLen(f, q), LAMBDA l, r : Data(c.len, l.len, r)))

RdbGenericLoadStringObject(f, p, encode) ==
  Then(RdbLoadLen(f, p), LAMBDA l, q :
    IF l.isencoded
    THEN IF l.len = EncLzf THEN RdbLoadLzfStringObject(f, q)
         ELSE RdbLoadIntegerObject(f, q, l.len, encode)
    ELSE Then(ReadCells(f, q, l.len), LAMBDA s, r : Read(Raw(s), r)))

RdbLoadStringObject(f, p) == RdbGenericLoadStringObject(f, p, FALSE)
RdbLoadEncodedStringObject(f, p) == RdbGenericLoadStringObject(f, p, TRUE)

RdbLoadDoubleValue(f, p) ==
  IF ~Has(f, p, 1) THEN Unread
  ELSE IF f[p] = Byte - 1 THEN Read(-Inf, p + 1)
  ELSE IF f[p] = Byte - 2 THEN Read(Inf, p + 1)
  ELSE Then(ReadCells(f, p + 1, f[p]), LAMBDA s, q : Read(Strtoll(s).value, q))

LoadListElement(f, p, l) ==
  Then(RdbLoadEncodedStringObject(f, p),
       LAMBDA ele, q : Read(L!ListAddNodeTail(l, TryObjectEncoding(ele)), q))

LoadSetElement(f, p, set) ==
  Then(RdbLoadEncodedStringObject(f, p),
       LAMBDA ele, q : Read(set \cup {TryObjectEncoding(ele)}, q))

\* The level of a node is drawn anew; any would do.
LoadZsetElement(f, p, zs) ==
  Then(RdbLoadEncodedStringObject(f, p), LAMBDA ele, q :
    Then(RdbLoadDoubleValue(f, q), LAMBDA score, r :
      LET Add(e) == [dict |-> [x \in DOMAIN zs.dict \cup {e} |-> IF x = e THEN score ELSE zs.dict[x]],
                     zsl |-> Z!ZslInsert(zs.zsl, score, e, 1 + (e % MaxLevel))]
      IN  Read(Add(LongOf(TryObjectEncoding(ele))), r)))

\* A file that was saved has no field twice.
FieldLoaded(h, key, val) ==
  IF h.encoding = "zipmap" THEN [h EXCEPT !.ptr = ZipmapSet(@, key, val)]
  ELSE [h EXCEPT !.ptr = @ \cup {[key |-> TryObjectEncoding(Raw(key)), val |-> TryObjectEncoding(Raw(val))]}]

LoadHashElement(f, p, h) ==
  Then(RdbLoadStringObject(f, p), LAMBDA key, q :
    Then(RdbLoadStringObject(f, q), LAMBDA val, r :
      Read(FieldLoaded(HashTryConversion(h, <<key, val>>), key.ptr, val.ptr), r)))

LoadElement(type, f, p, ptr) ==
  CASE type = "list" -> LoadListElement(f, p, ptr)
    [] type = "set" -> LoadSetElement(f, p, ptr)
    [] type = "zset" -> LoadZsetElement(f, p, ptr)
    [] type = "hash" -> LoadHashElement(f, p, ptr)

\* n elements read and added one after the other to ptr.
RECURSIVE LoadElements(_, _, _, _, _)
LoadElements(type, f, p, n, ptr) ==
  IF n = 0 THEN Read(Object(type, ptr), p)
  ELSE Then(LoadElement(type, f, p, ptr),
            LAMBDA changed, q : LoadElements(type, f, q, n - 1, changed))

\* A hash that has too many entries starts as a dict.
EmptyOf(type, n) ==
  CASE type = "list" -> L!ListCreate
    [] type = "set" -> {}
    [] type = "zset" -> Z!CreateZsetObject
    [] type = "hash" -> IF n > HashMaxZipmapEntries THEN ConvertToRealHash(CreateHashObject)
                        ELSE CreateHashObject

RdbLoadObject(code, f, p) ==
  LET types == {t \in DOMAIN TypeCode : TypeCode[t] = code}
      type == CHOOSE t \in types : TRUE
  IN  IF types = {} THEN Unread
      ELSE IF type = "string"
        THEN Then(RdbLoadEncodedStringObject(f, p),
                  LAMBDA o, q : Read(Object("string", TryObjectEncoding(o)), q))
      ELSE Then(RdbLoadLen(f, p),
                LAMBDA l, q : LoadElements(type, f, q, l.len, EmptyOf(type, l.len)))

\* The type at p, after the expire time when there is one.
LoadOpcode(f, p) ==
  Then(RdbLoadType(f, p), LAMBDA type, q :
    IF type = RdbExpireTime
    THEN Then(RdbLoadTime(f, q), LAMBDA t, r :
           Then(RdbLoadType(f, r), LAMBDA type2, s : Read([type |-> type2, expire |-> t], s)))
    ELSE Read([type |-> type, expire |-> NoExpire], q))

LoadKey(type, f, p, expire) ==
  Then(RdbLoadStringObject(f, p), LAMBDA key, q :
    Then(RdbLoadObject(type, f, q), LAMBDA o, r : Read([key |-> key.ptr, o |-> o, expire |-> expire], r)))

\* The entries from p on, added to dbs; j is the database they belong to.  A key
\* that is there already, or a database there is not, ends the server.
RECURSIVE LoadEntries(_, _, _, _, _)
LoadEntries(f, p, dbs, j, now) ==
  Then(LoadOpcode(f, p), LAMBDA op, q :
    CASE op.type = RdbEof -> Read(dbs, q)
      [] op.type = RdbSelectDb ->
           Then(RdbLoadLen(f, q), LAMBDA l, r :
             IF l.len >= DbNum THEN Unread ELSE LoadEntries(f, r, dbs, l.len + 1, now))
      [] OTHER ->
           Then(LoadKey(op.type, f, q, op.expire), LAMBDA de, r :
             IF de.expire # NoExpire /\ de.expire < now THEN LoadEntries(f, r, dbs, j, now)
             ELSE IF \E i \in DOMAIN dbs[j] : dbs[j][i].key = de.key THEN Unread
             ELSE LoadEntries(f, r, [dbs EXCEPT ![j] = Append(@, de)], j, now)))

RdbLoad(f, now) ==
  IF ~Has(f, 1, 1) THEN Unread
  ELSE LoadEntries(f, 2, [j \in 1..DbNum |-> <<>>], 1, now)

=============================================================================
