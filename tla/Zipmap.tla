------------------------------- MODULE Zipmap -------------------------------
(***************************************************************************)
(* zipmap.c: a map from strings to strings in one block of cells           *)
(*                                                                         *)
(*   <zmlen> <len>key<len><free>value<free cells> ... <end>                *)
(*                                                                         *)
(* A zipmap is the sequence of its cells, numbers below Byte; pointers are *)
(* positions in it.                                                        *)
(* Lengths below BigLen take one cell, others a cell BigLen and IntCells   *)
(* cells, the lowest first.  zmlen is no more than a hint once it is not   *)
(* below BigLen.                                                           *)
(***************************************************************************)
EXTENDS Strings

CONSTANT BigLen              \* ZIPMAP_BIGLEN, 254 in the code

End == BigLen + 1            \* ZIPMAP_END
MaxFree == 4                 \* ZIPMAP_VALUE_MAX_FREE
IntCells == 4                \* sizeof(unsigned int)
Null == 0                    \* no position

ZipmapNew == <<0, End>>

LenBytes(l) == IF l < BigLen THEN 1 ELSE IntCells + 1

IntOf(zm, p) ==
  zm[p] + Byte * (zm[p + 1] + Byte * (zm[p + 2] + Byte * zm[p + 3]))

ZipmapDecodeLength(zm, p) == IF zm[p] < BigLen THEN zm[p] ELSE IntOf(zm, p + 1)

ZipmapEncodeLength(l) ==
  IF l < BigLen THEN <<l>>
  ELSE <<BigLen, l % Byte, (l \div Byte) % Byte, (l \div (Byte * Byte)) % Byte,
         (l \div (Byte * Byte * Byte)) % Byte>>

ZipmapRawKeyLength(zm, p) ==
  LET l == ZipmapDecodeLength(zm, p) IN LenBytes(l) + l

ZipmapRawValueLength(zm, p) ==
  LET l == ZipmapDecodeLength(zm, p) IN LenBytes(l) + zm[p + LenBytes(l)] + 1 + l

ZipmapRawEntryLength(zm, p) ==
  LET l == ZipmapRawKeyLength(zm, p) IN l + ZipmapRawValueLength(zm, p + l)

ZipmapRequiredLength(klen, vlen) ==
  klen + vlen + 3 + (IF klen >= BigLen THEN 4 ELSE 0) + (IF vlen >= BigLen THEN 4 ELSE 0)

KeyAt(zm, p) ==
  LET l == ZipmapDecodeLength(zm, p) IN SubSeq(zm, p + LenBytes(l), p + LenBytes(l) + l - 1)

\* Of the entry at p.
ValueAt(zm, p) ==
  LET q == p + ZipmapRawKeyLength(zm, p)
      l == ZipmapDecodeLength(zm, q)
  IN  SubSeq(zm, q + LenBytes(l) + 1, q + LenBytes(l) + l)

\* The entries from p on, in order: zipmapNext from a position that
\* zipmapRewind gave; the last position is that of the end cell.
RECURSIVE Positions(_, _)
Positions(zm, p) ==
  IF zm[p] = End THEN <<p>> ELSE <<p>> \o Positions(zm, p + ZipmapRawEntryLength(zm, p))

ZipmapRewind == 2
Walked(zm) == Positions(zm, ZipmapRewind)
Entries(zm) == SubSeq(Walked(zm), 1, Len(Walked(zm)) - 1)

\* Every key and value, as zipmapNext gives them.
ZipmapNext(zm) ==
  LET Pairs(at) == [i \in DOMAIN at |-> [key |-> KeyAt(zm, at[i]), val |-> ValueAt(zm, at[i])]]
  IN  Pairs(Entries(zm))

\* The position of the first entry with the key, and the length of the map.
ZipmapLookupRaw(zm, key) ==
  LET Result(at, found) ==
        [p |-> IF found = {} THEN Null ELSE at[CHOOSE i \in found : \A j \in found : i <= j],
         totlen |-> at[Len(at)]]
      Among(at) == Result(at, {i \in 1..(Len(at) - 1) : KeyAt(zm, at[i]) = key})
  IN  Among(Walked(zm))

\* The count is kept as long as it is below BigLen.
Counted(zmlen, n) == IF zmlen < BigLen THEN zmlen + n ELSE zmlen

EntryCells(key, val, free) ==
  ZipmapEncodeLength(Len(key)) \o key \o ZipmapEncodeLength(Len(val)) \o <<free>> \o val

\* The cells of an entry that may be there.
HadLength(zm, found) == IF found.p = Null THEN 0 ELSE ZipmapRawEntryLength(zm, found.p)

\* The map with the entry where it was or at the end, in room cells instead of
\* the had ones.
Rewritten(zm, key, val, found, had, required, room) ==
  LET At(at) == SubSeq(zm, 2, at - 1) \o EntryCells(key, val, room - required)
                \o SubSeq(zm, at + required, at + room - 1)
                \o SubSeq(zm, at + had, found.totlen - 1)
  IN  <<IF found.p = Null THEN Counted(zm[1], 1) ELSE zm[1]>>
      \o At(IF found.p = Null THEN found.totlen ELSE found.p) \o <<End>>

\* Mutant of ZipmapSet: an entry that becomes longer is added again.
ZipmapSetAgain(zm, key, val) ==
  LET Sized(found, had, required) ==
        IF had < required THEN Rewritten(zm, key, val, [found EXCEPT !.p = Null], 0, required, required)
        ELSE Rewritten(zm, key, val, found, had, required,
                       IF had - required >= MaxFree THEN required ELSE had)
      Found(found) == Sized(found, HadLength(zm, found), ZipmapRequiredLength(Len(key), Len(val)))
  IN  Found(ZipmapLookupRaw(zm, key))

\* A new entry goes to the end.  One that is there is overwritten when the new
\* one fits and leaves less than MaxFree cells, else the tail is moved.
ZipmapSet(zm, key, val) ==
  LET Sized(found, had, required) ==
        Rewritten(zm, key, val, found, had, required,
                  IF had < required \/ had - required >= MaxFree THEN required ELSE had)
      Found(found) == Sized(found, HadLength(zm, found), ZipmapRequiredLength(Len(key), Len(val)))
  IN  Found(ZipmapLookupRaw(zm, key))

ZipmapDel(zm, key) ==
  LET Without(found) ==
        IF found.p = Null THEN zm
        ELSE <<Counted(zm[1], -1)>> \o SubSeq(zm, 2, found.p - 1)
             \o SubSeq(zm, found.p + ZipmapRawEntryLength(zm, found.p), found.totlen - 1) \o <<End>>
  IN  Without(ZipmapLookupRaw(zm, key))

ZipmapExists(zm, key) == ZipmapLookupRaw(zm, key).p # Null

\* Of a key that is there.
ZipmapGet(zm, key) == ValueAt(zm, ZipmapLookupRaw(zm, key).p)

\* The number of entries, and the map with the count stored again.
ZipmapLen(zm) ==
  LET Stored(len) == [len |-> len, zm |-> IF len < BigLen THEN <<len>> \o Tail(zm) ELSE zm]
  IN  Stored(IF zm[1] < BigLen THEN zm[1] ELSE Len(Entries(zm)))

-----------------------------------------------------------------------------

\* The walk ends at the last cell, no key is there twice, and the count is right or says that it is not kept.
ZipmapOK(zm) ==
  LET n == Len(Entries(zm))
  IN  /\ Walked(zm)[n + 1] = Len(zm)
      /\ \A i, j \in 1..n : i # j => KeyAt(zm, Entries(zm)[i]) # KeyAt(zm, Entries(zm)[j])
      /\ zm[1] = n \/ zm[1] = BigLen

=============================================================================
