------------------------------ MODULE Strings ------------------------------
(***************************************************************************)
(* String objects and their encoding as integers (redis.c 1038-1057,       *)
(* 1101-1172, 2929-2949, 3153-3371, 4311-4450, 4488-4523).                 *)
(*                                                                         *)
(* A character is a number below Byte: 0 is the nul that ends a C string,  *)
(* 1 the minus sign, then the ten digits in order, then everything else,   *)
(* so that characters compare as the code's do.  A string is a sequence of *)
(* characters; a string object is raw or an integer that fits into long.   *)
(***************************************************************************)
EXTENDS Integers, Sequences, FiniteSets

CONSTANTS Byte,      \* the number of characters, 256 in the code
          LongMax    \* LONG_MAX, which is LLONG_MAX as well

Nul == 0
Minus == 1
Digit(d) == d + 2
IsDigit(c) == c \in Digit(0)..Digit(9)
LongMin == -LongMax - 1

Raw(s) == [encoding |-> "raw", ptr |-> s]
Integer(n) == [encoding |-> "int", ptr |-> <<n>>]
LongOf(o) == o.ptr[1]

\* Signed arithmetic of the width of long, which wraps.
Wrap(n) == ((n - LongMin) % (2 * LongMax + 2)) + LongMin

RECURSIVE Digits(_)
Digits(n) == IF n < 10 THEN <<Digit(n)>> ELSE Append(Digits(n \div 10), Digit(n % 10))

Ll2string(value) == IF value < 0 THEN <<Minus>> \o Digits(-value) ELSE Digits(value)

\* The part of s that a function for C strings sees.
CString(s) ==
  LET ends == {i \in DOMAIN s : s[i] = Nul}
  IN  IF ends = {} THEN s ELSE SubSeq(s, 1, (CHOOSE i \in ends : \A j \in ends : i <= j) - 1)

\* strtol and strtoll: the number at the start of the C string s, clipped to
\* the range of the type, and whether nothing follows it.
RECURSIVE NumberOf(_)
NumberOf(ds) ==
  IF ds = <<>> THEN 0 ELSE 10 * NumberOf(SubSeq(ds, 1, Len(ds) - 1)) + ds[Len(ds)] - Digit(0)

Strtoll(s) ==
  LET Clipped(v) == IF v > LongMax THEN LongMax ELSE IF v < LongMin THEN LongMin ELSE v
      Prefix(body, n, sign) == [value |-> Clipped(sign * NumberOf(SubSeq(body, 1, n))),
                                ok |-> n = Len(body) /\ (n = 0 => sign = 1)]
      Unsigned(body, sign) ==
        Prefix(body, CHOOSE n \in 0..Len(body) : /\ \A i \in 1..n : IsDigit(body[i])
                                                 /\ n < Len(body) => ~IsDigit(body[n + 1]), sign)
      Whole(c) == IF c # <<>> /\ c[1] = Minus THEN Unsigned(Tail(c), -1) ELSE Unsigned(c, 1)
  IN  Whole(CString(s))

\* n is what strtol makes of s: the conversion back must give the very string.
IsStringRepresentableAsLong(s, n) == n.ok /\ Ll2string(n.value) = s

\* Of an object nobody shares.
TryObjectEncoding(o) ==
  LET Encoded(n) == IF IsStringRepresentableAsLong(o.ptr, n) THEN Integer(n.value) ELSE o
  IN  IF o.encoding = "raw" THEN Encoded(Strtoll(o.ptr)) ELSE o

CreateStringObjectFromLongLong(value) == Integer(value)

Decoded(o) == IF o.encoding = "raw" THEN o.ptr ELSE Ll2string(LongOf(o))
GetDecodedObject(o) == Raw(Decoded(o))

StringObjectLen(o) == Len(Decoded(o))

\* -1, 0 or 1: the first difference decides, then the length.
MemCmp(a, b) ==
  LET common == IF Len(a) < Len(b) THEN Len(a) ELSE Len(b)
      diffs == {i \in 1..common : a[i] # b[i]}
      first == CHOOSE i \in diffs : \A j \in diffs : i <= j
      Sign(x, y) == IF x < y THEN -1 ELSE IF x = y THEN 0 ELSE 1
  IN  IF diffs = {} THEN Sign(Len(a), Len(b)) ELSE Sign(a[first], b[first])

\* Two raw strings by sdscmp; as soon as one is an integer by strcmp, which
\* stops at a nul.
CompareStringObjects(a, b) ==
  IF a.encoding = "raw" /\ b.encoding = "raw" THEN MemCmp(a.ptr, b.ptr)
  ELSE MemCmp(CString(Decoded(a)), CString(Decoded(b)))

EqualStringObjects(a, b) ==
  IF a.encoding # "raw" /\ b.encoding # "raw" THEN a.ptr = b.ptr
  ELSE CompareStringObjects(a, b) = 0

SdsDictKeyCompare(s, t) == Len(s) = Len(t) /\ MemCmp(s, t) = 0

DictEncObjKeyCompare(a, b) ==
  IF a.encoding = "int" /\ b.encoding = "int" THEN a.ptr = b.ptr
  ELSE SdsDictKeyCompare(Decoded(a), Decoded(b))

\* For an object that is there: whether it is a number, and which.  A long has
\* the width of a long long: getLongFromObjectOrReply refuses no more.
GetLongLongFromObject(o) ==
  IF o.encoding = "int" THEN [ok |-> TRUE, value |-> LongOf(o)] ELSE Strtoll(o.ptr)

-----------------------------------------------------------------------------
(* The commands on a string that is there; argv is what the client sent.   *)

SetGenericCommand(argv) == TryObjectEncoding(Raw(argv))

\* The object itself when it is no number.
IncrDecrCommand(o, incr) ==
  LET Incremented(n) == IF n.ok THEN CreateStringObjectFromLongLong(Wrap(n.value + incr)) ELSE o
  IN  Incremented(GetLongLongFromObject(o))

\* The argument is encoded too, and decoded again to be appended.
AppendCommand(o, argv) ==
  Raw(Decoded(o) \o Decoded(TryObjectEncoding(Raw(argv))))

\* An end too far below zero becomes zero, as a start does.
SubstrCommand(o, start, end) ==
  LET s == Decoded(o)
      strlen == Len(s)
      Clip(x) == IF x >= 0 THEN x ELSE IF strlen + x < 0 THEN 0 ELSE strlen + x
      from == Clip(start)
      to == IF Clip(end) >= strlen THEN strlen - 1 ELSE Clip(end)
  IN  IF Clip(start) > Clip(end) \/ from >= strlen THEN <<>> ELSE SubSeq(s, from + 1, to + 1)

=============================================================================
