------------------------------- MODULE Hashes -------------------------------
(***************************************************************************)
(* Hashes (redis.c 6405-6802): a zipmap while they are small, a dict from  *)
(* field objects to value objects afterwards, never the other way.  The    *)
(* dict is the set of its entries, found by dictEncObjKeyCompare.          *)
(***************************************************************************)
EXTENDS Zipmap

CONSTANTS HashMaxZipmapEntries, HashMaxZipmapValue

CreateHashObject == [encoding |-> "zipmap", ptr |-> ZipmapNew]

DictFind(dict, key) == {de \in dict : DictEncObjKeyCompare(de.key, key)}

ConvertToRealHash(o) ==
  LET Dict(pairs) == {[key |-> TryObjectEncoding(Raw(pairs[i].key)),
                       val |-> TryObjectEncoding(Raw(pairs[i].val))] : i \in DOMAIN pairs}
  IN  [encoding |-> "ht", ptr |-> Dict(ZipmapNext(o.ptr))]

\* Only raw strings are measured.
HashTryConversion(o, argv) ==
  IF o.encoding = "zipmap" /\ \E i \in DOMAIN argv : argv[i].encoding = "raw"
                                                    /\ Len(argv[i].ptr) > HashMaxZipmapValue
  THEN ConvertToRealHash(o) ELSE o

HashTryObjectEncoding(o, arg) == IF o.encoding = "ht" THEN TryObjectEncoding(arg) ELSE arg

\* Of a field that is there.
HashGet(o, key) ==
  IF o.encoding = "zipmap" THEN Raw(ZipmapGet(o.ptr, Decoded(key)))
  ELSE (CHOOSE de \in DictFind(o.ptr, key) : TRUE).val

HashExists(o, key) ==
  IF o.encoding = "zipmap" THEN ZipmapExists(o.ptr, Decoded(key)) ELSE DictFind(o.ptr, key) # {}

HashLength(o) ==
  IF o.encoding = "zipmap" THEN ZipmapLen(o.ptr).len ELSE Cardinality(o.ptr)

\* What is left of the hash when somebody has asked for its length.
HashMeasured(o) == IF o.encoding = "zipmap" THEN [o EXCEPT !.ptr = ZipmapLen(o.ptr).zm] ELSE o

HashLimited(o) == IF HashLength(o) > HashMaxZipmapEntries THEN ConvertToRealHash(o) ELSE o

HashSet(o, key, value) ==
  LET Replaced(found) ==
        IF found = {} THEN o.ptr \cup {[key |-> key, val |-> value]}
        ELSE (o.ptr \ found) \cup {[key |-> de.key, val |-> value] : de \in found}
  IN  IF o.encoding = "zipmap"
      THEN HashLimited(HashMeasured([o EXCEPT !.ptr = ZipmapSet(o.ptr, Decoded(key), Decoded(value))]))
      ELSE [o EXCEPT !.ptr = Replaced(DictFind(o.ptr, key))]

HashDelete(o, key) ==
  IF o.encoding = "zipmap" THEN [o EXCEPT !.ptr = ZipmapDel(o.ptr, Decoded(key))]
  ELSE [o EXCEPT !.ptr = @ \ DictFind(@, key)]

\* Iteration: hashInitIterator, hashNext and hashCurrent, as pairs of strings.
HashPairs(o) ==
  IF o.encoding = "zipmap"
  THEN {ZipmapNext(o.ptr)[i] : i \in DOMAIN ZipmapNext(o.ptr)}
  ELSE {[key |-> Decoded(de.key), val |-> Decoded(de.val)] : de \in o.ptr}

-----------------------------------------------------------------------------
(* The commands.  The last argument of a command has been encoded before.  *)

SetField(o, field, val) == HashSet(o, HashTryObjectEncoding(o, Raw(field)), val)
SetNewField(o, field, val) == IF HashExists(o, Raw(field)) THEN o ELSE SetField(o, field, val)

HsetCommand(o, field, value) ==
  LET Set(val) == SetField(HashTryConversion(o, <<Raw(field), val>>), field, val)
  IN  Set(TryObjectEncoding(Raw(value)))

HsetnxCommand(o, field, value) ==
  LET Set(val) == SetNewField(HashTryConversion(o, <<Raw(field), val>>), field, val)
  IN  Set(TryObjectEncoding(Raw(value)))

\* bindings are pairs; of the strings only the last one is encoded by now.
RECURSIVE HashSetAll(_, _)
HashSetAll(o, args) ==
  IF args = <<>> THEN o
  ELSE HashSetAll(HashSet(o, HashTryObjectEncoding(o, args[1]), HashTryObjectEncoding(o, args[2])),
                  SubSeq(args, 3, Len(args)))

HmsetCommand(o, strings) ==
  LET Set(args) == HashSetAll(HashTryConversion(o, args), args)
  IN  Set([i \in DOMAIN strings |->
             IF i = Len(strings) THEN TryObjectEncoding(Raw(strings[i])) ELSE Raw(strings[i])])

\* The length of the field is not looked at.  Unchanged when the value is no
\* number.
HincrbyCommand(o, field, incr) ==
  LET Incremented(current) ==
        IF ~current.ok THEN o
        ELSE SetField(o, field, CreateStringObjectFromLongLong(Wrap(current.value + incr)))
  IN  Incremented(IF HashExists(o, Raw(field)) THEN GetLongLongFromObject(HashGet(o, Raw(field)))
                  ELSE [ok |-> TRUE, value |-> 0])

\* The hash that is left and is deleted when its length is 0.
HdelCommand(o, field) ==
  LET Without(key) == IF HashExists(o, key) THEN HashMeasured(HashDelete(o, key)) ELSE o
  IN  Without(TryObjectEncoding(Raw(field)))

-----------------------------------------------------------------------------

\* No field is there twice, whatever its encoding; a zipmap is not larger than
\* configured.
HashOK(o) ==
  IF o.encoding = "zipmap"
  THEN ZipmapOK(o.ptr) /\ Len(Entries(o.ptr)) <= HashMaxZipmapEntries
  ELSE \A d, e \in o.ptr : Decoded(d.key) = Decoded(e.key) => d = e

=============================================================================
