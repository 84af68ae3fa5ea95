------------------------------- MODULE Digest -------------------------------
(***************************************************************************)
(* The digest of the dataset, DEBUG DIGEST (redis.c 10449-10618).          *)
(*                                                                         *)
(* A digest is the exclusive or of hashes, kept as the set of those that   *)
(* occur an odd number of times; 20 zero bytes are the empty set.  SHA1 is *)
(* a constructor of terms: no two different inputs collide.                *)
(***************************************************************************)
EXTENDS Rdb

Data(s) == <<"data", s>>
HashOf(digest) == <<"digest", digest>>
Zero == {}

XorDigest(digest, data) == SymDiff(digest, {data})
XorObjectDigest(digest, o) == XorDigest(digest, Data(Decoded(o)))

MixDigest(digest, data) == {HashOf(XorDigest(digest, data))}
MixObjectDigest(digest, o) == MixDigest(digest, Data(Decoded(o)))

NetworkOrder(n) == Data(Reverse(Cells(n, 4)))

ExpireMark == <<"expire">>       \* the string "!!expire!!"

MemberDigest(e, score) ==
  MixDigest(MixObjectDigest(Zero, Member(e)), Data(Ll2string(score)))

FieldDigest(key, val) == MixObjectDigest(MixObjectDigest(Zero, key), val)

\* The parts of an aggregate without an order: exclusive or of their digests.
XorAll(digest, digests) == FoldSet(LAMBDA d, acc : XorDigest(acc, HashOf(d)), digest, digests)

MixValue(digest, o) ==
  CASE o.type = "string" -> MixObjectDigest(digest, o.ptr)
    [] o.type = "list" ->
         FoldLeft(MixObjectDigest, digest, L!Values(o.ptr, L!ListRewind(o.ptr)))
    [] o.type = "set" -> FoldSet(LAMBDA e, acc : XorObjectDigest(acc, e), digest, o.ptr)
    [] o.type = "zset" ->
         XorAll(digest, {MemberDigest(e, o.ptr.dict[e]) : e \in DOMAIN o.ptr.dict})
    [] o.type = "hash" -> XorAll(digest, {FieldDigest(Raw(p.key), Raw(p.val)) : p \in HashPairs(o.ptr)})

KeyDigest(de) ==
  LET Expiring(value) == IF de.expire = NoExpire THEN value ELSE XorDigest(value, ExpireMark)
      Typed(digest) == MixDigest(digest, NetworkOrder(TypeCode[de.o.type]))
  IN  Expiring(MixValue(Typed(MixObjectDigest(Zero, Raw(de.key))), de.o))

\* Databases in order, the keys of each in any.
ComputeDatasetDigest(dbs) ==
  LET AddDb(final, j) ==
        IF dbs[j] = <<>> THEN final
        ELSE XorAll(MixDigest(final, NetworkOrder(j - 1)), {KeyDigest(de) : de \in Range(dbs[j])})
  IN  FoldLeft(AddDb, Zero, [j \in DOMAIN dbs |-> j])

=============================================================================
