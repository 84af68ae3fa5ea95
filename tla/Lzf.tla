-------------------------------- MODULE Lzf --------------------------------
(***************************************************************************)
(* lzf_c.c and lzf_d.c.  The compressed format is a sequence of            *)
(*                                                                         *)
(*   <l-1> l literals                        l <= OffSlots                 *)
(*   <len, off high> <off low>               len + 2 cells, 0 < len < Long *)
(*   <Long, off high> <len - Long> <off low>                               *)
(*                                                                         *)
(* where the first cell holds one of LenSlots lengths and one of OffSlots  *)
(* offsets: 8 and 32 in the code, where a cell has 256 values.             *)
(*                                                                         *)
(* Which earlier place is tried depends on a hash table that is not        *)
(* initialized: the compressor may find any place that passes its tests,   *)
(* or none.  The first sixteen comparisons of a match, unrolled in the     *)
(* code for matches that may be long, are not told apart from the others.  *)
(***************************************************************************)
EXTENDS Integers, Sequences

CONSTANTS LenSlots, OffSlots

CellValues == LenSlots * OffSlots
Long == LenSlots - 1
MaxLit == OffSlots
MaxOff == OffSlots * CellValues
MaxRef == CellValues + LenSlots

Fails == <<>>

\* Literals waiting to be written, as runs.
Run(lit) == IF lit = <<>> THEN <<>> ELSE <<Len(lit) - 1>> \o lit

\* The number of cells the code has used, with the one for the next run.
Used(out, lit) == Len(out) + 1 + Len(lit)

\* Where a match for position ip may be found, the first cell excepted.
Matches(in, ip) ==
  {ref \in 2..(ip - 1) : /\ ip - ref - 1 < MaxOff
                         /\ ip + 4 < Len(in) + 1
                         /\ \A i \in 0..2 : in[ref + i] = in[ip + i]}

\* The number of cells that match, which leaves the last two alone.
MatchLen(in, ref, ip) ==
  LET room == Len(in) + 1 - ip - 2
      maxlen == IF room > MaxRef THEN MaxRef ELSE room
      ends == {n \in 3..maxlen : n = maxlen \/ in[ref + n] # in[ip + n]}
  IN  CHOOSE n \in ends : \A m \in ends : n <= m

BackReference(len, off) ==
  IF len < Long THEN <<off \div CellValues + len * OffSlots, off % CellValues>>
  ELSE <<off \div CellValues + Long * OffSlots, len - Long, off % CellValues>>

\* The loop at ip, with out written and lit waiting; the results it may end in.
RECURSIVE CompressFrom(_, _, _, _, _)
CompressFrom(in, outLen, ip, out, lit) ==
  LET Literal == LET l == Append(lit, in[ip])
                 IN  IF Used(out, lit) >= outLen THEN {Fails}
                     ELSE IF Len(l) = MaxLit THEN CompressFrom(in, outLen, ip + 1, out \o Run(l), <<>>)
                     ELSE CompressFrom(in, outLen, ip + 1, out, l)
      Back(ref) == LET written == out \o Run(lit)
                       n == MatchLen(in, ref, ip)
                   IN  IF Len(written) + 4 >= outLen THEN {Fails}
                       ELSE CompressFrom(in, outLen, ip + n,
                                         written \o BackReference(n - 2, ip - ref - 1), <<>>)
      rest == SubSeq(in, ip, Len(in))
      fits == MaxLit - Len(lit)
      tail == IF Len(rest) < fits THEN out \o Run(lit \o rest)
              ELSE out \o Run(lit \o SubSeq(rest, 1, fits)) \o Run(SubSeq(rest, fits + 1, Len(rest)))
  IN  IF ip < Len(in) - 1
        THEN Literal \cup UNION {Back(ref) : ref \in Matches(in, ip)}
      ELSE IF Used(out, lit) + 3 > outLen THEN {Fails}
      ELSE {tail}

\* The possible results of lzf_compress, Fails for 0.
LzfCompress(in, outLen) ==
  IF in = <<>> \/ outLen = 0 THEN {Fails} ELSE CompressFrom(in, outLen, 1, <<>>, <<>>)

\* n cells are copied one after the other, the ones just written included.
RECURSIVE CopyBack(_, _, _)
CopyBack(out, ref, n) == IF n = 0 THEN out ELSE CopyBack(Append(out, out[ref]), ref + 1, n - 1)

RECURSIVE DecompressFrom(_, _, _, _)
DecompressFrom(in, outLen, ip, out) ==
  LET ctrl == in[ip]
      len == ctrl \div OffSlots
      cells == IF len = Long THEN 3 ELSE 2
      whole == ip + cells - 1 <= Len(in)
      length == IF len = Long THEN len + in[ip + 1] + 2 ELSE len + 2
      ref == Len(out) + 1 - (ctrl % OffSlots) * CellValues - 1 - in[ip + cells - 1]
      Then(p, o) == IF p > Len(in) THEN o ELSE DecompressFrom(in, outLen, p, o)
  IN  IF len = 0
        THEN IF Len(out) + ctrl + 1 > outLen \/ ip + ctrl + 1 > Len(in) THEN Fails
             ELSE Then(ip + ctrl + 2, out \o SubSeq(in, ip + 1, ip + ctrl + 1))
      ELSE IF ~whole THEN Fails
      ELSE IF Len(out) + length > outLen \/ ref < 1 THEN Fails
      ELSE Then(ip + cells, CopyBack(out, ref, length))

\* Of a sequence that is not empty; Fails for 0.
LzfDecompress(in, outLen) == DecompressFrom(in, outLen, 1, <<>>)

-----------------------------------------------------------------------------

\* Whatever the compressor finds, the decompressor gives back, and what it
\* writes fits.
LzfAgrees(in, outLen) ==
  \A out \in LzfCompress(in, outLen) :
    out # Fails => Len(out) <= outLen /\ LzfDecompress(out, Len(in)) = in

=============================================================================
