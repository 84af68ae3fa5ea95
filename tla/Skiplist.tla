------------------------------ MODULE Skiplist ------------------------------
(***************************************************************************)
(* Sorted sets (redis.c 5441-5735, 5738-5923, 6133-6396): a dict from      *)
(* elements to scores and a skip list with spans over the same elements.   *)
(* Elements are positive integers in the order of compareStringObjects, so *)
(* an element names its node; the header is node 0.  Levels are counted    *)
(* from 1; span[i] of a node is the code's span[i-1], level 1 has none.    *)
(***************************************************************************)
EXTENDS Integers, Sequences, FiniteSets

CONSTANT MaxLevel    \* ZSKIPLIST_MAXLEVEL

Header == 0
Nil == -1

ZslCreate ==
  [level |-> 1, length |-> 0, tail |-> Nil,
   node |-> [n \in {Header} |->
               [score |-> 0, backward |-> Nil,
                forward |-> [i \in 1..MaxLevel |-> Nil], span |-> [i \in 1..MaxLevel |-> 0]]]]

\* The elements of zs->dict with their scores, and the skip list.
CreateZsetObject == [dict |-> [e \in {} |-> 0], zsl |-> ZslCreate]

Elements(zsl) == DOMAIN zsl.node \ {Header}

\* The elements before (score, e) in the order of the list.
Before(zsl, score, e) ==
  {n \in Elements(zsl) : \/ zsl.node[n].score < score
                         \/ zsl.node[n].score = score /\ n < e}

Span(zsl, n, i) == IF i = 1 THEN 1 ELSE zsl.node[n].span[i]

\* One level of a search: forward over the nodes of passed, at most limit away
\* from the header.
RECURSIVE Advance(_, _, _, _, _)
Advance(zsl, at, i, passed, limit) ==
  LET next == zsl.node[at.x].forward[i]
      rank == at.rank + Span(zsl, at.x, i)
  IN  IF next \in passed /\ rank <= limit
        THEN Advance(zsl, [x |-> next, rank |-> rank], i, passed, limit) ELSE at

\* update[] and rank[]: where the search leaves each level.
Path(zsl, passed, limit) ==
  LET path[i \in 1..zsl.level] ==
        Advance(zsl, IF i = zsl.level THEN [x |-> Header, rank |-> 0] ELSE path[i + 1],
                i, passed, limit)
  IN  path

ByScore(zsl, passed) == Path(zsl, passed, zsl.length)
ByRank(zsl, limit) == Path(zsl, Elements(zsl), limit)

\* Mutant of ZslInsert: levels above the new node keep their spans.
InsertSpansBelow(zsl, score, e, level) ==
  LET path == ByScore(zsl, Before(zsl, score, e))
      top == IF level > zsl.level THEN level ELSE zsl.level
      At(i) == IF i <= zsl.level THEN path[i] ELSE [x |-> Header, rank |-> 0]
      Old(i) == IF i <= zsl.level THEN Span(zsl, At(i).x, i) ELSE zsl.length
      Crossed(i) == path[1].rank - At(i).rank
      Next(i) == zsl.node[At(i).x].forward[i]
  IN  [level |-> top, length |-> zsl.length + 1,
       tail |-> IF Next(1) = Nil THEN e ELSE zsl.tail,
       node |-> [n \in DOMAIN zsl.node \cup {e} |->
         IF n = e
           THEN [score |-> score, backward |-> IF At(1).x = Header THEN Nil ELSE At(1).x,
                 forward |-> [i \in 1..level |-> Next(i)],
                 span |-> [i \in 1..level |-> Old(i) - Crossed(i)]]
           ELSE [score |-> zsl.node[n].score,
                 backward |-> IF n = Next(1) THEN e ELSE zsl.node[n].backward,
                 forward |-> [i \in DOMAIN zsl.node[n].forward |->
                                IF i <= level /\ At(i).x = n THEN e ELSE zsl.node[n].forward[i]],
                 span |-> [i \in DOMAIN zsl.node[n].span |->
                             IF i <= level /\ At(i).x = n THEN Crossed(i) + 1
                             ELSE zsl.node[n].span[i]]]]]

\* level is what zslRandomLevel returned.
ZslInsert(zsl, score, e, level) ==
  LET path == ByScore(zsl, Before(zsl, score, e))
      top == IF level > zsl.level THEN level ELSE zsl.level
      At(i) == IF i <= zsl.level THEN path[i] ELSE [x |-> Header, rank |-> 0]
      Old(i) == IF i <= zsl.level THEN Span(zsl, At(i).x, i) ELSE zsl.length
      Crossed(i) == path[1].rank - At(i).rank
      Next(i) == zsl.node[At(i).x].forward[i]
  IN  [level |-> top, length |-> zsl.length + 1,
       tail |-> IF Next(1) = Nil THEN e ELSE zsl.tail,
       node |-> [n \in DOMAIN zsl.node \cup {e} |->
         IF n = e
           THEN [score |-> score, backward |-> IF At(1).x = Header THEN Nil ELSE At(1).x,
                 forward |-> [i \in 1..level |-> Next(i)],
                 span |-> [i \in 1..level |-> Old(i) - Crossed(i)]]
           ELSE [score |-> zsl.node[n].score,
                 backward |-> IF n = Next(1) THEN e ELSE zsl.node[n].backward,
                 forward |-> [i \in DOMAIN zsl.node[n].forward |->
                                IF i <= level /\ At(i).x = n THEN e ELSE zsl.node[n].forward[i]],
                 span |-> [i \in DOMAIN zsl.node[n].span |->
                             IF i > top \/ At(i).x # n THEN zsl.node[n].span[i]
                             ELSE IF i <= level THEN Crossed(i) + 1
                             ELSE zsl.node[n].span[i] + 1]]]]

\* The node after the header's last one that is left, on every level above 1.
Lowered(zsl) ==
  LET used == {i \in 1..zsl.level : i = 1 \/ zsl.node[Header].forward[i] # Nil}
  IN  [zsl EXCEPT !.level = CHOOSE i \in used : \A j \in used : j <= i]

\* update is the code's array: the node before x on each level.
ZslDeleteNode(zsl, x, update) ==
  LET gone == zsl.node[x]
      Points(n, i) == i <= zsl.level /\ update[i] = n
      tail == IF gone.forward[1] = Nil THEN gone.backward ELSE zsl.tail
  IN  Lowered(
        [level |-> zsl.level, length |-> zsl.length - 1, tail |-> tail,
         node |-> [n \in DOMAIN zsl.node \ {x} |->
           [score |-> zsl.node[n].score,
            backward |-> IF n = gone.forward[1] THEN gone.backward ELSE zsl.node[n].backward,
            forward |-> [i \in DOMAIN zsl.node[n].forward |->
                           IF Points(n, i) /\ zsl.node[n].forward[i] = x THEN gone.forward[i]
                           ELSE zsl.node[n].forward[i]],
            span |-> [i \in DOMAIN zsl.node[n].span |->
                        IF i = 1 \/ ~Points(n, i) THEN zsl.node[n].span[i]
                        ELSE IF zsl.node[n].forward[i] = x
                          THEN zsl.node[n].span[i] + gone.span[i] - 1
                        ELSE zsl.node[n].span[i] - 1]]]])

Update(path) == [i \in DOMAIN path |-> path[i].x]

ZslDelete(zsl, score, e) ==
  LET update == Update(ByScore(zsl, Before(zsl, score, e)))
      x == zsl.node[update[1]].forward[1]
  IN  IF x # Nil /\ zsl.node[x].score = score /\ x = e THEN ZslDeleteNode(zsl, x, update) ELSE zsl

\* The loops of both range deletions: the nodes after update, as long as they
\* are in range, each deleted with the same update array.
RECURSIVE DeleteWhile(_, _, _)
DeleteWhile(zs, update, range) ==
  LET x == zs.zsl.node[update[1]].forward[1]
  IN  IF x \notin range THEN zs
      ELSE DeleteWhile([dict |-> [e \in DOMAIN zs.dict \ {x} |-> zs.dict[e]],
                        zsl |-> ZslDeleteNode(zs.zsl, x, update)], update, range)

ZslDeleteRangeByScore(zs, min, max) ==
  LET below == {n \in Elements(zs.zsl) : zs.zsl.node[n].score < min}
  IN  DeleteWhile(zs, Update(ByScore(zs.zsl, below)),
                  {n \in Elements(zs.zsl) : zs.zsl.node[n].score <= max})

\* The count positions from the 1-based start on.
RECURSIVE NodesFrom(_, _, _)
NodesFrom(zsl, n, count) ==
  IF n = Nil \/ count <= 0 THEN <<>>
  ELSE <<n>> \o NodesFrom(zsl, zsl.node[n].forward[1], count - 1)

ZslDeleteRangeByRank(zs, start, end) ==
  LET path == ByRank(zs.zsl, start - 1)
      first == zs.zsl.node[path[1].x].forward[1]
      range == NodesFrom(zs.zsl, first, end - path[1].rank)
  IN  DeleteWhile(zs, Update(path), {range[i] : i \in DOMAIN range})

-----------------------------------------------------------------------------
(* The searches.                                                           *)

ZslFirstWithScore(zsl, score) ==
  LET below == {n \in Elements(zsl) : zsl.node[n].score < score}
  IN  zsl.node[ByScore(zsl, below)[1].x].forward[1]

\* 0 when the element is not there: each level stops at the last node not after
\* it and tests that one.
ZslGetRank(zsl, score, e) ==
  LET path == ByScore(zsl, Before(zsl, score, e + 1))
      found == {i \in 1..zsl.level : path[i].x = e}
  IN  IF found = {} THEN 0 ELSE path[CHOOSE i \in found : TRUE].rank

ZslGetElementByRank(zsl, rank) ==
  LET path == ByRank(zsl, rank)
      found == {i \in 1..zsl.level : path[i].rank = rank}
  IN  IF found = {} THEN Nil ELSE path[CHOOSE i \in found : \A j \in found : j <= i].x

-----------------------------------------------------------------------------
(* The commands.                                                           *)

\* ZADD and ZINCRBY.
ZaddGenericCommand(zs, e, scoreval, doincrement, level) ==
  LET known == e \in DOMAIN zs.dict
      score == IF doincrement /\ known THEN zs.dict[e] + scoreval ELSE scoreval
      dict == [f \in DOMAIN zs.dict \cup {e} |-> IF f = e THEN score ELSE zs.dict[f]]
  IN  IF ~known THEN [dict |-> dict, zsl |-> ZslInsert(zs.zsl, score, e, level)]
      ELSE IF score = zs.dict[e] THEN zs
      ELSE [dict |-> dict,
            zsl |-> ZslInsert(ZslDelete(zs.zsl, zs.dict[e], e), score, e, level)]

ZremCommand(zs, e) ==
  IF e \notin DOMAIN zs.dict THEN zs
  ELSE [dict |-> [f \in DOMAIN zs.dict \ {e} |-> zs.dict[f]],
        zsl |-> ZslDelete(zs.zsl, zs.dict[e], e)]

ZremrangebyscoreCommand(zs, min, max) == ZslDeleteRangeByScore(zs, min, max)

From(start, llen) == IF start >= 0 THEN start ELSE IF llen + start < 0 THEN 0 ELSE llen + start
To(end, llen) == IF end < 0 THEN llen + end ELSE end

ZremrangebyrankCommand(zs, start, end) ==
  LET llen == zs.zsl.length
      from == From(start, llen)
      to == To(end, llen)
  IN  IF from > to \/ from >= llen THEN zs
      ELSE ZslDeleteRangeByRank(zs, from + 1, (IF to >= llen THEN llen - 1 ELSE to) + 1)

\* n nodes from ln on, backwards when reverse.
RECURSIVE Walk(_, _, _, _)
Walk(zsl, ln, n, reverse) ==
  IF n = 0 THEN <<>>
  ELSE <<ln>> \o Walk(zsl, IF reverse THEN zsl.node[ln].backward ELSE zsl.node[ln].forward[1],
                      n - 1, reverse)

ZrangeGenericCommand(zs, start, end, reverse) ==
  LET zsl == zs.zsl
      llen == zsl.length
      from == From(start, llen)
      to == To(end, llen)
      last == IF to >= llen THEN llen - 1 ELSE to
      first == IF reverse
                 THEN IF from = 0 THEN zsl.tail ELSE ZslGetElementByRank(zsl, llen - from)
                 ELSE IF from = 0 THEN zsl.node[Header].forward[1]
                      ELSE ZslGetElementByRank(zsl, from + 1)
  IN  IF from > to \/ from >= llen THEN <<>> ELSE Walk(zsl, first, last - from + 1, reverse)

\* The nodes from ln on whose score is in range, after offset of them, at most
\* limit; a negative limit is none.
RECURSIVE WithinScore(_, _, _, _, _, _)
WithinScore(zsl, ln, max, maxex, offset, limit) ==
  IF ln = Nil THEN <<>>
  ELSE IF ~(IF maxex THEN zsl.node[ln].score < max ELSE zsl.node[ln].score <= max) THEN <<>>
  ELSE LET next == zsl.node[ln].forward[1]
       IN  IF offset > 0 THEN WithinScore(zsl, next, max, maxex, offset - 1, limit)
           ELSE IF limit = 0 THEN <<>>
           ELSE <<ln>> \o WithinScore(zsl, next, max, maxex, 0, limit - 1)

RECURSIVE SkipScore(_, _, _)
SkipScore(zsl, ln, min) ==
  IF ln # Nil /\ zsl.node[ln].score = min THEN SkipScore(zsl, zsl.node[ln].forward[1], min) ELSE ln

\* ZRANGEBYSCORE; ZCOUNT is the length of its result without LIMIT.
GenericZrangebyscoreCommand(zs, min, max, minex, maxex, offset, limit) ==
  LET first == ZslFirstWithScore(zs.zsl, min)
      ln == IF minex THEN SkipScore(zs.zsl, first, min) ELSE first
  IN  WithinScore(zs.zsl, ln, max, maxex, IF offset < 0 THEN 0 ELSE offset, limit)

\* The reply of ZRANK and ZREVRANK, Nil for the null bulk.
ZrankGenericCommand(zs, e, reverse) ==
  IF e \notin DOMAIN zs.dict THEN Nil
  ELSE LET rank == ZslGetRank(zs.zsl, zs.dict[e], e)
       IN  IF rank = 0 THEN Nil ELSE IF reverse THEN zs.zsl.length - rank ELSE rank - 1

ZcardCommand(zs) == zs.zsl.length
ZscoreCommand(zs, e) == IF e \in DOMAIN zs.dict THEN zs.dict[e] ELSE Nil

-----------------------------------------------------------------------------
(* What the structure has to be.                                           *)

\* The elements of a dict in the order of the sorted set.
InOrder(dict) ==
  CHOOSE s \in [1..Cardinality(DOMAIN dict) -> DOMAIN dict] :
    \A i, j \in DOMAIN s : i < j =>
      dict[s[i]] < dict[s[j]] \/ (dict[s[i]] = dict[s[j]] /\ s[i] < s[j])

\* Every level links, in order, the elements that reach it, each span is the
\* number of elements it crosses (those left, at the end of a level), and the
\* backward pointers and the tail mirror level 1.
ZsetOK(zs) ==
  LET zsl == zs.zsl
      s == InOrder(zs.dict)
      n == Len(s)
      Node(p) == IF p = 0 THEN Header ELSE s[p]
      Height(p) == Len(zsl.node[Node(p)].forward)
      Next(p, i) == LET ahead == {q \in p + 1..n : Height(q) >= i}
                    IN  IF ahead = {} THEN 0 ELSE CHOOSE q \in ahead : \A r \in ahead : q <= r
  IN  /\ Elements(zsl) = DOMAIN zs.dict /\ zsl.length = n
      /\ \A e \in DOMAIN zs.dict : zsl.node[e].score = zs.dict[e]
      /\ zsl.tail = (IF n = 0 THEN Nil ELSE s[n])
      /\ \A p \in 1..n : zsl.node[s[p]].backward = (IF p = 1 THEN Nil ELSE s[p - 1])
      /\ \A p \in 1..n : Height(p) <= zsl.level
      /\ zsl.level = 1 \/ \E p \in 1..n : Height(p) = zsl.level
      /\ \A p \in 0..n : \A i \in 1..zsl.level : i <= Height(p) =>
           /\ zsl.node[Node(p)].forward[i] = (IF Next(p, i) = 0 THEN Nil ELSE s[Next(p, i)])
           /\ i > 1 => zsl.node[Node(p)].span[i] = (IF Next(p, i) = 0 THEN n ELSE Next(p, i)) - p

=============================================================================
