------------------------------- MODULE Adlist -------------------------------
(***************************************************************************)
(* adlist.c and the list commands on it (redis.c 4693-5012): a doubly      *)
(* linked list.  Nodes are positive numbers, a new one is the smallest     *)
(* that is free; the values are string objects.                            *)
(***************************************************************************)
EXTENDS Strings

Nil == 0

ListCreate == [head |-> Nil, tail |-> Nil, len |-> 0, node |-> <<>>]

NewNode(l) ==
  CHOOSE n \in 1..(Cardinality(DOMAIN l.node) + 1) :
    n \notin DOMAIN l.node /\ \A m \in 1..(n - 1) : m \in DOMAIN l.node

With(l, n, node) == [m \in DOMAIN l.node \cup {n} |-> IF m = n THEN node ELSE l.node[m]]

ListAddNodeHead(l, value) ==
  LET n == NewNode(l)
      linked == IF l.len = 0 THEN l ELSE [l EXCEPT !.node[l.head].prev = n]
  IN  [head |-> n, tail |-> IF l.len = 0 THEN n ELSE l.tail, len |-> l.len + 1,
       node |-> With(linked, n, [value |-> value, prev |-> Nil, next |-> l.head])]

ListAddNodeTail(l, value) ==
  LET n == NewNode(l)
      linked == IF l.len = 0 THEN l ELSE [l EXCEPT !.node[l.tail].next = n]
  IN  [head |-> IF l.len = 0 THEN n ELSE l.head, tail |-> n, len |-> l.len + 1,
       node |-> With(linked, n, [value |-> value, prev |-> l.tail, next |-> Nil])]

ListDelNode(l, n) ==
  LET gone == l.node[n]
  IN  [head |-> IF gone.prev = Nil THEN gone.next ELSE l.head,
       tail |-> IF gone.next = Nil THEN gone.prev ELSE l.tail, len |-> l.len - 1,
       node |-> [m \in DOMAIN l.node \ {n} |->
                   [l.node[m] EXCEPT !.next = IF m = gone.prev THEN gone.next ELSE @,
                                     !.prev = IF m = gone.next THEN gone.prev ELSE @]]]

\* The nodes an iterator gives that stands at n: listNext until NULL.
RECURSIVE ListNext(_, _, _)
ListNext(l, n, forward) ==
  IF n = Nil THEN <<>>
  ELSE <<n>> \o ListNext(l, IF forward THEN l.node[n].next ELSE l.node[n].prev, forward)

ListRewind(l) == ListNext(l, l.head, TRUE)
ListRewindTail(l) == ListNext(l, l.tail, FALSE)

Values(l, nodes) == [i \in DOMAIN nodes |-> l.node[nodes[i]].value]

RECURSIVE AddAll(_, _)
AddAll(l, values) ==
  IF values = <<>> THEN l ELSE AddAll(ListAddNodeTail(l, values[1]), Tail(values))

ListDup(orig) == AddAll(ListCreate, Values(orig, ListRewind(orig)))

\* From the tail when index is negative; Nil beyond the last node.
ListIndex(l, index) ==
  LET nodes == IF index < 0 THEN ListRewindTail(l) ELSE ListRewind(l)
      i == IF index < 0 THEN -index ELSE index + 1
  IN  IF i <= Len(nodes) THEN nodes[i] ELSE Nil

-----------------------------------------------------------------------------
(* The commands; a list that becomes empty is deleted with its key.        *)

\* The last argument of a command is encoded.
Argument(e) == TryObjectEncoding(Raw(e))

PushGenericCommand(l, e, head) ==
  IF head THEN ListAddNodeHead(l, Argument(e)) ELSE ListAddNodeTail(l, Argument(e))

PopGenericCommand(l, head) == ListDelNode(l, IF head THEN l.head ELSE l.tail)

LsetCommand(l, index, e) ==
  LET ln == ListIndex(l, index)
  IN  IF ln = Nil THEN l ELSE [l EXCEPT !.node[ln].value = Argument(e)]

\* With source and target the same list.
Rpoplpushcommand(l) ==
  ListDelNode(ListAddNodeHead(l, l.node[l.tail].value), l.tail)

RECURSIVE DelFirst(_, _)
DelFirst(l, n) == IF n = 0 THEN l ELSE DelFirst(ListDelNode(l, l.head), n - 1)

RECURSIVE DelLast(_, _)
DelLast(l, n) == IF n = 0 THEN l ELSE DelLast(ListDelNode(l, l.tail), n - 1)

From(start, llen) == IF start >= 0 THEN start ELSE IF llen + start < 0 THEN 0 ELSE llen + start
To(end, llen) == IF end < 0 THEN llen + end ELSE end

LtrimCommand(l, start, end) ==
  LET from == From(start, l.len)
      to == To(end, l.len)
      none == from > to \/ from >= l.len
      ltrim == IF none THEN l.len ELSE from
      rtrim == IF none \/ to >= l.len THEN 0 ELSE l.len - to - 1
  IN  DelLast(DelFirst(l, ltrim), rtrim)

\* The loop at ln; toremove is negative from the tail, 0 for all.
RECURSIVE RemoveFrom(_, _, _, _, _)
RemoveFrom(l, ln, obj, toremove, removed) ==
  IF ln = Nil \/ (toremove # 0 /\ removed \in {toremove, -toremove}) THEN l
  ELSE LET next == IF toremove < 0 THEN l.node[ln].prev ELSE l.node[ln].next
       IN  IF EqualStringObjects(l.node[ln].value, obj)
           THEN RemoveFrom(ListDelNode(l, ln), next, obj, toremove, removed + 1)
           ELSE RemoveFrom(l, next, obj, toremove, removed)

LremCommand(l, toremove, e) ==
  RemoveFrom(l, IF toremove < 0 THEN l.tail ELSE l.head, Argument(e), toremove, 0)

LlenCommand(l) == l.len
LindexCommand(l, index) == ListIndex(l, index)

\* The nodes of the reply.
LrangeCommand(l, start, end) ==
  LET from == From(start, l.len)
      to == To(end, l.len)
      rangelen == (IF to >= l.len THEN l.len - 1 ELSE to) - from + 1
  IN  IF from > to \/ from >= l.len THEN <<>>
      ELSE SubSeq(ListNext(l, ListIndex(l, from), TRUE), 1, rangelen)

-----------------------------------------------------------------------------

\* Both directions go through every node once, and count them.
ListOK(l) ==
  LET forward == ListRewind(l)
  IN  /\ l.len = Len(forward) /\ l.len = Cardinality(DOMAIN l.node)
      /\ {forward[i] : i \in DOMAIN forward} = DOMAIN l.node
      /\ ListRewindTail(l) = [i \in 1..l.len |-> forward[l.len + 1 - i]]
      /\ l.tail = (IF l.len = 0 THEN Nil ELSE forward[l.len])

=============================================================================
