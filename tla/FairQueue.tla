------------------------------ MODULE FairQueue ------------------------------
(***************************************************************************)
(* What blocking pops promise (doc/BlpopCommand.html): clients that wait   *)
(* for lists stand in one queue, "the first to be served will be the one   *)
(* that started to wait earlier", and an element goes to one place only.   *)
(* Clients per key, timeouts, transactions and nested commands are         *)
(* invisible here; BlockingPop implements this specification.              *)
(***************************************************************************)
EXTENDS Naturals, Sequences, SequencesExt

CONSTANTS Clients, Keys, Elements,
          KeyLists  \* the lists of keys a client may wait for

VARIABLES lists,   \* key -> its elements
          queue,   \* who waits, and for which keys, in order of arrival
          got      \* client -> the elements it was given

vars == <<lists, queue, got>>

Waits(k) == {i \in DOMAIN queue : k \in ToSet(queue[i].keys)}
First(k) == CHOOSE i \in Waits(k) : \A j \in Waits(k) : i <= j

Init ==
  /\ lists = [k \in Keys |-> <<>>]
  /\ queue = <<>>
  /\ got = [c \in Clients |-> <<>>]

Gives(c, e) == got' = [got EXCEPT ![c] = Append(@, e)]

\* A new element goes to the client that has waited longest, or into the list.
Push(k, e) ==
  \/ /\ Waits(k) # {}
     /\ Gives(queue[First(k)].who, e) /\ queue' = RemoveAt(queue, First(k))
     /\ UNCHANGED lists
  \/ /\ Waits(k) = {}
     /\ lists' = [lists EXCEPT ![k] = Append(@, e)]
     /\ UNCHANGED <<queue, got>>

\* A client that finds an element does not wait.
Pop(c) ==
  \E k \in Keys :
    /\ lists[k] # <<>>
    /\ Gives(c, Head(lists[k])) /\ lists' = [lists EXCEPT ![k] = Tail(@)]
    /\ UNCHANGED queue

Wait(c, keys) ==
  /\ \A k \in ToSet(keys) : lists[k] = <<>>
  /\ \A i \in DOMAIN queue : queue[i].who # c
  /\ queue' = Append(queue, [who |-> c, keys |-> keys])
  /\ UNCHANGED <<lists, got>>

\* A timeout, or a lost connection.
Leave ==
  /\ \E i \in DOMAIN queue : queue' = RemoveAt(queue, i)
  /\ UNCHANGED <<lists, got>>

\* RENAME, and RPOPLPUSH, which takes the last element of a list.
Rename(k, l) ==
  /\ lists' = [lists EXCEPT ![k] = <<>>, ![l] = lists[k]]
  /\ UNCHANGED <<queue, got>>

HandOver(k, l) ==
  /\ lists[k] # <<>> /\ Waits(l) # {}
  /\ Gives(queue[First(l)].who, Last(lists[k])) /\ queue' = RemoveAt(queue, First(l))
  /\ lists' = [lists EXCEPT ![k] = Front(@)]

Rotate(k, l) ==
  /\ lists[k] # <<>> /\ Waits(l) = {}
  /\ LET rest == [lists EXCEPT ![k] = Front(@)]
     IN  lists' = [rest EXCEPT ![l] = <<Last(lists[k])>> \o @]
  /\ UNCHANGED <<queue, got>>

Next ==
  \/ \E k \in Keys, e \in Elements : Push(k, e)
  \/ \E c \in Clients : Pop(c)
  \/ \E c \in Clients, keys \in KeyLists : Wait(c, keys)
  \/ Leave
  \/ \E k \in Keys, l \in Keys : Rename(k, l) \/ Rotate(k, l) \/ HandOver(k, l)

Spec == Init /\ [][Next]_vars
=============================================================================
