---------------------------- MODULE KeyValueMap ----------------------------
(***************************************************************************)
(* What a dict of dict.c promises its callers: a partial map from keys to  *)
(* values in which every call is atomic.  Hash tables, incremental         *)
(* rehashing, resizing and iterators are invisible here; Dict implements   *)
(* this specification.                                                     *)
(***************************************************************************)
CONSTANTS Keys,   \* the keys callers use
          Vals,   \* the values callers store
          NULL    \* the C null pointer, "no such key"

VARIABLES map,    \* the map: a function whose domain is the keys present
          ret     \* the result of the last call

vars == <<map, ret>>

Present == DOMAIN map

Bind(k, v) == [x \in Present \cup {k} |-> IF x = k THEN v ELSE map[x]]

Init == map = [x \in {} |-> NULL] /\ ret = NULL

\* dictAdd adds a missing key and refuses a present one.
Add(k, v) ==
  \/ k \notin Present /\ map' = Bind(k, v) /\ ret' = "ok"
  \/ k \in Present /\ map' = map /\ ret' = "err"

\* dictReplace always stores, and says whether the key is new.
Replace(k, v) ==
  /\ map' = Bind(k, v)
  /\ ret' = IF k \in Present THEN "replaced" ELSE "added"

\* dictDelete and dictDeleteNoFree.
Delete(k) ==
  /\ map' = [x \in Present \ {k} |-> map[x]]
  /\ ret' = IF k \in Present THEN "ok" ELSE "err"

\* dictFind and dictFetchValue.
Find(k) ==
  /\ map' = map
  /\ ret' = IF k \in Present THEN map[k] ELSE NULL

\* dictGetRandomKey returns some key of the map, and NULL only when empty.
RandomKey ==
  /\ map' = map
  /\ IF Present = {} THEN ret' = NULL ELSE ret' \in Present

\* dictEmpty.
Empty == map' = [x \in {} |-> NULL] /\ ret' = ret

\* A call of dictNext leaves the map alone and returns a key of it, or NULL.
Visit ==
  /\ map' = map
  /\ ret' \in Present \cup {NULL}

Next ==
  \/ \E k \in Keys, v \in Vals : Add(k, v) \/ Replace(k, v)
  \/ \E k \in Keys : Delete(k) \/ Find(k)
  \/ RandomKey
  \/ Visit
  \/ Empty

Spec == Init /\ [][Next]_vars
=============================================================================
