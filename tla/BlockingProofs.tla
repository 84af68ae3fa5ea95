---------------------------- MODULE BlockingProofs ----------------------------
(***************************************************************************)
(* What holds of blocking pops for every number of clients and lists and   *)
(* however deep commands nest: they implement one fair queue, and the      *)
(* commands that were propagated rebuild the lists.                        *)
(***************************************************************************)
EXTENDS BlockingPop, InductionFacts, SequenceTheorems, TLAPS

-----------------------------------------------------------------------------
(* The inductive invariant.                                                *)

Distinct(q) == \A i, j \in DOMAIN q : q[i] = q[j] => i = j

Precedes(q, c, d) == \E i, j \in DOMAIN q : i < j /\ q[i] = c /\ q[j] = d

\* Every list of waiting clients is the order of arrival, restricted to the
\* clients that remember the list's key.
QueueInv ==
  /\ arrival \in Seq(Clients) /\ Distinct(arrival)
  /\ blockingkeys \in [Clients -> Seq(Keys)]
  /\ waiting \in [Keys -> Seq(Clients)]
  /\ \A c \in Clients : Blocked(c) <=> c \in ToSet(arrival)
  /\ \A k \in Keys, c \in Clients : k \in ToSet(blockingkeys[c]) <=> c \in ToSet(waiting[k])
  /\ \A k \in Keys : \A i, j \in DOMAIN waiting[k] :
       i < j => Precedes(arrival, waiting[k][i], waiting[k][j])
  /\ blockingto \in [Clients -> {"none", "running", "over"}]
  /\ \A c \in Clients : blockingto[c] # "none" => Blocked(c)

Queued == {"push", "pop", "rename", "rpoplpush", "multi"}
Ops == Queued \cup {"exec", "discard", "quit"}

Words == [op : Ops \cup {"none"}, keys : Seq(Keys), timed : BOOLEAN, ele : Nat]

\* What a client sends: its command has the arguments it needs.
Commands ==
  {cmd \in Words :
     /\ cmd.op # "none"
     /\ cmd.op = "push" => Len(cmd.keys) = 1 /\ cmd.ele \in Elements
     /\ cmd.op = "pop" => cmd.keys \in PopKeys /\ Len(cmd.keys) > 0
     /\ cmd.op \in {"rename", "rpoplpush"} => Len(cmd.keys) = 2}

CommandsInv ==
  /\ sent \in [DOMAIN Limit -> Nat]
  /\ querybuf \in [Clients -> Seq(Commands)]
  /\ mstate \in [Clients -> Seq({cmd \in Commands : cmd.op \in Queued})]

Frames == [who : Clients, cmd : Words, before : Nat,
           at : {"input", "run", "exec", "done", "cron"}, own : BOOLEAN]

\* d: server.dirty, m: the clients in a transaction, b: the blocked clients.
GoodFrame(f, d, m, b) ==
  /\ f.before <= d
  /\ f.own => f.at = "done" /\ f.before # d
  /\ f.at = "run" => f.cmd \in Commands /\ f.cmd.op # "quit" /\ f.who \notin b /\ f.before = d
  /\ f.at = "exec" => f.cmd.op = "exec" /\ f.who \in m /\ f.who \notin b

\* EXEC runs its client's commands only.
MayNest(f, e) ==
  f.at = "exec" /\ f.who = e.who => e.at \in {"run", "done"} /\ e.cmd.op \in Queued

GoodStack(s, d, m, b) ==
  /\ s \in Seq(Frames) /\ d \in Nat
  /\ \A i \in 1 .. Len(s) : GoodFrame(s[i], d, m, b)
  /\ \A i \in 2 .. Len(s) : s[i].at # "run" /\ ~s[i].own
  /\ \A i, j \in 1 .. Len(s) : i < j => MayNest(s[j], s[i])

BlockedClients == {c \in Clients : Blocked(c)}

StackInv == multi \subseteq Clients /\ GoodStack(stack, dirty, multi, BlockedClients)

BlockInv == QueueInv /\ CommandsInv /\ StackInv

Replayed == FoldLeft(Applied, [k \in Keys |-> <<>>], aof)

\* A command that has changed server.dirty and nothing else: it will be
\* propagated nevertheless.
Doomed == \E i \in 1 .. Len(stack) :
            stack[i].at = "done" /\ ~stack[i].own /\ stack[i].before # dirty

\* The log lags by the command that is just done.
LogInv ==
  /\ aof \in Seq(Words)
  /\ ~misfed /\ ~Doomed =>
       lists = IF stack # <<>> /\ Head(stack).own THEN Applied(Replayed, Head(stack).cmd)
                                                 ELSE Replayed

-----------------------------------------------------------------------------
(* Sequences without duplicates.                                           *)

\* RemoveFirst takes out the one place where the element is.
LEMMA RemoveFirstIs ==
  ASSUME NEW S, NEW q \in Seq(S), NEW c
  PROVE  /\ c \notin ToSet(q) => RemoveFirst(q, c) = q
         /\ \A p \in 1 .. Len(q) :
              q[p] = c /\ Distinct(q) => RemoveFirst(q, c) = RemoveAt(q, p)
  <1>1. DOMAIN q = 1 .. Len(q)
    OBVIOUS
  <1>2. ASSUME NEW p \in 1 .. Len(q), q[p] = c, Distinct(q)
        PROVE  RemoveFirst(q, c) = RemoveAt(q, p)
    <2> DEFINE I == {i \in 1 .. Len(q) : q[i] = c}
    <2>1. I = {p}
      BY <1>1, <1>2 DEF Distinct
    <2> HIDE DEF I
    <2>2. Min(I) = p
      BY <2>1 DEF Min
    <2>3. SelectInSeq(q, LAMBDA v : v = c) = IF I # {} THEN Min(I) ELSE 0
      BY DEF SelectInSeq, I
    <2> QED
      BY <1>2, <2>1, <2>2, <2>3 DEF RemoveFirst
  <1>3. c \notin ToSet(q) => RemoveFirst(q, c) = q
    BY <1>1 DEF RemoveFirst, ToSet
  <1> QED
    BY <1>2, <1>3

\* What is left keeps its order.
LEMMA RemoveKeeps ==
  ASSUME NEW S, NEW q \in Seq(S), Distinct(q), NEW c, NEW r, r = RemoveFirst(q, c)
  PROVE  /\ r \in Seq(S) /\ Distinct(r)
         /\ \A d : d \in ToSet(r) <=> d \in ToSet(q) /\ d # c
         /\ \A i, j \in DOMAIN r : i < j => Precedes(q, r[i], r[j])
         /\ \A d, e : Precedes(q, d, e) /\ d # c /\ e # c => Precedes(r, d, e)
  <1>1. CASE c \notin ToSet(q)
    BY <1>1, RemoveFirstIs DEF Precedes
  <1>2. CASE c \in ToSet(q)
    <2>1. PICK p \in 1 .. Len(q) : q[p] = c
      BY <1>2 DEF ToSet
    <2> DEFINE At(i) == IF i < p THEN i ELSE i + 1
               To(i) == IF i < p THEN i ELSE i - 1
    <2>2. /\ r \in Seq(S) /\ Len(r) = Len(q) - 1 /\ Len(q) \in Nat
          /\ DOMAIN q = 1 .. Len(q) /\ DOMAIN r = 1 .. Len(q) - 1
          /\ \A i \in 1 .. Len(q) - 1 : r[i] = q[At(i)]
      <3>1. r = RemoveAt(q, p)
        BY <2>1, RemoveFirstIs
      <3>2. /\ r \in Seq(S) /\ Len(r) = Len(q) - 1
            /\ \A i \in 1 .. Len(q) - 1 : r[i] = IF i < p THEN q[i] ELSE q[i + 1]
        BY <3>1, RemoveAtFacts
      <3> QED
        BY <3>2
    <2>3. \A i \in 1 .. Len(q) - 1 : At(i) \in 1 .. Len(q) /\ At(i) # p
      BY <2>2
    <2>4. \A i, j \in 1 .. Len(q) - 1 : (i < j <=> At(i) < At(j)) /\ (At(i) = At(j) => i = j)
      BY <2>2
    <2>5. \A i \in 1 .. Len(q) : i # p => To(i) \in 1 .. Len(q) - 1 /\ At(To(i)) = i
      BY <2>2
    <2> HIDE DEF At, To
    <2>6. \A i \in 1 .. Len(q) : q[i] = c => i = p
      BY <2>1, <2>2 DEF Distinct
    <2>7. Distinct(r)
      BY <2>2, <2>3, <2>4, SMTT(30) DEF Distinct
    <2>8. ASSUME NEW d PROVE d \in ToSet(r) <=> d \in ToSet(q) /\ d # c
      <3>1. ASSUME d \in ToSet(r) PROVE d \in ToSet(q) /\ d # c
        BY <2>2, <2>3, <2>6, <3>1 DEF ToSet
      <3>2. ASSUME d \in ToSet(q), d # c PROVE d \in ToSet(r)
        <4>1. PICK i \in 1 .. Len(q) : q[i] = d
          BY <2>2, <3>2 DEF ToSet
        <4>2. i # p
          BY <2>1, <3>2, <4>1
        <4> QED
          BY <2>2, <2>5, <4>1, <4>2 DEF ToSet
      <3> QED
        BY <3>1, <3>2
    <2>9. \A i, j \in DOMAIN r : i < j => Precedes(q, r[i], r[j])
      BY <2>2, <2>3, <2>4, SMTT(30) DEF Precedes
    <2>10. ASSUME NEW d, NEW e, Precedes(q, d, e), d # c, e # c
           PROVE  Precedes(r, d, e)
      <3>1. PICK i, j \in 1 .. Len(q) : i < j /\ q[i] = d /\ q[j] = e
        BY <2>2, <2>10 DEF Precedes
      <3>2. i # p /\ j # p
        BY <2>1, <2>10, <3>1
      <3>3. To(i) \in 1 .. Len(q) - 1 /\ To(j) \in 1 .. Len(q) - 1
            /\ At(To(i)) = i /\ At(To(j)) = j
        BY <2>5, <3>2
      <3>4. To(i) < To(j)
        BY <2>4, <3>1, <3>3
      <3> QED
        BY <2>2, <3>1, <3>3, <3>4 DEF Precedes
    <2> QED
      BY <2>2, <2>7, <2>8, <2>9, <2>10
  <1> QED
    BY <1>1, <1>2

LEMMA AppendKeeps ==
  ASSUME NEW S, NEW q \in Seq(S), Distinct(q), NEW c \in S, c \notin ToSet(q),
         NEW r, r = Append(q, c)
  PROVE  /\ r \in Seq(S) /\ Distinct(r)
         /\ \A d : d \in ToSet(r) <=> d \in ToSet(q) \/ d = c
         /\ \A d, e : Precedes(q, d, e) => Precedes(r, d, e)
         /\ \A d : d \in ToSet(q) => Precedes(r, d, c)
  <1>1. /\ r \in Seq(S) /\ Len(r) = Len(q) + 1 /\ Len(q) \in Nat
        /\ \A i \in 1 .. Len(q) : r[i] = q[i] /\ i \in 1 .. Len(r) /\ i < Len(r)
        /\ r[Len(r)] = c /\ Len(r) \in 1 .. Len(r)
    OBVIOUS
  <1>2. DOMAIN q = 1 .. Len(q) /\ DOMAIN r = 1 .. Len(r)
    BY <1>1
  <1>3. \A i \in 1 .. Len(r) : i \in 1 .. Len(q) \/ i = Len(r)
    BY <1>1
  <1>4. \A i \in 1 .. Len(q) : q[i] # c
    BY <1>2 DEF ToSet
  <1>5. Distinct(r)
    BY <1>1, <1>2, <1>3, <1>4 DEF Distinct
  <1>6. \A d : d \in ToSet(r) <=> d \in ToSet(q) \/ d = c
    BY <1>1, <1>2, <1>3 DEF ToSet
  <1>7. \A d, e : Precedes(q, d, e) => Precedes(r, d, e)
    BY <1>1, <1>2 DEF Precedes
  <1>8. \A d : d \in ToSet(q) => Precedes(r, d, c)
    BY <1>1, <1>2 DEF Precedes, ToSet
  <1> QED
    BY <1>1, <1>5, <1>6, <1>7, <1>8

-----------------------------------------------------------------------------
(* Blocking and unblocking keep the two sides in step.                     *)

LEMMA QueueBlocks ==
  ASSUME QueueInv, NEW c \in Clients, ~Blocked(c), NEW keys \in Seq(Keys), keys # <<>>,
         NEW timed, BlockForKeys(c, keys, timed)
  PROVE  /\ QueueInv'
         /\ \A d \in Clients \ {c} : blockingkeys'[d] = blockingkeys[d]
  <1>1. c \notin ToSet(arrival) /\ blockingkeys[c] = <<>>
    BY DEF QueueInv, Blocked
  <1>2. arrival' = Append(arrival, c)
    BY DEF BlockForKeys
  <1>3. /\ arrival' \in Seq(Clients) /\ Distinct(arrival')
        /\ \A d : d \in ToSet(arrival') <=> d \in ToSet(arrival) \/ d = c
        /\ \A d, e : Precedes(arrival, d, e) => Precedes(arrival', d, e)
        /\ \A d : d \in ToSet(arrival) => Precedes(arrival', d, c)
    <2>1. arrival \in Seq(Clients) /\ Distinct(arrival)
      BY DEF QueueInv
    <2> QED
      BY <1>1, <1>2, <2>1, AppendKeeps
  <1>4. /\ blockingkeys' = [blockingkeys EXCEPT ![c] = keys]
        /\ blockingkeys' \in [Clients -> Seq(Keys)] /\ blockingkeys'[c] = keys
        /\ \A d \in Clients \ {c} : blockingkeys'[d] = blockingkeys[d]
    BY DEF BlockForKeys, QueueInv
  <1>5. /\ blockingto' \in [Clients -> {"none", "running", "over"}]
        /\ \A d \in Clients : blockingto'[d] # "none" => Blocked(d)'
    BY <1>4 DEF BlockForKeys, QueueInv, Blocked
  <1>6. \A d \in Clients : Blocked(d)' <=> d \in ToSet(arrival')
    BY <1>3, <1>4 DEF QueueInv, Blocked
  <1>7. ASSUME NEW k \in Keys
        PROVE  /\ waiting'[k] \in Seq(Clients)
               /\ \A d \in Clients : k \in ToSet(blockingkeys'[d]) <=> d \in ToSet(waiting'[k])
               /\ \A i, j \in DOMAIN waiting'[k] :
                    i < j => Precedes(arrival', waiting'[k][i], waiting'[k][j])
    <2>0. ToSet(blockingkeys[c]) = {} /\ c \notin ToSet(waiting[k])
      <3>1. ToSet(blockingkeys[c]) = {}
        BY <1>1 DEF ToSet
      <3> QED
        BY <3>1 DEF QueueInv
    <2>1. CASE k \notin ToSet(keys)
      <3>1. waiting'[k] = waiting[k]
        BY <2>1 DEF BlockForKeys
      <3> QED
        BY <1>3, <1>4, <2>0, <2>1, <3>1 DEF QueueInv
    <2>2. CASE k \in ToSet(keys)
      <3> DEFINE w == waiting[k]
      <3>1. w \in Seq(Clients) /\ DOMAIN w = 1 .. Len(w) /\ Len(w) \in Nat
        BY DEF QueueInv
      <3>2. waiting'[k] = Append(w, c)
        BY <2>2 DEF BlockForKeys
      <3> HIDE DEF w
      <3>3. /\ waiting'[k] \in Seq(Clients) /\ DOMAIN waiting'[k] = 1 .. Len(w) + 1
            /\ waiting'[k][Len(w) + 1] = c
            /\ \A i \in 1 .. Len(w) : waiting'[k][i] = w[i]
        BY <3>1, <3>2
      <3>4. \A d : d \in ToSet(waiting'[k]) <=> d \in ToSet(w) \/ d = c
        <4>1. \A i \in 1 .. Len(w) + 1 : i \in 1 .. Len(w) \/ i = Len(w) + 1
          BY <3>1
        <4>2. Len(w) + 1 \in 1 .. Len(w) + 1 /\ \A i \in 1 .. Len(w) : i \in 1 .. Len(w) + 1
          BY <3>1
        <4> QED
          BY <3>1, <3>3, <4>1, <4>2 DEF ToSet
      <3>5. \A d \in Clients :
              k \in ToSet(blockingkeys'[d]) <=> d \in ToSet(waiting'[k])
        BY <1>4, <2>2, <3>4 DEF QueueInv, w
      <3>6. ASSUME NEW i \in DOMAIN waiting'[k], NEW j \in DOMAIN waiting'[k], i < j
            PROVE  Precedes(arrival', waiting'[k][i], waiting'[k][j])
        <4>1. i \in 1 .. Len(w) /\ w[i] \in Clients
          BY <3>1, <3>3, <3>6
        <4>2. CASE j \in 1 .. Len(w)
          <5>1. Precedes(arrival, w[i], w[j])
            BY <3>1, <3>6, <4>1, <4>2 DEF QueueInv, w
          <5> QED
            BY <1>3, <3>3, <4>1, <4>2, <5>1
        <4>3. CASE j = Len(w) + 1
          <5>1. w[i] \in ToSet(w)
            BY <3>1, <4>1 DEF ToSet
          <5>2. k \in ToSet(blockingkeys[w[i]])
            BY <4>1, <5>1 DEF QueueInv, w
          <5>3. Blocked(w[i])
            BY <5>2 DEF Blocked, ToSet
          <5>4. w[i] \in ToSet(arrival)
            BY <4>1, <5>3 DEF QueueInv
          <5> QED
            BY <1>3, <3>3, <4>1, <4>3, <5>4
        <4> QED
          BY <3>1, <3>3, <4>2, <4>3
      <3> QED
        BY <3>3, <3>5, <3>6
    <2> QED
      BY <2>1, <2>2
  <1>8. waiting' \in [Keys -> Seq(Clients)]
    BY <1>7 DEF BlockForKeys
  <1> QED
    BY <1>3, <1>4, <1>5, <1>6, <1>7, <1>8 DEF QueueInv

LEMMA QueueUnblocks ==
  ASSUME QueueInv, NEW c \in Clients, UnblockClientWaitingData(c)
  PROVE  /\ QueueInv' /\ blockingkeys'[c] = <<>>
         /\ \A d \in Clients \ {c} : blockingkeys'[d] = blockingkeys[d]
  <1>1. arrival' = RemoveFirst(arrival, c)
    BY DEF UnblockClientWaitingData, Without
  <1>2. /\ arrival' \in Seq(Clients) /\ Distinct(arrival')
        /\ \A d : d \in ToSet(arrival') <=> d \in ToSet(arrival) /\ d # c
        /\ \A d, e : Precedes(arrival, d, e) /\ d # c /\ e # c => Precedes(arrival', d, e)
    BY <1>1, RemoveKeeps DEF QueueInv
  <1>3. /\ blockingkeys' = [blockingkeys EXCEPT ![c] = <<>>]
        /\ blockingkeys' \in [Clients -> Seq(Keys)] /\ blockingkeys'[c] = <<>>
        /\ \A d \in Clients \ {c} : blockingkeys'[d] = blockingkeys[d]
    <2>1. <<>> \in Seq(Keys)
      OBVIOUS
    <2> QED
      BY <2>1 DEF UnblockClientWaitingData, QueueInv
  <1>4. /\ blockingto' \in [Clients -> {"none", "running", "over"}]
        /\ \A d \in Clients : blockingto'[d] # "none" => Blocked(d)'
    BY <1>3 DEF UnblockClientWaitingData, QueueInv, Blocked
  <1>5. \A d \in Clients : Blocked(d)' <=> d \in ToSet(arrival')
    BY <1>2, <1>3 DEF QueueInv, Blocked
  <1>6. ASSUME NEW k \in Keys
        PROVE  /\ waiting'[k] \in Seq(Clients)
               /\ \A d \in Clients : k \in ToSet(blockingkeys'[d]) <=> d \in ToSet(waiting'[k])
               /\ \A i, j \in DOMAIN waiting'[k] :
                    i < j => Precedes(arrival', waiting'[k][i], waiting'[k][j])
    <2> DEFINE w == waiting[k]
    <2>1. /\ w \in Seq(Clients) /\ DOMAIN w = 1 .. Len(w) /\ Len(w) \in Nat
          /\ \A i \in 1 .. Len(w) : w[i] \in Clients
          /\ \A d \in Clients : k \in ToSet(blockingkeys[d]) <=> d \in ToSet(w)
          /\ \A i, j \in DOMAIN w : i < j => Precedes(arrival, w[i], w[j])
      BY DEF QueueInv
    <2>2. \A i \in DOMAIN w : w[i] \in ToSet(w)
      BY DEF ToSet
    <2>3. ToSet(blockingkeys'[c]) = {}
      BY <1>3 DEF ToSet
    <2>4. CASE k \notin ToSet(blockingkeys[c])
      <3>1. waiting'[k] = w
        BY <2>4 DEF UnblockClientWaitingData
      <3>2. c \notin ToSet(w)
        BY <2>1, <2>4
      <3>3. ASSUME NEW i \in DOMAIN w, NEW j \in DOMAIN w, i < j
            PROVE  Precedes(arrival', w[i], w[j])
        <4>1. w[i] # c /\ w[j] # c
          BY <2>2, <3>2
        <4> QED
          BY <1>2, <2>1, <3>3, <4>1
      <3> HIDE DEF w
      <3> QED
        BY <1>3, <2>1, <2>3, <3>1, <3>2, <3>3
    <2>5. CASE k \in ToSet(blockingkeys[c])
      <3> DEFINE r == waiting'[k]
      <3>1. r = RemoveFirst(w, c)
        BY <2>5 DEF UnblockClientWaitingData, Without
      <3>2. Distinct(w)
        <4>1. ASSUME NEW i \in DOMAIN w, NEW j \in DOMAIN w, i < j PROVE w[i] # w[j]
          <5>1. PICK a, b \in DOMAIN arrival : a < b /\ arrival[a] = w[i] /\ arrival[b] = w[j]
            BY <2>1, <4>1 DEF Precedes
          <5>2. a # b
            <6>1. a \in Nat /\ b \in Nat
              BY DEF QueueInv
            <6> QED
              BY <5>1, <6>1
          <5> QED
            BY <5>1, <5>2 DEF QueueInv, Distinct
        <4> QED
          BY <2>1, <4>1 DEF Distinct
      <3> HIDE DEF w, r
      <3>3. /\ r \in Seq(Clients) /\ Distinct(r)
            /\ \A d : d \in ToSet(r) <=> d \in ToSet(w) /\ d # c
            /\ \A i, j \in DOMAIN r : i < j => Precedes(w, r[i], r[j])
        BY <2>1, <3>1, <3>2, RemoveKeeps
      <3>4. \A d \in Clients : k \in ToSet(blockingkeys'[d]) <=> d \in ToSet(r)
        BY <1>3, <2>1, <2>3, <3>3
      <3>5. ASSUME NEW i \in DOMAIN r, NEW j \in DOMAIN r, i < j
            PROVE  Precedes(arrival', r[i], r[j])
        <4>1. PICK a, b \in DOMAIN w : a < b /\ w[a] = r[i] /\ w[b] = r[j]
          BY <3>3, <3>5 DEF Precedes
        <4>2. Precedes(arrival, r[i], r[j])
          BY <2>1, <4>1
        <4>3. r[i] # c /\ r[j] # c
          BY <3>3, <3>5 DEF ToSet
        <4> QED
          BY <1>2, <4>2, <4>3
      <3> QED
        BY <3>3, <3>4, <3>5 DEF r
    <2> QED
      BY <2>4, <2>5
  <1>7. waiting' \in [Keys -> Seq(Clients)]
    BY <1>6 DEF UnblockClientWaitingData
  <1> QED
    BY <1>2, <1>3, <1>4, <1>5, <1>6, <1>7 DEF QueueInv

LEMMA QueueStays ==
  ASSUME QueueInv, UNCHANGED <<waiting, blockingkeys, blockingto, arrival>>
  PROVE  QueueInv'
  BY DEF QueueInv, Blocked

LEMMA PopKeysTyped == \A keys \in PopKeys : keys \in Seq(Keys) /\ keys # <<>>
  <1>1. ASSUME NEW c \in Clients, NEW req \in Requests[c], req.op = "pop"
        PROVE  req.keys \in Seq(Keys) /\ req.keys # <<>>
    <2>1. WellFormed(req)
      BY RequestsAssumption
    <2>2. req.keys \in Seq(Keys) /\ Len(req.keys) > 0
      BY <1>1, <2>1 DEF WellFormed
    <2> QED
      BY <2>2
  <1> QED
    BY <1>1 DEF PopKeys

-----------------------------------------------------------------------------
(* The stack.                                                              *)

LEMMA Pushed ==
  ASSUME NEW s, NEW d, NEW m, NEW b, GoodStack(s, d, m, b),
         NEW f \in Frames, GoodFrame(f, d, m, b),
         \A i \in 1 .. Len(s) : MayNest(s[i], f),
         s # <<>> => s[1].at # "run" /\ ~s[1].own
  PROVE  GoodStack(<<f>> \o s, d, m, b)
  <1> DEFINE t == <<f>> \o s
  <1>1. s \in Seq(Frames) /\ Len(s) \in Nat
    BY DEF GoodStack
  <1>2. /\ t \in Seq(Frames) /\ Len(t) = Len(s) + 1 /\ t[1] = f
        /\ \A i \in 1 .. Len(s) : t[i + 1] = s[i]
    BY <1>1
  <1>3. \A i \in 1 .. Len(t) : i = 1 \/ (i - 1 \in 1 .. Len(s) /\ t[i] = s[i - 1])
    BY <1>1, <1>2
  <1>4. s # <<>> <=> 1 \in 1 .. Len(s)
    BY <1>1
  <1> HIDE DEF t
  <1>5. \A i \in 1 .. Len(t) : GoodFrame(t[i], d, m, b)
    BY <1>2, <1>3 DEF GoodStack
  <1>6. ASSUME NEW i \in 2 .. Len(t) PROVE t[i].at # "run" /\ ~t[i].own
    <2>1. i - 1 \in 1 .. Len(s) /\ t[i] = s[i - 1]
      BY <1>1, <1>2, <1>3
    <2>2. i - 1 = 1 \/ i - 1 \in 2 .. Len(s)
      BY <1>1, <2>1
    <2> QED
      BY <1>4, <2>1, <2>2 DEF GoodStack
  <1>7. ASSUME NEW i \in 1 .. Len(t), NEW j \in 1 .. Len(t), i < j PROVE MayNest(t[j], t[i])
    <2>1. j - 1 \in 1 .. Len(s) /\ t[j] = s[j - 1]
      BY <1>3, <1>7
    <2>2. CASE i = 1
      BY <1>2, <2>1, <2>2
    <2>3. CASE i # 1
      <3>1. i - 1 \in 1 .. Len(s) /\ t[i] = s[i - 1] /\ i - 1 < j - 1
        BY <1>3, <1>7, <2>3
      <3> QED
        BY <2>1, <3>1 DEF GoodStack
    <2> QED
      BY <2>2, <2>3
  <1>8. GoodStack(t, d, m, b)
    BY <1>2, <1>5, <1>6, <1>7 DEF GoodStack
  <1> QED
    BY <1>8 DEF t

\* The frames below the top outlive a step that leaves them what they need.
LEMMA Popped ==
  ASSUME NEW s, NEW d, NEW m, NEW b, GoodStack(s, d, m, b), s # <<>>,
         NEW e \in Nat, d <= e, NEW n, NEW a,
         \A i \in 2 .. Len(s) : s[i].at = "exec" => s[i].who \in n /\ s[i].who \notin a
  PROVE  /\ GoodStack(Tail(s), e, n, a)
         /\ \A i \in 1 .. Len(Tail(s)) :
              i + 1 \in 2 .. Len(s) /\ Tail(s)[i] = s[i + 1] /\ MayNest(Tail(s)[i], s[1])
         /\ \A i \in 1 .. Len(Tail(s)) : Tail(s)[i].at # "run" /\ ~Tail(s)[i].own
  <1> DEFINE t == Tail(s)
  <1>1. s \in Seq(Frames) /\ Len(s) \in Nat /\ Len(s) > 0 /\ d \in Nat
    BY DEF GoodStack
  <1>2. t \in Seq(Frames) /\ Len(t) = Len(s) - 1 /\ \A i \in 1 .. Len(t) : t[i] = s[i + 1]
    BY <1>1
  <1>3. \A i \in 1 .. Len(t) : i + 1 \in 2 .. Len(s) /\ i + 1 \in 1 .. Len(s) /\ 1 < i + 1
    BY <1>1, <1>2
  <1>4. 1 \in 1 .. Len(s)
    BY <1>1
  <1> HIDE DEF t
  <1>5. \A i \in 1 .. Len(t) : MayNest(t[i], s[1]) /\ t[i].at # "run" /\ ~t[i].own
    BY <1>2, <1>3, <1>4 DEF GoodStack
  <1>6. ASSUME NEW i \in 1 .. Len(t) PROVE GoodFrame(t[i], e, n, a)
    <2>1. GoodFrame(t[i], d, m, b) /\ t[i] \in Frames
      BY <1>2, <1>3 DEF GoodStack
    <2>2. t[i].before \in Nat /\ t[i].before <= e
      BY <1>1, <2>1 DEF GoodFrame, Frames
    <2>3. t[i].at = "exec" => t[i].who \in n /\ t[i].who \notin a
      BY <1>2, <1>3
    <2> QED
      BY <1>5, <2>1, <2>2, <2>3 DEF GoodFrame
  <1>7. ASSUME NEW i \in 1 .. Len(t), NEW j \in 1 .. Len(t), i < j PROVE MayNest(t[j], t[i])
    <2>1. i + 1 < j + 1
      BY <1>7
    <2> QED
      BY <1>2, <1>3, <2>1 DEF GoodStack
  <1>8. \A i \in 2 .. Len(t) : i \in 1 .. Len(t)
    BY <1>1, <1>2
  <1>9. GoodStack(t, e, n, a)
    BY <1>2, <1>5, <1>6, <1>7, <1>8 DEF GoodStack
  <1> QED
    BY <1>2, <1>3, <1>5, <1>9 DEF t

LEMMA TopFacts ==
  ASSUME StackInv, ~Idle
  PROVE  /\ stack # <<>> /\ Top = stack[1] /\ Top \in Frames /\ Top.who \in Clients
         /\ GoodFrame(Top, dirty, multi, BlockedClients) /\ dirty \in Nat
         /\ Callers \in Seq(Frames)
  <1>1. stack # <<>> /\ stack \in Seq(Frames) /\ dirty \in Nat
    BY DEF Idle, StackInv, GoodStack
  <1>2. Top = stack[1] /\ 1 \in 1 .. Len(stack)
    BY <1>1 DEF Top
  <1>3. Top \in Frames
    BY <1>1, <1>2
  <1>4. Callers \in Seq(Frames)
    BY <1>1 DEF Callers
  <1> QED
    BY <1>1, <1>2, <1>3, <1>4 DEF StackInv, GoodStack, Frames

\* What keeps a frame in the middle of EXEC as it has to be.
Outlived == \A i \in 2 .. Len(stack) :
  stack[i].at = "exec" => stack[i].who \in multi' /\ blockingkeys'[stack[i].who] = <<>>

\* The step of a command: its frame goes on, and may call for a client that
\* was blocked.
LEMMA StackGoesOn ==
  ASSUME StackInv, ~Idle, Outlived, multi' \subseteq Clients,
         dirty' \in {dirty, dirty + 1},
         NEW at \in {"exec", "done"}, NEW own \in BOOLEAN, NEW calls, GoTo(at, own, calls),
         Top.at \in {"run", "exec"},
         own => at = "done" /\ dirty' = dirty + 1,
         at = "exec" => Top.cmd.op = "exec" /\ Top.who \in multi' /\ blockingkeys'[Top.who] = <<>>,
         \/ calls = <<>>
         \/ ~own /\ at = "done" /\ \E r \in Clients :
              calls = <<Frame(r, NoCmd, "input")>> /\ Blocked(r) /\ ~Blocked(r)'
  PROVE  StackInv'
  <1> DEFINE g == [Top EXCEPT !.at = at, !.own = own]
             b == BlockedClients'
             t == Callers
  <1>1. /\ stack # <<>> /\ Top = stack[1] /\ Top \in Frames /\ Top.who \in Clients
        /\ GoodFrame(Top, dirty, multi, BlockedClients) /\ dirty \in Nat
        /\ t \in Seq(Frames)
    BY TopFacts
  <1>2. dirty' \in Nat /\ dirty <= dirty'
    BY <1>1
  <1>3. \A i \in 2 .. Len(stack) :
          stack[i].at = "exec" => stack[i].who \in multi' /\ stack[i].who \notin b
    BY DEF Outlived, BlockedClients, Blocked
  <1>4. /\ GoodStack(t, dirty', multi', b)
        /\ \A i \in 1 .. Len(t) : t[i] = stack[i + 1] /\ MayNest(t[i], stack[1])
                                  /\ i + 1 \in 2 .. Len(stack)
        /\ \A i \in 1 .. Len(t) : t[i].at # "run" /\ ~t[i].own
    <2>1. GoodStack(stack, dirty, multi, BlockedClients)
      BY DEF StackInv
    <2> HIDE DEF b
    <2> QED
      BY <1>1, <1>2, <1>3, <2>1, Popped DEF Callers
  <1>5. /\ g \in Frames /\ g.at = at /\ g.own = own /\ g.who = Top.who /\ g.cmd = Top.cmd
        /\ g.before = Top.before
    BY <1>1 DEF Frames
  <1>6. GoodFrame(g, dirty', multi', b)
    <2>1. g.before <= dirty' /\ (own => g.before # dirty')
      BY <1>1, <1>2, <1>5 DEF GoodFrame, Frames
    <2>2. at = "exec" => g.who \notin b
      BY <1>5 DEF BlockedClients, Blocked
    <2> QED
      BY <1>5, <2>1, <2>2 DEF GoodFrame
  <1>7. \A i \in 1 .. Len(t) : MayNest(t[i], g)
    <2>1. \A i \in 1 .. Len(t) : MayNest(t[i], Top)
      BY <1>1, <1>4
    <2> QED
      BY <1>5, <2>1 DEF MayNest, Queued
  <1>8. 1 \in 1 .. Len(t) \/ t = <<>>
    BY <1>1
  <1> HIDE DEF g, b
  <1>9. GoodStack(<<g>> \o t, dirty', multi', b)
    BY <1>4, <1>5, <1>6, <1>7, <1>8, Pushed
  <1>10. CASE calls = <<>>
    <2>1. stack' = <<g>> \o t
      BY <1>1, <1>5, <1>10 DEF GoTo, g
    <2> QED
      BY <1>9, <2>1 DEF StackInv, b
  <1>11. ASSUME ~own, at = "done", NEW r \in Clients, calls = <<Frame(r, NoCmd, "input")>>,
                Blocked(r), ~Blocked(r)'
         PROVE  StackInv'
    <2> DEFINE f == Frame(r, NoCmd, "input")
               s == <<g>> \o t
    <2>1. NoCmd \in Words
      <3>1. <<>> \in Seq(Keys)
        OBVIOUS
      <3> QED
        BY <3>1 DEF NoCmd, Words
    <2>2. f \in Frames /\ f.who = r /\ f.at = "input" /\ ~f.own /\ f.before = dirty
      BY <1>1, <2>1 DEF Frame, Frames
    <2>3. GoodFrame(f, dirty', multi', b)
      BY <1>2, <2>2 DEF GoodFrame
    <2>4. /\ s \in Seq(Frames) /\ Len(s) = Len(t) + 1 /\ s[1] = g /\ Len(t) \in Nat
          /\ \A i \in 1 .. Len(t) : s[i + 1] = t[i]
      BY <1>1, <1>5
    <2>5. s # <<>> /\ s[1].at # "run" /\ ~s[1].own
      BY <1>5, <1>11, <2>4
    <2>6. ASSUME NEW i \in 1 .. Len(s) PROVE MayNest(s[i], f)
      <3>1. CASE i = 1
        BY <1>5, <1>11, <2>4, <3>1 DEF MayNest
      <3>2. CASE i # 1
        <4>1. i - 1 \in 1 .. Len(t) /\ s[i] = t[i - 1] /\ (i - 1) + 1 = i
          BY <2>4, <3>2
        <4>2. s[i] = stack[i] /\ i \in 2 .. Len(stack)
          BY <1>4, <4>1
        <4>3. s[i].at = "exec" => ~ Blocked(s[i].who)
          <5>1. GoodFrame(stack[i], dirty, multi, BlockedClients) /\ stack[i] \in Frames
            <6>1. i \in 1 .. Len(stack) /\ stack \in Seq(Frames)
              BY <4>2 DEF StackInv, GoodStack
            <6> QED
              BY <6>1 DEF StackInv, GoodStack
          <5> QED
            BY <4>2, <5>1 DEF GoodFrame, BlockedClients, Frames
        <4> QED
          BY <1>11, <2>2, <4>3 DEF MayNest
      <3> QED
        BY <3>1, <3>2
    <2>7. stack' = <<f>> \o s
      <3>1. stack' = (<<f>> \o <<g>>) \o t
        BY <1>11 DEF GoTo, g
      <3>2. <<f>> \in Seq(Frames) /\ <<g>> \in Seq(Frames)
        BY <1>5, <2>2
      <3> HIDE DEF f
      <3> QED
        BY <1>1, <3>1, <3>2, ConcatAssociative
    <2> HIDE DEF f, s
    <2>8. GoodStack(<<f>> \o s, dirty', multi', b)
      BY <1>9, <2>2, <2>3, <2>5, <2>6, Pushed DEF s
    <2> QED
      BY <2>7, <2>8 DEF StackInv, b
  <1> QED
    BY <1>10, <1>11

-----------------------------------------------------------------------------
(* Every step keeps the invariant.                                         *)

LEMMA CommandFacts ==
  ASSUME NEW cmd \in Commands
  PROVE  /\ cmd.op \in Ops
         /\ cmd.op = "push" => cmd.keys[1] \in Keys /\ cmd.ele \in Elements
         /\ cmd.op = "pop" => cmd.keys \in PopKeys /\ cmd.keys \in Seq(Keys) /\ cmd.keys # <<>>
         /\ cmd.op \in {"rename", "rpoplpush"} => cmd.keys[1] \in Keys /\ cmd.keys[2] \in Keys
  <1>1. cmd.keys \in Seq(Keys) /\ cmd.op \in Ops
    BY DEF Commands, Words
  <1>2. cmd.op = "push" => cmd.keys[1] \in Keys /\ cmd.ele \in Elements
    BY <1>1 DEF Commands
  <1>3. cmd.op = "pop" => cmd.keys \in PopKeys /\ cmd.keys # <<>>
    BY PopKeysTyped DEF Commands
  <1>4. cmd.op \in {"rename", "rpoplpush"} => Len(cmd.keys) = 2
    BY DEF Commands
  <1>5. cmd.op \in {"rename", "rpoplpush"} => cmd.keys[1] \in Keys /\ cmd.keys[2] \in Keys
    BY <1>1, <1>4
  <1> QED
    BY <1>1, <1>2, <1>3, <1>5

LEMMA ReceiverWaits ==
  ASSUME QueueInv, NEW k \in Keys, waiting[k] # <<>>
  PROVE  Receiver(k) \in Clients /\ Blocked(Receiver(k)) /\ k \in ToSet(blockingkeys[Receiver(k)])
  <1>1. waiting[k] \in Seq(Clients)
    BY DEF QueueInv
  <1>2. Receiver(k) \in Clients /\ Receiver(k) \in ToSet(waiting[k])
    BY <1>1 DEF Receiver, ToSet
  <1>3. k \in ToSet(blockingkeys[Receiver(k)])
    BY <1>2 DEF QueueInv
  <1> QED
    BY <1>2, <1>3 DEF Blocked, ToSet

LEMMA LowerExecs ==
  ASSUME StackInv, ~Idle
  PROVE  \A i \in 2 .. Len(stack) : stack[i].at = "exec" =>
           /\ stack[i].who \in Clients /\ stack[i].who \in multi
           /\ blockingkeys[stack[i].who] = <<>>
           /\ stack[i].who = Top.who => Top.at \in {"run", "done"} /\ Top.cmd.op \in Queued
  <1> SUFFICES ASSUME NEW i \in 2 .. Len(stack), stack[i].at = "exec"
               PROVE  /\ stack[i].who \in Clients /\ stack[i].who \in multi
                      /\ blockingkeys[stack[i].who] = <<>>
                      /\ stack[i].who = Top.who =>
                           Top.at \in {"run", "done"} /\ Top.cmd.op \in Queued
    OBVIOUS
  <1>1. stack \in Seq(Frames) /\ 1 \in 1 .. Len(stack) /\ i \in 1 .. Len(stack) /\ 1 < i
        /\ Top = stack[1]
    BY TopFacts DEF StackInv, GoodStack
  <1>2. MayNest(stack[i], Top)
    BY <1>1 DEF StackInv, GoodStack
  <1>3. GoodFrame(stack[i], dirty, multi, BlockedClients) /\ stack[i] \in Frames
    BY <1>1 DEF StackInv, GoodStack
  <1> QED
    BY <1>2, <1>3 DEF MayNest, GoodFrame, BlockedClients, Blocked, Frames

\* A frame at "run": its command has arguments and its client does not wait.
LEMMA RunFacts ==
  ASSUME BlockInv, ~Idle, Top.at = "run"
  PROVE  /\ Top.who \in Clients /\ Top.cmd \in Commands /\ blockingkeys[Top.who] = <<>>
         /\ ~Top.own /\ Top.before = dirty /\ dirty \in Nat
  <1>1. Top.who \in Clients /\ GoodFrame(Top, dirty, multi, BlockedClients) /\ dirty \in Nat
    BY TopFacts DEF BlockInv
  <1> QED
    BY <1>1 DEF GoodFrame, BlockedClients, Blocked

LEMMA ServeKeeps ==
  ASSUME BlockInv, ~Idle, Top.at = "run", NEW k \in Keys, NEW e,
         Serve(k, e, "done", FALSE), UNCHANGED <<querybuf, multi, mstate, sent>>,
         dirty' \in {dirty, dirty + 1}
  PROVE  BlockInv'
  <1> DEFINE r == Receiver(k)
  <1>1. /\ UnblockClientWaitingData(r) /\ waiting[k] # <<>>
        /\ GoTo("done", FALSE, ProcessesInput(r))
    BY DEF Serve
  <1>2. r \in Clients /\ Blocked(r)
    BY <1>1, ReceiverWaits DEF BlockInv
  <1> HIDE DEF r
  <1>3. /\ QueueInv' /\ blockingkeys'[r] = <<>>
        /\ \A d \in Clients \ {r} : blockingkeys'[d] = blockingkeys[d]
    BY <1>1, <1>2, QueueUnblocks DEF BlockInv
  <1>4. Outlived
    <2>1. \A i \in 2 .. Len(stack) : stack[i].at = "exec" =>
            /\ stack[i].who \in Clients /\ stack[i].who \in multi
            /\ blockingkeys[stack[i].who] = <<>>
      BY LowerExecs DEF BlockInv
    <2> QED
      BY <1>3, <2>1 DEF Outlived
  <1>5. ProcessesInput(r) = <<>> \/ ProcessesInput(r) = <<Frame(r, NoCmd, "input")>>
    BY DEF ProcessesInput
  <1>6. StackInv'
    <2>1. \/ ProcessesInput(r) = <<>>
          \/ \E c \in Clients : ProcessesInput(r) = <<Frame(c, NoCmd, "input")>>
                                /\ Blocked(c) /\ blockingkeys'[c] = <<>>
      BY <1>2, <1>3, <1>5
    <2> DEFINE calls == ProcessesInput(r)
    <2>2. /\ StackInv /\ multi' \subseteq Clients /\ GoTo("done", FALSE, calls)
          /\ \/ calls = <<>>
             \/ \E c \in Clients : calls = <<Frame(c, NoCmd, "input")>>
                                   /\ Blocked(c) /\ ~Blocked(c)'
      BY <1>1, <2>1 DEF BlockInv, StackInv, Blocked
    <2> HIDE DEF calls
    <2> QED
      BY <1>4, <2>2, StackGoesOn
  <1>7. CommandsInv'
    BY DEF BlockInv, CommandsInv
  <1> QED
    BY <1>3, <1>6, <1>7 DEF BlockInv

\* A command that wakes nobody and leaves the transactions alone.
LEMMA QuietKeeps ==
  ASSUME BlockInv, ~Idle, Top.at = "run", NEW own \in BOOLEAN, GoTo("done", own, <<>>),
         UNCHANGED <<waiting, blockingkeys, blockingto, arrival, querybuf, multi, mstate, sent>>,
         dirty' = IF own THEN dirty + 1 ELSE dirty
  PROVE  BlockInv'
  <1>1. QueueInv'
    BY QueueStays DEF BlockInv
  <1>2. Outlived
    BY LowerExecs DEF BlockInv, Outlived
  <1>3. StackInv'
    <2> DEFINE calls == <<>>
    <2>1. /\ StackInv /\ multi' \subseteq Clients /\ GoTo("done", own, calls) /\ calls = <<>>
          /\ dirty' \in {dirty, dirty + 1} /\ (own => dirty' = dirty + 1)
      BY DEF BlockInv, StackInv
    <2> HIDE DEF calls
    <2> QED
      BY <1>2, <2>1, StackGoesOn
  <1>4. CommandsInv'
    BY DEF BlockInv, CommandsInv
  <1> QED
    BY <1>1, <1>3, <1>4 DEF BlockInv

LEMMA PopKeeps ==
  ASSUME BlockInv, ~Idle, Top.at = "run", Top.cmd.op = "pop", NEW timed,
         BlockingPopGenericCommand(Top.who, Top.cmd.keys, timed),
         UNCHANGED <<querybuf, multi, mstate, sent>>
  PROVE  BlockInv'
  <1> DEFINE c == Top.who
             keys == Top.cmd.keys
  <1>1. CASE Full(keys) # {}
    <2>1. /\ GoTo("done", TRUE, <<>>) /\ dirty' = dirty + 1
          /\ UNCHANGED <<waiting, blockingkeys, blockingto, arrival>>
      BY <1>1 DEF BlockingPopGenericCommand
    <2> QED
      BY <2>1, QuietKeeps
  <1>2. CASE Full(keys) = {} /\ c \in multi
    <2>1. /\ GoTo("done", FALSE, <<>>) /\ dirty' = dirty
          /\ UNCHANGED <<waiting, blockingkeys, blockingto, arrival>>
      BY <1>2 DEF BlockingPopGenericCommand
    <2> QED
      BY <2>1, QuietKeeps
  <1>3. CASE Full(keys) = {} /\ c \notin multi
    <2>1. /\ BlockForKeys(c, keys, timed) /\ GoTo("done", FALSE, <<>>) /\ dirty' = dirty
      BY <1>3 DEF BlockingPopGenericCommand
    <2>2. c \in Clients /\ ~Blocked(c) /\ keys \in Seq(Keys) /\ keys # <<>>
      <3>1. c \in Clients /\ blockingkeys[c] = <<>> /\ Top.cmd \in Commands
        BY RunFacts
      <3> QED
        BY <3>1, CommandFacts DEF Blocked
    <2> HIDE DEF c, keys
    <2>3. QueueInv' /\ \A d \in Clients \ {c} : blockingkeys'[d] = blockingkeys[d]
      BY <2>1, <2>2, QueueBlocks DEF BlockInv
    <2>4. Outlived
      <3>1. \A i \in 2 .. Len(stack) : stack[i].at = "exec" =>
              /\ stack[i].who \in Clients /\ stack[i].who \in multi
              /\ blockingkeys[stack[i].who] = <<>>
        BY LowerExecs DEF BlockInv
      <3> QED
        BY <1>3, <2>3, <3>1 DEF Outlived
    <2>5. StackInv'
      <3> DEFINE calls == <<>>
      <3>1. /\ StackInv /\ multi' \subseteq Clients /\ GoTo("done", FALSE, calls)
            /\ calls = <<>> /\ dirty' \in {dirty, dirty + 1}
        BY <2>1 DEF BlockInv, StackInv
      <3> HIDE DEF calls
      <3> QED
        BY <2>4, <3>1, StackGoesOn
    <2>6. CommandsInv'
      BY DEF BlockInv, CommandsInv
    <2> QED
      BY <2>3, <2>5, <2>6 DEF BlockInv
  <1> QED
    BY <1>1, <1>2, <1>3

\* MULTI, DISCARD and EXEC.
LEMMA TransactionKeeps ==
  ASSUME BlockInv, ~Idle, Top.at = "run", sent' = sent,
         UNCHANGED <<lists, waiting, blockingkeys, blockingto, querybuf, dirty, arrival, got>>,
         \/ Top.cmd.op = "multi" /\ MultiCommand(Top.who)
         \/ Top.cmd.op = "discard" /\ DiscardCommand(Top.who)
         \/ Top.cmd.op = "exec" /\ ExecCommand(Top.who)
  PROVE  BlockInv'
  <1> DEFINE c == Top.who
             calls == <<>>
  <1>1. c \in Clients /\ blockingkeys[c] = <<>> /\ StackInv /\ calls = <<>>
        /\ multi \subseteq Clients /\ dirty' \in {dirty, dirty + 1}
    BY RunFacts DEF BlockInv, StackInv
  <1>2. QueueInv'
    BY QueueStays DEF BlockInv
  <1>3. \A i \in 2 .. Len(stack) : stack[i].at = "exec" =>
          /\ stack[i].who \in multi /\ blockingkeys'[stack[i].who] = <<>>
          /\ stack[i].who = c => Top.cmd.op \in Queued
    BY LowerExecs DEF BlockInv
  <1>4. CASE Top.cmd.op = "multi" /\ MultiCommand(c)
    <2>1. GoTo("done", FALSE, calls) /\ multi' = multi \cup {c} /\ mstate' = mstate
      BY <1>4 DEF MultiCommand
    <2>2. Outlived /\ multi' \subseteq Clients
      BY <1>1, <1>3, <2>1 DEF Outlived
    <2> HIDE DEF calls
    <2>3. StackInv'
      BY <1>1, <2>1, <2>2, StackGoesOn
    <2> QED
      BY <1>2, <2>1, <2>3 DEF BlockInv, CommandsInv
  <1>5. CASE Top.cmd.op = "discard" /\ DiscardCommand(c)
    <2>1. /\ GoTo("done", FALSE, calls) /\ multi' = multi \ {c}
          /\ mstate' = [mstate EXCEPT ![c] = <<>>]
      BY <1>5 DEF DiscardCommand
    <2>2. Outlived /\ multi' \subseteq Clients
      BY <1>1, <1>3, <1>5, <2>1 DEF Outlived, Queued
    <2> HIDE DEF calls
    <2>3. StackInv'
      BY <1>1, <2>1, <2>2, StackGoesOn
    <2>4. <<>> \in Seq({cmd \in Commands : cmd.op \in Queued})
      OBVIOUS
    <2>5. CommandsInv'
      BY <2>1, <2>4 DEF BlockInv, CommandsInv
    <2> QED
      BY <1>2, <2>3, <2>5 DEF BlockInv
  <1>6. CASE Top.cmd.op = "exec" /\ ExecCommand(c)
    <2>1. Outlived /\ multi' \subseteq Clients /\ mstate' = mstate /\ multi' = multi
      BY <1>1, <1>3, <1>6 DEF Outlived, ExecCommand
    <2>2. \/ c \in multi /\ GoTo("exec", FALSE, calls)
          \/ GoTo("done", FALSE, calls)
      BY <1>6 DEF ExecCommand
    <2> HIDE DEF calls
    <2>3. StackInv'
      <3>1. CASE c \in multi /\ GoTo("exec", FALSE, calls)
        BY <1>1, <1>6, <2>1, <3>1, StackGoesOn
      <3>2. CASE GoTo("done", FALSE, calls)
        BY <1>1, <2>1, <3>2, StackGoesOn
      <3> QED
        BY <2>2, <3>1, <3>2
    <2> QED
      BY <1>2, <2>1, <2>3 DEF BlockInv, CommandsInv
  <1> QED
    BY <1>4, <1>5, <1>6

LEMMA RunKeeps ==
  ASSUME BlockInv, Run
  PROVE  BlockInv'
  <1> DEFINE c == Top.who
             cmd == Top.cmd
  <1>1. ~Idle /\ Top.at = "run" /\ sent' = sent /\ cmd \in Commands
    BY RunFacts DEF Run
  <1>2. /\ cmd.op = "push" => cmd.keys[1] \in Keys
        /\ cmd.op \in {"rename", "rpoplpush"} => cmd.keys[1] \in Keys /\ cmd.keys[2] \in Keys
    BY <1>1, CommandFacts
  <1>3. CASE cmd.op \in {"push", "pop", "rename", "rpoplpush"} /\ ListCommand(c, cmd)
    <2>1. UNCHANGED <<multi, mstate, sent>>
      BY <1>1, <1>3 DEF ListCommand
    <2>2. CASE cmd.op = "push"
      <3>1. Push(cmd.keys[1], cmd.ele)
        BY <1>3, <2>2 DEF ListCommand
      <3>2. CASE waiting[cmd.keys[1]] # <<>>
        <4>1. Serve(cmd.keys[1], cmd.ele, "done", FALSE) /\ UNCHANGED <<querybuf, dirty>>
          BY <3>1, <3>2 DEF Push
        <4> QED
          BY <1>1, <1>2, <2>1, <2>2, <4>1, ServeKeeps
      <3>3. CASE waiting[cmd.keys[1]] = <<>>
        <4>1. /\ GoTo("done", TRUE, <<>>) /\ dirty' = dirty + 1
              /\ UNCHANGED <<waiting, blockingkeys, blockingto, querybuf, arrival>>
          BY <3>1, <3>3 DEF Push, Serve
        <4> QED
          BY <1>1, <2>1, <4>1, QuietKeeps
      <3> QED
        BY <3>2, <3>3
    <2>3. CASE cmd.op = "pop"
      <3>1. BlockingPopGenericCommand(c, cmd.keys, cmd.timed) /\ UNCHANGED querybuf
        BY <1>3, <2>3 DEF ListCommand
      <3> QED
        BY <1>1, <2>1, <2>3, <3>1, PopKeeps
    <2>4. CASE cmd.op = "rename"
      <3>1. Rename(cmd.keys[1], cmd.keys[2]) /\ UNCHANGED querybuf
        BY <1>3, <2>4 DEF ListCommand
      <3>2. /\ UNCHANGED <<waiting, blockingkeys, blockingto, arrival>>
            /\ \/ GoTo("done", FALSE, <<>>) /\ dirty' = dirty
               \/ GoTo("done", TRUE, <<>>) /\ dirty' = dirty + 1
        BY <3>1 DEF Rename
      <3>3. CASE GoTo("done", FALSE, <<>>) /\ dirty' = dirty
        BY <1>1, <2>1, <3>1, <3>2, <3>3, QuietKeeps
      <3>4. CASE GoTo("done", TRUE, <<>>) /\ dirty' = dirty + 1
        BY <1>1, <2>1, <3>1, <3>2, <3>4, QuietKeeps
      <3> QED
        BY <3>2, <3>3, <3>4
    <2>5. CASE cmd.op = "rpoplpush"
      <3> DEFINE k == cmd.keys[1]
                 l == cmd.keys[2]
      <3>1. Rpoplpush(k, l) /\ UNCHANGED querybuf
        BY <1>3, <2>5 DEF ListCommand
      <3>2. k \in Keys /\ l \in Keys
        BY <1>2, <2>5
      <3>3. \/ /\ GoTo("done", FALSE, <<>>) /\ dirty' = dirty
               /\ UNCHANGED <<waiting, blockingkeys, blockingto, arrival>>
            \/ Serve(l, Last(lists[k]), "done", FALSE) /\ dirty' = dirty + 1
            \/ /\ GoTo("done", TRUE, <<>>) /\ dirty' = dirty + 1
               /\ UNCHANGED <<waiting, blockingkeys, blockingto, arrival>>
        BY <3>1 DEF Rpoplpush
      <3> HIDE DEF k, l
      <3>4. CASE /\ GoTo("done", FALSE, <<>>) /\ dirty' = dirty
                 /\ UNCHANGED <<waiting, blockingkeys, blockingto, arrival>>
        BY <1>1, <2>1, <3>1, <3>4, QuietKeeps
      <3>5. CASE Serve(l, Last(lists[k]), "done", FALSE) /\ dirty' = dirty + 1
        BY <1>1, <2>1, <3>1, <3>2, <3>5, ServeKeeps
      <3>6. CASE /\ GoTo("done", TRUE, <<>>) /\ dirty' = dirty + 1
                 /\ UNCHANGED <<waiting, blockingkeys, blockingto, arrival>>
        BY <1>1, <2>1, <3>1, <3>6, QuietKeeps
      <3> QED
        BY <3>3, <3>4, <3>5, <3>6
    <2> QED
      BY <1>3, <2>2, <2>3, <2>4, <2>5
  <1>4. CASE /\ \/ cmd.op = "multi" /\ MultiCommand(c)
                \/ cmd.op = "discard" /\ DiscardCommand(c)
                \/ cmd.op = "exec" /\ ExecCommand(c)
             /\ UNCHANGED <<lists, waiting, blockingkeys, blockingto, querybuf, dirty,
                            arrival, got>>
    BY <1>1, <1>4, TransactionKeeps
  <1> QED
    BY <1>3, <1>4 DEF Run

\* A frame is pushed on a stack that stays as it is.
LEMMA CallKeeps ==
  ASSUME StackInv, UNCHANGED <<multi, dirty>>, BlockedClients' \subseteq BlockedClients,
         NEW c \in Clients, NEW cmd \in Words, NEW at \in {"input", "run", "cron"},
         stack' = <<Frame(c, cmd, at)>> \o stack,
         Idle \/ (Top.at # "run" /\ ~Top.own),
         \A i \in 1 .. Len(stack) : MayNest(stack[i], Frame(c, cmd, at)),
         at = "run" => cmd \in Commands /\ cmd.op # "quit" /\ c \notin BlockedClients
  PROVE  StackInv'
  <1> DEFINE f == Frame(c, cmd, at)
             b == BlockedClients'
  <1>1. /\ f.who = c /\ f.cmd = cmd /\ f.at = at /\ ~f.own /\ f.before = dirty
        /\ dirty \in Nat /\ f \in Frames
    <2>1. dirty \in Nat
      BY DEF StackInv, GoodStack
    <2> QED
      BY <2>1 DEF Frame, Frames
  <1>2. GoodFrame(f, dirty, multi, b)
    BY <1>1 DEF GoodFrame
  <1>3. GoodStack(stack, dirty, multi, b)
    BY DEF StackInv, GoodStack, GoodFrame
  <1>4. stack # <<>> => stack[1].at # "run" /\ ~stack[1].own
    BY TopFacts DEF Idle
  <1> HIDE DEF f, b
  <1>5. GoodStack(<<f>> \o stack, dirty, multi, b)
    BY <1>1, <1>2, <1>3, <1>4, Pushed DEF f
  <1> QED
    BY <1>5 DEF StackInv, f, b

\* A call returns.
LEMMA ReturnKeeps ==
  ASSUME StackInv, ~Idle, Return, Outlived, multi' \subseteq Clients, dirty' = dirty
  PROVE  StackInv'
  <1> DEFINE b == BlockedClients'
  <1>1. \A i \in 2 .. Len(stack) :
          stack[i].at = "exec" => stack[i].who \in multi' /\ stack[i].who \notin b
    BY DEF Outlived, BlockedClients, Blocked
  <1>2. stack # <<>> /\ dirty' \in Nat /\ dirty <= dirty'
    BY TopFacts
  <1>3. GoodStack(stack, dirty, multi, BlockedClients)
    BY DEF StackInv
  <1> HIDE DEF b
  <1>4. GoodStack(Tail(stack), dirty', multi', b)
    BY <1>1, <1>2, <1>3, Popped
  <1> QED
    BY <1>4 DEF StackInv, Return, Callers, b

LEMMA ExecNextKeeps ==
  ASSUME BlockInv, ExecNext
  PROVE  BlockInv'
  <1> DEFINE c == Top.who
  <1>1. ~Idle /\ Top.at = "exec"
    BY DEF ExecNext
  <1>2. /\ stack # <<>> /\ Top \in Frames /\ Top = stack[1] /\ c \in Clients /\ ~Top.own
        /\ c \in multi /\ c \notin BlockedClients /\ Top.cmd.op = "exec"
        /\ stack \in Seq(Frames) /\ StackInv
    <2>1. /\ stack # <<>> /\ Top = stack[1] /\ Top \in Frames /\ Top.who \in Clients
          /\ GoodFrame(Top, dirty, multi, BlockedClients)
      BY <1>1, TopFacts DEF BlockInv
    <2> QED
      BY <1>1, <2>1 DEF GoodFrame, BlockInv, StackInv, GoodStack
  <1>3. QueueInv'
    BY QueueStays DEF BlockInv, ExecNext
  <1>4. BlockedClients' = BlockedClients
    BY DEF ExecNext, BlockedClients, Blocked
  <1>5. CASE mstate[c] # <<>>
    <2> DEFINE cmd == Head(mstate[c])
               f == Frame(c, cmd, "run")
    <2>1. /\ GoTo("exec", FALSE, <<f>>) /\ mstate' = [mstate EXCEPT ![c] = Tail(@)]
          /\ UNCHANGED <<multi, dirty, querybuf, sent>>
      BY <1>5 DEF ExecNext
    <2>2. /\ cmd \in {x \in Commands : x.op \in Queued}
          /\ Tail(mstate[c]) \in Seq({x \in Commands : x.op \in Queued})
      <3>1. mstate[c] \in Seq({x \in Commands : x.op \in Queued})
        BY <1>2 DEF BlockInv, CommandsInv
      <3> QED
        BY <1>5, <3>1
    <2>3. cmd \in Commands /\ cmd \in Words /\ cmd.op \in Queued /\ cmd.op # "quit"
      BY <2>2 DEF Commands, Queued
    <2>4. stack' = <<f>> \o stack
      <3>1. [Top EXCEPT !.at = "exec", !.own = FALSE] = Top
        BY <1>1, <1>2 DEF Frames
      <3>2. stack' = <<f>> \o <<Top>> \o Callers
        BY <2>1, <3>1 DEF GoTo
      <3>3. /\ <<f>> \in Seq(Frames) /\ <<Top>> \in Seq(Frames) /\ Callers \in Seq(Frames)
        <4>1. f \in Frames /\ Callers \in Seq(Frames)
          BY <1>1, <1>2, <2>3, TopFacts DEF Frame, Frames
        <4> QED
          BY <1>2, <4>1
      <3>4. <<Top>> \o Callers = stack
        BY <1>2 DEF Callers
      <3> HIDE DEF f
      <3>5. (<<f>> \o <<Top>>) \o Callers = <<f>> \o (<<Top>> \o Callers)
        BY <3>3, ConcatAssociative
      <3> QED
        BY <3>2, <3>4, <3>5
    <2>5. \A i \in 1 .. Len(stack) : MayNest(stack[i], f)
      BY <2>3 DEF MayNest, Frame
    <2>6. StackInv'
      <3> HIDE DEF cmd
      <3> QED
        BY <1>1, <1>2, <1>4, <2>1, <2>3, <2>4, <2>5, CallKeeps
    <2>7. CommandsInv'
      BY <2>1, <2>2 DEF BlockInv, CommandsInv
    <2> QED
      BY <1>3, <2>6, <2>7 DEF BlockInv
  <1>6. CASE mstate[c] = <<>>
    <2> DEFINE calls == <<>>
    <2>1. /\ GoTo("done", TRUE, calls) /\ multi' = multi \ {c} /\ dirty' = dirty + 1
          /\ UNCHANGED <<mstate, querybuf, sent>> /\ calls = <<>>
      BY <1>6 DEF ExecNext
    <2>2. Outlived /\ multi' \subseteq Clients
      <3>1. \A i \in 2 .. Len(stack) : stack[i].at = "exec" =>
              /\ stack[i].who \in multi /\ blockingkeys[stack[i].who] = <<>>
              /\ stack[i].who # c
        BY <1>1, <1>2, LowerExecs
      <3> QED
        BY <2>1, <3>1 DEF Outlived, BlockInv, StackInv, ExecNext
    <2> HIDE DEF calls
    <2>3. StackInv'
      BY <1>1, <1>2, <2>1, <2>2, StackGoesOn
    <2> QED
      BY <1>3, <2>1, <2>3 DEF BlockInv, CommandsInv
  <1> QED
    BY <1>5, <1>6

LEMMA CallReturnsKeeps ==
  ASSUME BlockInv, CallReturns
  PROVE  BlockInv'
  <1>1. /\ ~Idle /\ Return /\ UNCHANGED <<waiting, dirty, sent, arrival, blockingkeys,
                                          blockingto, querybuf, multi, mstate>>
    BY DEF CallReturns, clientState
  <1>2. QueueInv' /\ CommandsInv'
    BY <1>1, QueueStays DEF BlockInv, CommandsInv
  <1>3. Outlived
    BY <1>1, LowerExecs DEF Outlived, BlockInv
  <1>4. StackInv'
    <2>1. StackInv /\ multi' \subseteq Clients /\ dirty' = dirty
      BY <1>1 DEF BlockInv, StackInv
    <2> QED
      BY <1>1, <1>3, <2>1, ReturnKeeps
  <1> QED
    BY <1>2, <1>4 DEF BlockInv

LEMMA ProcessInputKeeps ==
  ASSUME BlockInv, ProcessInputBuffer
  PROVE  BlockInv'
  <1> DEFINE c == Top.who
             cmd == Head(querybuf[c])
  <1>1. ~Idle /\ Top.at = "input" /\ UNCHANGED <<dirty, sent>> /\ StackInv
    BY DEF ProcessInputBuffer, BlockInv
  <1>2. /\ stack # <<>> /\ Top = stack[1] /\ Top \in Frames /\ c \in Clients /\ ~Top.own
    <2>1. /\ stack # <<>> /\ Top = stack[1] /\ Top \in Frames /\ Top.who \in Clients
          /\ GoodFrame(Top, dirty, multi, BlockedClients)
      BY <1>1, TopFacts
    <2> QED
      BY <1>1, <2>1 DEF GoodFrame
  <1>3. \A i \in 2 .. Len(stack) : stack[i].at = "exec" =>
          /\ stack[i].who \in Clients /\ stack[i].who \in multi
          /\ blockingkeys[stack[i].who] = <<>> /\ stack[i].who # c
    BY <1>1, LowerExecs
  <1>4. multi \subseteq Clients
    BY <1>1 DEF StackInv
  <1>5. CASE Blocked(c) \/ querybuf[c] = <<>>
    <2>1. Return /\ UNCHANGED <<waiting, arrival, blockingkeys, blockingto, querybuf, multi, mstate>>
      BY <1>5 DEF ProcessInputBuffer, clientState
    <2>2. QueueInv' /\ CommandsInv'
      BY <1>1, <2>1, QueueStays DEF BlockInv, CommandsInv
    <2>3. Outlived
      BY <1>3, <2>1 DEF Outlived
    <2>4. multi' \subseteq Clients /\ dirty' = dirty
      BY <1>1, <1>4, <2>1
    <2>5. StackInv'
      BY <1>1, <2>1, <2>3, <2>4, ReturnKeeps
    <2> QED
      BY <2>2, <2>5 DEF BlockInv
  <1>6. CASE ~Blocked(c) /\ querybuf[c] # <<>>
    <2>1. /\ cmd \in Commands /\ Tail(querybuf[c]) \in Seq(Commands)
      <3>1. querybuf[c] \in Seq(Commands)
        BY <1>2 DEF BlockInv, CommandsInv
      <3> QED
        BY <1>6, <3>1
    <2>2. CASE cmd.op = "quit"
      <3>1. FreeClient(c) /\ Return
        BY <1>6, <2>2 DEF ProcessInputBuffer
      <3>2. /\ UnblockClientWaitingData(c) /\ querybuf' = [querybuf EXCEPT ![c] = <<>>]
            /\ multi' = multi \ {c} /\ mstate' = [mstate EXCEPT ![c] = <<>>]
        BY <3>1 DEF FreeClient
      <3> HIDE DEF c
      <3>3. QueueInv' /\ \A d \in Clients \ {c} : blockingkeys'[d] = blockingkeys[d]
        BY <1>2, <3>2, QueueUnblocks DEF BlockInv
      <3>4. CommandsInv'
        <4>1. <<>> \in Seq(Commands) /\ <<>> \in Seq({x \in Commands : x.op \in Queued})
          OBVIOUS
        <4> QED
          BY <1>1, <3>2, <4>1 DEF BlockInv, CommandsInv
      <3>5. Outlived
        BY <1>3, <3>2, <3>3 DEF Outlived
      <3>6. multi' \subseteq Clients /\ dirty' = dirty
        BY <1>1, <1>4, <3>2
      <3>7. StackInv'
        BY <1>1, <3>1, <3>5, <3>6, ReturnKeeps
      <3> QED
        BY <3>3, <3>4, <3>7 DEF BlockInv
    <2>3. CASE cmd.op # "quit"
      <3>1. /\ querybuf' = [querybuf EXCEPT ![c] = Tail(@)]
            /\ UNCHANGED <<waiting, blockingkeys, blockingto, multi, arrival>>
        BY <1>6, <2>3 DEF ProcessInputBuffer
      <3>2. QueueInv'
        BY <3>1, QueueStays DEF BlockInv
      <3>3. querybuf' \in [Clients -> Seq(Commands)]
        BY <2>1, <3>1 DEF BlockInv, CommandsInv
      <3>4. CASE c \in multi /\ cmd.op \notin {"exec", "discard"}
        <4>1. mstate' = [mstate EXCEPT ![c] = Append(@, cmd)] /\ UNCHANGED stack
          BY <1>6, <2>3, <3>4 DEF ProcessInputBuffer
        <4>2. cmd.op \in Queued
          BY <2>1, <2>3, <3>4, CommandFacts DEF Ops
        <4>3. Append(mstate[c], cmd) \in Seq({x \in Commands : x.op \in Queued})
          <5>1. mstate[c] \in Seq({x \in Commands : x.op \in Queued})
            BY <1>2 DEF BlockInv, CommandsInv
          <5>2. cmd \in {x \in Commands : x.op \in Queued}
            BY <2>1, <4>2
          <5> QED
            BY <5>1, <5>2
        <4>4. CommandsInv'
          BY <1>1, <3>3, <4>1, <4>3 DEF BlockInv, CommandsInv
        <4>5. StackInv'
          BY <1>1, <3>1, <4>1 DEF StackInv, BlockedClients, Blocked
        <4> QED
          BY <3>2, <4>4, <4>5 DEF BlockInv
      <3>5. CASE ~ (c \in multi /\ cmd.op \notin {"exec", "discard"})
        <4>1. stack' = <<Frame(c, cmd, "run")>> \o stack /\ UNCHANGED mstate
          BY <1>6, <2>3, <3>5 DEF ProcessInputBuffer
        <4>2. CommandsInv'
          BY <1>1, <3>3, <4>1 DEF BlockInv, CommandsInv
        <4>3. \A i \in 1 .. Len(stack) : MayNest(stack[i], Frame(c, cmd, "run"))
          <5>1. stack \in Seq(Frames) /\ Frame(c, cmd, "run").who = c
            BY <1>1 DEF StackInv, GoodStack, Frame
          <5>2. \A i \in 1 .. Len(stack) : i = 1 \/ i \in 2 .. Len(stack)
            BY <5>1
          <5> QED
            BY <1>1, <1>2, <1>3, <5>1, <5>2 DEF MayNest
        <4>4. /\ UNCHANGED <<multi, dirty>> /\ BlockedClients' \subseteq BlockedClients
              /\ cmd \in Words /\ c \notin BlockedClients
          BY <1>1, <1>6, <2>1, <3>1 DEF BlockedClients, Blocked, Commands
        <4>5. StackInv'
          <5> HIDE DEF c, cmd
          <5> QED
            BY <1>1, <1>2, <2>1, <2>3, <4>1, <4>3, <4>4, CallKeeps
        <4> QED
          BY <3>2, <4>2, <4>5 DEF BlockInv
      <3> QED
        BY <3>4, <3>5
    <2> QED
      BY <2>2, <2>3
  <1> QED
    BY <1>5, <1>6

\* A request arrives: its command has the arguments the request has.
LEMMA ReadKeeps ==
  ASSUME BlockInv, NEW c \in Clients, NEW req \in Requests[c], ReadQueryFromClient(c, req)
  PROVE  BlockInv'
  <1> DEFINE ele == IF req.op = "push" THEN sent[req.op] + 1 ELSE 0
             cmd == [op |-> req.op, keys |-> req.keys, timed |-> req.timed, ele |-> ele]
  <1>1. /\ Idle /\ sent[req.op] < Limit[req.op] /\ sent' = [sent EXCEPT ![req.op] = @ + 1]
        /\ querybuf' = [querybuf EXCEPT ![c] = Append(@, cmd)]
        /\ stack' = IF Blocked(c) THEN <<>> ELSE <<Frame(c, NoCmd, "input")>>
        /\ UNCHANGED <<waiting, blockingkeys, blockingto, multi, mstate, dirty, arrival>>
    BY DEF ReadQueryFromClient
  <1>2. QueueInv' /\ BlockedClients' = BlockedClients
    BY <1>1, QueueStays DEF BlockInv, BlockedClients, Blocked
  <1>3. sent \in [DOMAIN Limit -> Nat]
    BY DEF BlockInv, CommandsInv
  <1>4. sent' \in [DOMAIN Limit -> Nat]
    <2>1. req.op \in DOMAIN Limit => sent[req.op] + 1 \in Nat
      BY <1>3
    <2>2. sent' = [sent EXCEPT ![req.op] = sent[req.op] + 1]
      BY <1>1
    <2> HIDE DEF cmd
    <2> QED
      BY <1>3, <2>1, <2>2
  <1>5. cmd \in Commands
    <2>1. WellFormed(req)
      BY RequestsAssumption
    <2>2. req.keys \in Seq(Keys) /\ req.timed \in BOOLEAN /\ req.op \in Ops
      BY <2>1 DEF WellFormed, Ops, Queued
    <2>3. ele \in Nat /\ (req.op = "push" => ele \in Elements)
      <3>1. req.op = "push" => sent["push"] \in Nat /\ sent["push"] < Limit["push"]
        BY <1>1, <1>3, LimitAssumption
      <3> QED
        BY <3>1, LimitAssumption DEF Elements
    <2>4. /\ req.op = "push" => Len(req.keys) = 1
          /\ req.op = "pop" => Len(req.keys) > 0
          /\ req.op \in {"rename", "rpoplpush"} => Len(req.keys) = 2
      BY <2>1 DEF WellFormed
    <2>5. req.op = "pop" => req.keys \in PopKeys
      BY DEF PopKeys
    <2> HIDE DEF ele
    <2>6. cmd \in Words /\ cmd.op # "none"
      BY <2>2, <2>3 DEF Words, Ops, Queued
    <2> QED
      BY <2>3, <2>4, <2>5, <2>6 DEF Commands
  <1>6. querybuf' \in [Clients -> Seq(Commands)]
    <2> HIDE DEF cmd
    <2>1. querybuf[c] \in Seq(Commands)
      BY DEF BlockInv, CommandsInv
    <2>2. Append(querybuf[c], cmd) \in Seq(Commands)
      BY <1>5, <2>1
    <2> QED
      BY <1>1, <2>2 DEF BlockInv, CommandsInv
  <1>7. CommandsInv'
    BY <1>1, <1>4, <1>6 DEF BlockInv, CommandsInv
  <1>8. StackInv'
    <2>1. stack = <<>> /\ StackInv
      BY <1>1 DEF Idle, BlockInv
    <2>2. CASE Blocked(c)
      BY <1>1, <1>2, <2>1, <2>2 DEF StackInv
    <2>3. CASE ~Blocked(c)
      <3>1. NoCmd \in Words
        <4>1. <<>> \in Seq(Keys)
          OBVIOUS
        <4> QED
          BY <4>1 DEF NoCmd, Words
      <3>2. stack' = <<Frame(c, NoCmd, "input")>> \o stack
        BY <1>1, <2>1, <2>3
      <3>3. \A i \in 1 .. Len(stack) : MayNest(stack[i], Frame(c, NoCmd, "input"))
        BY <2>1
      <3> QED
        BY <1>1, <1>2, <2>1, <3>1, <3>2, <3>3, CallKeeps
    <2> QED
      BY <2>2, <2>3
  <1> QED
    BY <1>2, <1>7, <1>8 DEF BlockInv

LEMMA DisconnectKeeps ==
  ASSUME BlockInv, NEW c \in Clients, Disconnect(c)
  PROVE  BlockInv'
  <1>1. /\ Idle /\ UnblockClientWaitingData(c) /\ querybuf' = [querybuf EXCEPT ![c] = <<>>]
        /\ multi' = multi \ {c} /\ mstate' = [mstate EXCEPT ![c] = <<>>]
        /\ UNCHANGED <<stack, dirty, sent>>
    BY DEF Disconnect, FreeClient
  <1>2. QueueInv'
    BY <1>1, QueueUnblocks DEF BlockInv
  <1>3. CommandsInv'
    <2>1. <<>> \in Seq(Commands) /\ <<>> \in Seq({x \in Commands : x.op \in Queued})
      OBVIOUS
    <2> QED
      BY <1>1, <2>1 DEF BlockInv, CommandsInv
  <1>4. StackInv'
    <2>1. stack = <<>> /\ multi' \subseteq Clients /\ dirty \in Nat
      BY <1>1 DEF Idle, BlockInv, StackInv, GoodStack
    <2> QED
      BY <1>1, <2>1 DEF BlockInv, StackInv, GoodStack
  <1> QED
    BY <1>2, <1>3, <1>4 DEF BlockInv

LEMMA CronKeeps ==
  ASSUME BlockInv, NEW over \in SUBSET Clients, ServerCron(over)
  PROVE  BlockInv'
  <1> DEFINE c == CHOOSE d \in over : TRUE
  <1>1. /\ Idle /\ over # {} /\ \A d \in over : blockingto[d] = "running"
        /\ blockingto' = [d \in Clients |-> IF d \in over THEN "over" ELSE blockingto[d]]
        /\ stack' = <<Frame(c, NoCmd, "cron")>>
        /\ UNCHANGED <<waiting, blockingkeys, querybuf, multi, mstate, dirty, sent, arrival>>
    BY DEF ServerCron
  <1>2. QueueInv'
    BY <1>1 DEF BlockInv, QueueInv, Blocked
  <1>3. CommandsInv'
    BY <1>1 DEF BlockInv, CommandsInv
  <1>4. StackInv'
    <2>1. stack = <<>> /\ StackInv /\ c \in Clients
      BY <1>1 DEF Idle, BlockInv
    <2> HIDE DEF c
    <2>2. NoCmd \in Words
      <3>1. <<>> \in Seq(Keys)
        OBVIOUS
      <3> QED
        BY <3>1 DEF NoCmd, Words
    <2>3. stack' = <<Frame(c, NoCmd, "cron")>> \o stack
      BY <1>1, <2>1
    <2>4. \A i \in 1 .. Len(stack) : MayNest(stack[i], Frame(c, NoCmd, "cron"))
      BY <2>1
    <2>5. BlockedClients' \subseteq BlockedClients
      BY <1>1 DEF BlockedClients, Blocked
    <2> QED
      BY <1>1, <2>1, <2>2, <2>3, <2>4, <2>5, CallKeeps
  <1> QED
    BY <1>2, <1>3, <1>4 DEF BlockInv

LEMMA CloseKeeps ==
  ASSUME BlockInv, CloseTimedoutClients
  PROVE  BlockInv'
  <1>1. /\ ~Idle /\ Top.at = "cron" /\ StackInv
        /\ UNCHANGED <<querybuf, multi, mstate, dirty, sent>>
    BY DEF CloseTimedoutClients, BlockInv
  <1>2. CommandsInv'
    BY <1>1 DEF BlockInv, CommandsInv
  <1>3. ~Top.own /\ multi \subseteq Clients
    <2>1. GoodFrame(Top, dirty, multi, BlockedClients) /\ Top \in Frames
      BY <1>1, TopFacts
    <2> QED
      BY <1>1, <2>1 DEF GoodFrame, StackInv
  <1>4. CASE Return /\ UNCHANGED <<waiting, blockingkeys, blockingto, arrival>>
    <2>1. QueueInv'
      BY <1>4, QueueStays DEF BlockInv
    <2>2. Outlived
      BY <1>1, <1>4, LowerExecs DEF Outlived
    <2>3. StackInv'
      BY <1>1, <1>3, <1>4, <2>2, ReturnKeeps
    <2> QED
      BY <1>2, <2>1, <2>3 DEF BlockInv
  <1>5. ASSUME NEW c \in Clients, blockingto[c] = "over", UnblockClientWaitingData(c),
               stack' = ProcessesInput(c) \o stack
        PROVE  BlockInv'
    <2>1. /\ QueueInv' /\ blockingkeys'[c] = <<>>
          /\ \A d \in Clients \ {c} : blockingkeys'[d] = blockingkeys[d]
      BY <1>5, QueueUnblocks DEF BlockInv
    <2>2. Blocked(c)
      BY <1>5 DEF BlockInv, QueueInv
    <2>3. BlockedClients' \subseteq BlockedClients
      BY <2>1 DEF BlockedClients, Blocked
    <2>4. stack \in Seq(Frames) /\ dirty \in Nat
      BY <1>1 DEF StackInv, GoodStack
    <2>5. CASE ProcessesInput(c) = <<>>
      <3>1. stack' = stack
        BY <1>5, <2>4, <2>5
      <3>2. StackInv'
        BY <1>1, <2>3, <3>1 DEF StackInv, GoodStack, GoodFrame
      <3> QED
        BY <1>2, <2>1, <3>2 DEF BlockInv
    <2>6. CASE ProcessesInput(c) = <<Frame(c, NoCmd, "input")>>
      <3>1. NoCmd \in Words
        <4>1. <<>> \in Seq(Keys)
          OBVIOUS
        <4> QED
          BY <4>1 DEF NoCmd, Words
      <3>2. \A i \in 1 .. Len(stack) : MayNest(stack[i], Frame(c, NoCmd, "input"))
        <4>1. ASSUME NEW i \in 1 .. Len(stack), stack[i].at = "exec" PROVE stack[i].who # c
          <5>1. GoodFrame(stack[i], dirty, multi, BlockedClients)
            BY <1>1 DEF StackInv, GoodStack
          <5> QED
            BY <2>2, <4>1, <5>1 DEF GoodFrame, BlockedClients
        <4> QED
          BY <4>1 DEF MayNest, Frame
      <3>3. stack' = <<Frame(c, NoCmd, "input")>> \o stack
        BY <1>5, <2>6
      <3>4. StackInv'
        BY <1>1, <1>3, <2>3, <3>1, <3>2, <3>3, CallKeeps
      <3> QED
        BY <1>2, <2>1, <3>4 DEF BlockInv
    <2> QED
      BY <2>5, <2>6 DEF ProcessesInput
  <1> QED
    BY <1>4, <1>5 DEF CloseTimedoutClients

LEMMA NextKeeps ==
  ASSUME BlockInv, [Next]_vars
  PROVE  BlockInv'
  <1>1. CASE UNCHANGED vars
    BY <1>1 DEF vars, clientState, BlockInv, QueueInv, Blocked, CommandsInv, StackInv,
       BlockedClients
  <1>2. CASE ServerStep
    BY <1>2, RunKeeps, ExecNextKeeps, CallReturnsKeeps, ProcessInputKeeps, CloseKeeps
    DEF ServerStep
  <1> QED
    BY <1>1, <1>2, ReadKeeps, DisconnectKeeps, CronKeeps DEF Next

LEMMA InitBlock == Init => BlockInv
  <1> SUFFICES ASSUME Init PROVE BlockInv
    OBVIOUS
  <1>1. \A S : <<>> \in Seq(S) /\ Len(<<>>) = 0 /\ ToSet(<<>>) = {}
    BY DEF ToSet
  <1>2. QueueInv
    BY <1>1 DEF Init, QueueInv, Distinct, Precedes, Blocked, ToSet
  <1>3. CommandsInv
    BY <1>1 DEF Init, CommandsInv
  <1>4. StackInv
    BY <1>1 DEF Init, StackInv, GoodStack
  <1> QED
    BY <1>2, <1>3, <1>4 DEF BlockInv

-----------------------------------------------------------------------------
(* The fair queue.                                                         *)

QueueOf(a, b) == [i \in DOMAIN a |-> [who |-> a[i], keys |-> b[a[i]]]]

Queue == QueueOf(arrival, blockingkeys)

Waiters == [who : Clients, keys : Seq(Keys)]

LEMMA QueueOfTyped ==
  ASSUME NEW a \in Seq(Clients), NEW b \in [Clients -> Seq(Keys)], NEW q, q = QueueOf(a, b)
  PROVE  /\ q \in Seq(Waiters) /\ Len(q) = Len(a) /\ Len(a) \in Nat
         /\ DOMAIN q = 1 .. Len(a) /\ DOMAIN a = 1 .. Len(a)
         /\ \A i \in 1 .. Len(a) :
              a[i] \in Clients /\ q[i].who = a[i] /\ q[i].keys = b[a[i]] /\ q[i] \in Waiters
  <1>1. Len(a) \in Nat /\ DOMAIN a = 1 .. Len(a)
    OBVIOUS
  <1>2. \A i \in 1 .. Len(a) : a[i] \in Clients
    OBVIOUS
  <1>3. \A i \in 1 .. Len(a) : q[i] = [who |-> a[i], keys |-> b[a[i]]] /\ q[i] \in Waiters
    BY <1>1, <1>2 DEF QueueOf, Waiters
  <1>4. q = [i \in 1 .. Len(a) |-> q[i]]
    BY <1>1 DEF QueueOf
  <1>5. q \in Seq(Waiters) /\ Len(q) = Len(a)
    <2> DEFINE n == Len(a)
    <2>1. q = [i \in 1 .. n |-> q[i]] /\ n \in Nat /\ \A i \in 1 .. n : q[i] \in Waiters
      BY <1>1, <1>3, <1>4
    <2> HIDE DEF n
    <2>2. q \in Seq(Waiters) /\ Len(q) = n
      BY <2>1
    <2> QED
      BY <2>2 DEF n
  <1>6. ASSUME NEW i \in 1 .. Len(a) PROVE q[i].who = a[i] /\ q[i].keys = b[a[i]]
    <2>1. q[i] = [who |-> a[i], keys |-> b[a[i]]]
      BY <1>3
    <2> QED
      BY <2>1
  <1>7. DOMAIN q = 1 .. Len(a)
    BY <1>4
  <1> QED
    BY <1>1, <1>2, <1>3, <1>5, <1>6, <1>7

\* The sequences of those who wait are equal when their entries are.
LEMMA QueueOfIs ==
  ASSUME NEW a \in Seq(Clients), NEW b \in [Clients -> Seq(Keys)],
         NEW t \in Seq(Waiters), Len(t) = Len(a),
         \A i \in 1 .. Len(a) : t[i].who = a[i] /\ t[i].keys = b[a[i]]
  PROVE  QueueOf(a, b) = t
  <1>1. PICK q : q = QueueOf(a, b)
    OBVIOUS
  <1>2. q \in Seq(Waiters) /\ Len(q) = Len(t)
        /\ \A i \in 1 .. Len(t) : q[i].who = t[i].who /\ q[i].keys = t[i].keys
                                  /\ q[i] \in Waiters
    BY <1>1, QueueOfTyped
  <1>3. ASSUME NEW i \in 1 .. Len(t) PROVE q[i] = t[i]
    <2>1. q[i] \in Waiters /\ t[i] \in Waiters /\ q[i].who = t[i].who /\ q[i].keys = t[i].keys
      BY <1>2
    <2>2. \A x \in Waiters : x = [who |-> x.who, keys |-> x.keys]
      BY DEF Waiters
    <2> QED
      BY <2>1, <2>2
  <1>4. q = t
    BY <1>2, <1>3, SeqEqual
  <1> QED
    BY <1>1, <1>4

LEMMA QueueTyped ==
  ASSUME QueueInv
  PROVE  /\ Queue \in Seq(Waiters) /\ Len(Queue) = Len(arrival) /\ Len(arrival) \in Nat
         /\ DOMAIN Queue = 1 .. Len(arrival) /\ DOMAIN arrival = 1 .. Len(arrival)
         /\ \A i \in 1 .. Len(arrival) :
              /\ arrival[i] \in Clients /\ Queue[i].who = arrival[i]
              /\ Queue[i].keys = blockingkeys[arrival[i]] /\ Queue[i] \in Waiters
  <1>1. arrival \in Seq(Clients) /\ blockingkeys \in [Clients -> Seq(Keys)]
    BY DEF QueueInv
  <1> QED
    BY <1>1, QueueOfTyped DEF Queue

LEMMA QueueIs ==
  ASSUME QueueInv', NEW t \in Seq(Waiters), Len(t) = Len(arrival'),
         \A i \in 1 .. Len(arrival') :
           t[i].who = arrival'[i] /\ t[i].keys = blockingkeys'[arrival'[i]]
  PROVE  Queue' = t
  <1>1. arrival' \in Seq(Clients) /\ blockingkeys' \in [Clients -> Seq(Keys)]
    BY DEF QueueInv
  <1> QED
    BY <1>1, QueueOfIs DEF Queue

LEMMA QueueSame ==
  ASSUME UNCHANGED <<arrival, blockingkeys>>
  PROVE  Queue' = Queue
  BY DEF Queue, QueueOf

LEMMA QueueGrows ==
  ASSUME QueueInv, NEW c \in Clients, ~Blocked(c), NEW keys \in Seq(Keys), keys # <<>>,
         NEW timed, BlockForKeys(c, keys, timed)
  PROVE  /\ Queue' = Append(Queue, [who |-> c, keys |-> keys])
         /\ \A i \in DOMAIN Queue : Queue[i].who # c
  <1> DEFINE w == [who |-> c, keys |-> keys]
             t == Append(Queue, w)
  <1>1. /\ Queue \in Seq(Waiters) /\ Len(Queue) = Len(arrival) /\ Len(arrival) \in Nat
        /\ DOMAIN Queue = 1 .. Len(arrival)
        /\ \A i \in 1 .. Len(arrival) :
             /\ arrival[i] \in Clients /\ Queue[i].who = arrival[i]
             /\ Queue[i].keys = blockingkeys[arrival[i]]
    BY QueueTyped
  <1>2. QueueInv' /\ \A d \in Clients \ {c} : blockingkeys'[d] = blockingkeys[d]
    BY QueueBlocks
  <1>3. \A i \in 1 .. Len(arrival) : arrival[i] # c
    <2>1. c \notin ToSet(arrival) /\ DOMAIN arrival = 1 .. Len(arrival)
      BY QueueTyped DEF QueueInv
    <2> QED
      BY <2>1 DEF ToSet
  <1>4. /\ arrival' = Append(arrival, c) /\ blockingkeys'[c] = keys
    BY DEF BlockForKeys, QueueInv
  <1>5. /\ Len(arrival') = Len(arrival) + 1 /\ arrival'[Len(arrival) + 1] = c
        /\ \A i \in 1 .. Len(arrival) : arrival'[i] = arrival[i]
    BY <1>4 DEF QueueInv
  <1>6. w \in Waiters /\ w.who = c /\ w.keys = keys
    BY DEF Waiters
  <1> HIDE DEF w
  <1>7. /\ t \in Seq(Waiters) /\ Len(t) = Len(arrival) + 1 /\ t[Len(arrival) + 1] = w
        /\ \A i \in 1 .. Len(arrival) : t[i] = Queue[i]
    BY <1>1, <1>6, AppendProperties
  <1> HIDE DEF t
  <1>8. ASSUME NEW i \in 1 .. Len(arrival')
        PROVE  t[i].who = arrival'[i] /\ t[i].keys = blockingkeys'[arrival'[i]]
    <2>1. CASE i = Len(arrival) + 1
      BY <1>4, <1>5, <1>6, <1>7, <2>1
    <2>2. CASE i # Len(arrival) + 1
      <3>1. i \in 1 .. Len(arrival)
        BY <1>1, <1>5, <2>2
      <3> QED
        BY <1>1, <1>2, <1>3, <1>5, <1>7, <3>1
    <2> QED
      BY <2>1, <2>2
  <1>9. Queue' = t
    BY <1>2, <1>5, <1>7, <1>8, QueueIs
  <1> QED
    BY <1>1, <1>3, <1>9 DEF t, w

LEMMA QueueShrinks ==
  ASSUME QueueInv, NEW c \in Clients, UnblockClientWaitingData(c)
  PROVE  /\ ~Blocked(c) => Queue' = Queue
         /\ \A p \in 1 .. Len(arrival) : arrival[p] = c => Queue' = RemoveAt(Queue, p)
  <1>1. /\ Queue \in Seq(Waiters) /\ Len(Queue) = Len(arrival) /\ Len(arrival) \in Nat
        /\ DOMAIN Queue = 1 .. Len(arrival)
        /\ \A i \in 1 .. Len(arrival) :
             /\ arrival[i] \in Clients /\ Queue[i].who = arrival[i]
             /\ Queue[i].keys = blockingkeys[arrival[i]]
    BY QueueTyped
  <1>2. QueueInv' /\ \A d \in Clients \ {c} : blockingkeys'[d] = blockingkeys[d]
    BY QueueUnblocks
  <1>3. arrival \in Seq(Clients) /\ Distinct(arrival) /\ DOMAIN arrival = 1 .. Len(arrival)
        /\ arrival' = RemoveFirst(arrival, c)
    BY DEF QueueInv, UnblockClientWaitingData, Without
  <1>4. ASSUME ~Blocked(c) PROVE Queue' = Queue
    <2>1. c \notin ToSet(arrival)
      BY <1>4 DEF QueueInv
    <2>2. arrival' = arrival
      BY <1>3, <2>1, RemoveFirstIs
    <2>3. \A i \in 1 .. Len(arrival) : arrival[i] # c
      BY <1>3, <2>1 DEF ToSet
    <2> DEFINE t == Queue
    <2>4. /\ t \in Seq(Waiters) /\ Len(t) = Len(arrival')
          /\ \A i \in 1 .. Len(arrival') :
               t[i].who = arrival'[i] /\ t[i].keys = blockingkeys'[arrival'[i]]
      BY <1>1, <1>2, <2>2, <2>3
    <2> HIDE DEF t
    <2>5. Queue' = t
      BY <1>2, <2>4, QueueIs
    <2> QED
      BY <2>5 DEF t
  <1>5. ASSUME NEW p \in 1 .. Len(arrival), arrival[p] = c
        PROVE  Queue' = RemoveAt(Queue, p)
    <2> DEFINE t == RemoveAt(Queue, p)
    <2>1. arrival' = RemoveAt(arrival, p)
      BY <1>3, <1>5, RemoveFirstIs
    <2>2. /\ Len(arrival') = Len(arrival) - 1
          /\ \A i \in 1 .. Len(arrival) - 1 :
               arrival'[i] = IF i < p THEN arrival[i] ELSE arrival[i + 1]
      BY <1>3, <2>1, RemoveAtFacts
    <2>3. /\ t \in Seq(Waiters) /\ Len(t) = Len(arrival) - 1
          /\ \A i \in 1 .. Len(arrival) - 1 : t[i] = IF i < p THEN Queue[i] ELSE Queue[i + 1]
      <3> DEFINE q == Queue
      <3>1. q \in Seq(Waiters) /\ p \in 1 .. Len(q) /\ Len(q) = Len(arrival)
        BY <1>1
      <3> HIDE DEF q
      <3>2. /\ RemoveAt(q, p) \in Seq(Waiters) /\ Len(RemoveAt(q, p)) = Len(q) - 1
            /\ \A i \in 1 .. Len(q) - 1 :
                 RemoveAt(q, p)[i] = IF i < p THEN q[i] ELSE q[i + 1]
        BY <3>1, RemoveAtFacts
      <3> QED
        BY <3>1, <3>2 DEF q
    <2> HIDE DEF t
    <2>4. ASSUME NEW i \in 1 .. Len(arrival')
          PROVE  t[i].who = arrival'[i] /\ t[i].keys = blockingkeys'[arrival'[i]]
      <3>1. i \in 1 .. Len(arrival) - 1
        BY <2>2
      <3>2. PICK j \in 1 .. Len(arrival) : j = IF i < p THEN i ELSE i + 1
        BY <1>1, <3>1
      <3>3. t[i] = Queue[j] /\ arrival'[i] = arrival[j] /\ j # p
        <4>1. i \in Nat /\ p \in Nat
          BY <1>1, <3>1
        <4>2. j # p
          BY <3>2, <4>1
        <4>3. arrival'[i] = arrival[j]
          <5>1. arrival'[i] = IF i < p THEN arrival[i] ELSE arrival[i + 1]
            BY <2>2, <3>1
          <5> QED
            BY <3>2, <5>1
        <4>4. t[i] = Queue[j]
          <5>1. t[i] = IF i < p THEN Queue[i] ELSE Queue[i + 1]
            BY <2>3, <3>1
          <5> QED
            BY <3>2, <5>1
        <4> QED
          BY <4>2, <4>3, <4>4
      <3>4. arrival[j] # c /\ arrival[j] \in Clients
        BY <1>1, <1>3, <1>5, <3>3 DEF Distinct
      <3> QED
        BY <1>1, <1>2, <3>3, <3>4
    <2>5. Queue' = t
      BY <1>2, <2>2, <2>3, <2>4, QueueIs
    <2> QED
      BY <2>5 DEF t
  <1> QED
    BY <1>4, <1>5

\* The first of a key's list is the first of the queue that waits for it.
LEMMA FirstIsReceiver ==
  ASSUME QueueInv, NEW k \in Keys
  PROVE  /\ waiting[k] = <<>> => Abstract!Waits(k) = {}
         /\ waiting[k] # <<>> =>
              /\ Abstract!Waits(k) # {} /\ Abstract!First(k) \in 1 .. Len(arrival)
              /\ arrival[Abstract!First(k)] = Receiver(k)
  <1> DEFINE w == waiting[k]
             W == {i \in DOMAIN Queue : k \in ToSet(Queue[i].keys)}
  <1>1. Abstract!Waits(k) = W
    BY DEF Abstract!Waits, Abstract!ToSet, ToSet, Queue, QueueOf
  <1>2. /\ DOMAIN Queue = 1 .. Len(arrival) /\ Len(arrival) \in Nat
        /\ DOMAIN arrival = 1 .. Len(arrival)
        /\ \A i \in 1 .. Len(arrival) :
             arrival[i] \in Clients /\ Queue[i].keys = blockingkeys[arrival[i]]
    BY QueueTyped DEF QueueInv
  <1>3. \A i : i \in W <=> i \in 1 .. Len(arrival) /\ arrival[i] \in ToSet(w)
    BY <1>2 DEF QueueInv
  <1>4. w \in Seq(Clients) /\ DOMAIN w = 1 .. Len(w) /\ Len(w) \in Nat
    BY DEF QueueInv
  <1> HIDE DEF w, W
  <1>5. ASSUME w = <<>> PROVE W = {}
    <2>1. ToSet(w) = {}
      BY <1>5 DEF ToSet
    <2> QED
      BY <1>3, <2>1
  <1>6. ASSUME w # <<>>
        PROVE  /\ W # {} /\ Abstract!First(k) \in 1 .. Len(arrival)
               /\ arrival[Abstract!First(k)] = Head(w)
    <2>1. 1 \in 1 .. Len(w) /\ Head(w) = w[1] /\ w[1] \in ToSet(w) /\ w[1] \in Clients
      BY <1>4, <1>6 DEF ToSet
    <2>2. w[1] \in ToSet(arrival)
      <3>1. k \in ToSet(blockingkeys[w[1]])
        BY <2>1 DEF QueueInv, w
      <3> QED
        BY <2>1, <3>1 DEF QueueInv, Blocked, ToSet
    <2>3. PICK p \in 1 .. Len(arrival) : arrival[p] = w[1]
      BY <1>2, <2>2 DEF ToSet
    <2>4. p \in W
      BY <1>3, <2>1, <2>3
    <2>5. ASSUME NEW i \in W PROVE p <= i
      <3>1. i \in 1 .. Len(arrival) /\ arrival[i] \in ToSet(w)
        BY <1>3
      <3>2. PICK m \in 1 .. Len(w) : w[m] = arrival[i]
        BY <1>4, <3>1 DEF ToSet
      <3>0. \A x, y \in 1 .. Len(arrival) : arrival[x] = arrival[y] => x = y
        BY <1>2 DEF QueueInv, Distinct
      <3>3. CASE m = 1
        <4>1. p = i
          BY <2>3, <3>0, <3>1, <3>2, <3>3
        <4> QED
          BY <1>2, <4>1
      <3>4. CASE m # 1
        <4>1. 1 < m
          BY <1>4, <3>4
        <4>2. Precedes(arrival, w[1], w[m])
          BY <1>4, <2>1, <4>1 DEF QueueInv, w
        <4>3. PICK a, b \in 1 .. Len(arrival) : a < b /\ arrival[a] = w[1] /\ arrival[b] = w[m]
          BY <1>2, <4>2 DEF Precedes
        <4>4. a = p /\ b = i
          BY <2>3, <3>0, <3>1, <3>2, <4>3
        <4> QED
          BY <1>2, <4>3, <4>4
      <3> QED
        BY <3>3, <3>4
    <2>6. \A i \in W : i \in Nat
      BY <1>2, <1>3
    <2>7. Abstract!First(k) = CHOOSE i \in W : \A j \in W : i <= j
      BY <1>1 DEF Abstract!First
    <2>8. Abstract!First(k) = p
      <3>1. ASSUME NEW i \in W, \A j \in W : i <= j PROVE i = p
        <4>1. i <= p /\ p <= i /\ i \in Nat /\ p \in Nat
          BY <2>4, <2>5, <2>6, <3>1
        <4> QED
          BY <4>1
      <3> QED
        BY <2>4, <2>5, <2>7, <3>1
    <2> QED
      BY <2>1, <2>3, <2>4, <2>8
  <1> QED
    BY <1>1, <1>5, <1>6 DEF w, Receiver

LEMMA ServeMaps ==
  ASSUME QueueInv, NEW k \in Keys, NEW e, NEW at, NEW own, Serve(k, e, at, own)
  PROVE  /\ Abstract!Waits(k) # {}
         /\ Abstract!Gives(Queue[Abstract!First(k)].who, e)
         /\ Queue' = RemoveAt(Queue, Abstract!First(k))
  <1> DEFINE r == Receiver(k)
             p == Abstract!First(k)
  <1>1. waiting[k] # <<>> /\ Gives(r, e) /\ UnblockClientWaitingData(r)
    BY DEF Serve
  <1>2. Abstract!Waits(k) # {} /\ p \in 1 .. Len(arrival) /\ arrival[p] = r /\ r \in Clients
    BY <1>1, FirstIsReceiver, ReceiverWaits
  <1> HIDE DEF r, p
  <1>3. Queue[p].who = r
    BY <1>2, QueueTyped
  <1>4. Queue' = RemoveAt(Queue, p)
    BY <1>1, <1>2, QueueShrinks
  <1>5. Abstract!Gives(Queue[p].who, e)
    BY <1>1, <1>3 DEF Gives, Abstract!Gives
  <1> QED
    BY <1>2, <1>4, <1>5 DEF p

LEMMA LeaveMaps ==
  ASSUME QueueInv, NEW c \in Clients, UnblockClientWaitingData(c), UNCHANGED <<lists, got>>
  PROVE  Abstract!Leave \/ UNCHANGED <<lists, Queue, got>>
  <1>1. CASE ~Blocked(c)
    BY <1>1, QueueShrinks
  <1>2. CASE Blocked(c)
    <2>1. PICK p \in 1 .. Len(arrival) : arrival[p] = c
      <3>1. c \in ToSet(arrival) /\ DOMAIN arrival = 1 .. Len(arrival)
        BY <1>2, QueueTyped DEF QueueInv
      <3> QED
        BY <3>1 DEF ToSet
    <2>2. Queue' = RemoveAt(Queue, p) /\ p \in DOMAIN Queue
      BY <2>1, QueueShrinks, QueueTyped
    <2>3. Abstract!Leave
      BY <2>2 DEF Abstract!Leave, Abstract!RemoveAt, RemoveAt, Queue, QueueOf
    <2> QED
      BY <2>3
  <1> QED
    BY <1>1, <1>2

LEMMA PushMaps ==
  ASSUME QueueInv, NEW k \in Keys, NEW e \in Elements, Push(k, e)
  PROVE  Abstract!Push(k, e)
  <1>1. CASE Serve(k, e, "done", FALSE) /\ UNCHANGED lists
    <2>1. /\ Abstract!Waits(k) # {} /\ Abstract!Gives(Queue[Abstract!First(k)].who, e)
          /\ Queue' = RemoveAt(Queue, Abstract!First(k))
      BY <1>1, ServeMaps
    <2> QED
      BY <1>1, <2>1 DEF Abstract!Push, Abstract!RemoveAt, RemoveAt, Queue, QueueOf
  <1>2. CASE /\ waiting[k] = <<>> /\ lists' = [lists EXCEPT ![k] = Append(@, e)]
             /\ UNCHANGED <<arrival, blockingkeys, got>>
    <2>1. Abstract!Waits(k) = {} /\ Queue' = Queue
      BY <1>2, FirstIsReceiver, QueueSame
    <2> QED
      BY <1>2, <2>1 DEF Abstract!Push, Queue, QueueOf
  <1> QED
    BY <1>1, <1>2 DEF Push

LEMMA PopMaps ==
  ASSUME QueueInv, NEW c \in Clients, ~Blocked(c), NEW keys \in PopKeys, NEW timed,
         BlockingPopGenericCommand(c, keys, timed)
  PROVE  Abstract!Next \/ UNCHANGED <<lists, Queue, got>>
  <1>1. keys \in Seq(Keys) /\ keys # <<>>
    BY PopKeysTyped
  <1>2. CASE Full(keys) # {}
    <2> DEFINE n == CHOOSE i \in Full(keys) : \A j \in Full(keys) : i <= j
               k == keys[n]
    <2>1. /\ Gives(c, Head(lists[k])) /\ lists' = [lists EXCEPT ![k] = Tail(@)]
          /\ UNCHANGED <<waiting, blockingkeys, blockingto, arrival>>
      BY <1>2 DEF BlockingPopGenericCommand
    <2>2. n \in Full(keys)
      <3>1. Full(keys) \subseteq Nat
        BY <1>1 DEF Full
      <3>2. \E i \in Full(keys) : \A j \in Full(keys) : i <= j
        BY <1>2, <3>1, LeastElement
      <3> QED
        BY <3>2
    <2> HIDE DEF n
    <2>3. k \in Keys /\ lists[k] # <<>>
      BY <1>1, <2>2 DEF Full
    <2>4. Queue' = Queue
      BY <2>1, QueueSame
    <2> HIDE DEF k
    <2>5. Abstract!Pop(c)
      BY <2>1, <2>3, <2>4 DEF Abstract!Pop, Abstract!Gives, Gives, Queue, QueueOf
    <2> QED
      BY <2>5 DEF Abstract!Next
  <1>3. CASE Full(keys) = {} /\ c \in multi
    BY <1>3, QueueSame DEF BlockingPopGenericCommand
  <1>4. CASE Full(keys) = {} /\ c \notin multi
    <2>1. BlockForKeys(c, keys, timed) /\ UNCHANGED <<lists, got>>
      BY <1>4 DEF BlockingPopGenericCommand
    <2>2. /\ Queue' = Append(Queue, [who |-> c, keys |-> keys])
          /\ \A i \in DOMAIN Queue : Queue[i].who # c
      BY <1>1, <2>1, QueueGrows
    <2>3. \A k \in Abstract!ToSet(keys) : lists[k] = <<>>
      BY <1>4 DEF Full, Abstract!ToSet
    <2>4. Abstract!Wait(c, keys)
      BY <2>1, <2>2, <2>3 DEF Abstract!Wait, Queue, QueueOf
    <2> QED
      BY <2>4 DEF Abstract!Next
  <1> QED
    BY <1>2, <1>3, <1>4

LEMMA RpoplpushMaps ==
  ASSUME QueueInv, NEW k \in Keys, NEW l \in Keys, Rpoplpush(k, l)
  PROVE  Abstract!Next \/ UNCHANGED <<lists, Queue, got>>
  <1>1. CASE UNCHANGED <<lists, waiting, blockingkeys, blockingto, arrival, got, dirty>>
    BY <1>1, QueueSame
  <1>2. CASE /\ lists[k] # <<>> /\ Serve(l, Last(lists[k]), "done", FALSE)
             /\ lists' = [lists EXCEPT ![k] = Front(@)]
    <2>1. /\ Abstract!Waits(l) # {}
          /\ Abstract!Gives(Queue[Abstract!First(l)].who, Last(lists[k]))
          /\ Queue' = RemoveAt(Queue, Abstract!First(l))
      BY <1>2, ServeMaps
    <2>2. Abstract!HandOver(k, l)
      BY <1>2, <2>1
      DEF Abstract!HandOver, Abstract!RemoveAt, RemoveAt, Abstract!Last, Last, Abstract!Front,
          Front, Queue, QueueOf
    <2> QED
      BY <2>2 DEF Abstract!Next
  <1>3. CASE /\ lists[k] # <<>> /\ waiting[l] = <<>>
             /\ LET rest == [lists EXCEPT ![k] = Front(@)]
                IN  lists' = [rest EXCEPT ![l] = <<Last(lists[k])>> \o @]
             /\ UNCHANGED <<waiting, blockingkeys, blockingto, arrival, got>>
    <2>1. Abstract!Waits(l) = {} /\ Queue' = Queue
      BY <1>3, FirstIsReceiver, QueueSame
    <2>2. Abstract!Rotate(k, l)
      BY <1>3, <2>1
      DEF Abstract!Rotate, Abstract!Last, Last, Abstract!Front, Front, Queue, QueueOf
    <2> QED
      BY <2>2 DEF Abstract!Next
  <1> QED
    BY <1>1, <1>2, <1>3 DEF Rpoplpush

\* Every step is a step of the fair queue, or invisible there.
LEMMA NextMaps ==
  ASSUME BlockInv, Next
  PROVE  Abstract!Next \/ UNCHANGED <<lists, Queue, got>>
  <1> USE DEF BlockInv
  <1>1. CASE Run
    <2> DEFINE c == Top.who
               cmd == Top.cmd
    <2>1. ~Idle /\ Top.at = "run"
      BY <1>1 DEF Run
    <2>2. c \in Clients /\ cmd \in Commands /\ ~Blocked(c)
      BY <2>1, RunFacts DEF Blocked
    <2>3. /\ cmd.op = "push" => cmd.keys[1] \in Keys /\ cmd.ele \in Elements
          /\ cmd.op = "pop" => cmd.keys \in PopKeys
          /\ cmd.op \in {"rename", "rpoplpush"} => cmd.keys[1] \in Keys /\ cmd.keys[2] \in Keys
      BY <2>2, CommandFacts
    <2>4. \/ cmd.op \in {"push", "pop", "rename", "rpoplpush"} /\ ListCommand(c, cmd)
          \/ UNCHANGED <<lists, arrival, blockingkeys, got>>
      BY <1>1 DEF Run
    <2>5. CASE cmd.op = "push" /\ ListCommand(c, cmd)
      <3>1. Push(cmd.keys[1], cmd.ele)
        BY <2>5 DEF ListCommand
      <3> QED
        BY <2>3, <2>5, <3>1, PushMaps DEF Abstract!Next
    <2>6. CASE cmd.op = "pop" /\ ListCommand(c, cmd)
      <3>1. BlockingPopGenericCommand(c, cmd.keys, cmd.timed)
        BY <2>6 DEF ListCommand
      <3> QED
        BY <2>2, <2>3, <2>6, <3>1, PopMaps
    <2>7. CASE cmd.op = "rename" /\ ListCommand(c, cmd)
      <3> DEFINE k == cmd.keys[1]
                 l == cmd.keys[2]
      <3>1. Rename(k, l) /\ k \in Keys /\ l \in Keys
        BY <2>3, <2>7 DEF ListCommand
      <3> HIDE DEF k, l
      <3>2. Queue' = Queue /\ got' = got
        BY <3>1, QueueSame DEF Rename
      <3>3. lists' = lists \/ lists' = [lists EXCEPT ![k] = <<>>, ![l] = lists[k]]
        BY <3>1 DEF Rename
      <3>4. CASE lists' = [lists EXCEPT ![k] = <<>>, ![l] = lists[k]]
        <4>1. Abstract!Rename(k, l)
          BY <3>2, <3>4 DEF Abstract!Rename, Queue, QueueOf
        <4> QED
          BY <3>1, <4>1 DEF Abstract!Next
      <3> QED
        BY <3>2, <3>3, <3>4
    <2>8. CASE cmd.op = "rpoplpush" /\ ListCommand(c, cmd)
      <3>1. Rpoplpush(cmd.keys[1], cmd.keys[2])
        BY <2>8 DEF ListCommand
      <3> QED
        BY <2>3, <2>8, <3>1, RpoplpushMaps
    <2>9. CASE UNCHANGED <<lists, arrival, blockingkeys, got>>
      BY <2>9, QueueSame
    <2> QED
      BY <2>4, <2>5, <2>6, <2>7, <2>8, <2>9
  <1>2. CASE ExecNext \/ CallReturns
    BY <1>2, QueueSame DEF ExecNext, CallReturns, clientState
  <1>3. CASE ProcessInputBuffer
    <2>1. UNCHANGED <<lists, got>>
      BY <1>3 DEF ProcessInputBuffer
    <2>2. \/ UNCHANGED <<arrival, blockingkeys>>
          \/ UnblockClientWaitingData(Top.who)
      BY <1>3 DEF ProcessInputBuffer, FreeClient, clientState
    <2>3. Top.who \in Clients
      BY <1>3, TopFacts DEF ProcessInputBuffer
    <2>4. CASE UNCHANGED <<arrival, blockingkeys>>
      BY <2>1, <2>4, QueueSame
    <2>5. CASE UnblockClientWaitingData(Top.who)
      BY <2>1, <2>3, <2>5, LeaveMaps DEF Abstract!Next
    <2> QED
      BY <2>2, <2>4, <2>5
  <1>4. CASE CloseTimedoutClients
    <2>1. UNCHANGED <<lists, got>>
      BY <1>4 DEF CloseTimedoutClients
    <2>2. CASE UNCHANGED <<arrival, blockingkeys>>
      BY <2>1, <2>2, QueueSame
    <2>3. ASSUME NEW c \in Clients, UnblockClientWaitingData(c)
          PROVE  Abstract!Next \/ UNCHANGED <<lists, Queue, got>>
      BY <2>1, <2>3, LeaveMaps DEF Abstract!Next
    <2> QED
      BY <1>4, <2>2, <2>3 DEF CloseTimedoutClients
  <1>5. ASSUME NEW c \in Clients, Disconnect(c)
        PROVE  Abstract!Next \/ UNCHANGED <<lists, Queue, got>>
    <2>1. UnblockClientWaitingData(c) /\ UNCHANGED <<lists, got>>
      BY <1>5 DEF Disconnect, FreeClient
    <2> QED
      BY <2>1, LeaveMaps DEF Abstract!Next
  <1>6. ASSUME NEW c \in Clients, NEW req \in Requests[c], ReadQueryFromClient(c, req)
        PROVE  UNCHANGED <<lists, Queue, got>>
    BY <1>6, QueueSame DEF ReadQueryFromClient
  <1>7. ASSUME NEW over \in SUBSET Clients, ServerCron(over)
        PROVE  UNCHANGED <<lists, Queue, got>>
    BY <1>7, QueueSame DEF ServerCron
  <1> QED
    BY <1>1, <1>2, <1>3, <1>4, <1>5, <1>6, <1>7 DEF Next, ServerStep

\* Clients that wait for lists stand in one fair queue: an element goes to the
\* one that has waited longest for its list, to one place only, and nobody
\* waits for a list that had an element when it came, whatever nests in what.
THEOREM BlockingIsFair == Spec => ImplementsFairQueue
  <1>1. Init => Abstract!Init
    <2>1. Init => arrival = <<>>
      BY DEF Init
    <2>2. arrival = <<>> => Queue = <<>>
      BY DEF Queue, QueueOf
    <2> QED
      BY <2>1, <2>2 DEF Init, Abstract!Init, Queue, QueueOf
  <1>2. BlockInv /\ [Next]_vars => BlockInv'
    BY NextKeeps
  <1>3. BlockInv /\ [Next]_vars => [Abstract!Next]_(Abstract!vars)
    <2>1. ASSUME BlockInv, Next PROVE [Abstract!Next]_(Abstract!vars)
      BY <2>1, NextMaps DEF Abstract!vars, Queue, QueueOf
    <2>2. ASSUME UNCHANGED vars PROVE [Abstract!Next]_(Abstract!vars)
      <3>1. UNCHANGED <<lists, Queue, got>>
        BY <2>2, QueueSame DEF vars, clientState
      <3> QED
        BY <3>1 DEF Abstract!vars, Queue, QueueOf
    <2> QED
      BY <2>1, <2>2
  <1> QED
    BY <1>1, <1>2, <1>3, InitBlock, PTL DEF Spec, ImplementsFairQueue

-----------------------------------------------------------------------------
(* Replaying the log.  A lemma cannot take the operator that FoldLeft       *)
(* folds, so these facts are stated for Applied.                            *)

Replay(s, q) == FoldLeft(Applied, s, q)

\* The table FoldLeft computes, over the sets of positions up to n.
Table(f, s, q, n) ==
  f = [S \in SUBSET (1 .. n) |->
         IF S = {} THEN s ELSE Applied(f[S \ {Max(S)}], q[Max(S)])]

LEMMA TableExists ==
  ASSUME NEW s, NEW q, NEW n \in Nat
  PROVE  \E f : Table(f, s, q, n)
  <1> DEFINE P == {k \in Nat : \E f : Table(f, s, q, k)}
  <1>1. 0 \in P
    <2>1. SUBSET (1 .. 0) = {{}}
      OBVIOUS
    <2>2. Table([S \in SUBSET (1 .. 0) |-> s], s, q, 0)
      BY <2>1 DEF Table
    <2> QED
      BY <2>2
  <1>2. ASSUME NEW k \in Nat, k \in P PROVE k + 1 \in P
    <2>1. PICK f : Table(f, s, q, k)
      BY <1>2
    <2> DEFINE g == [S \in SUBSET (1 .. k + 1) |->
                       IF k + 1 \in S THEN Applied(f[S \ {k + 1}], q[k + 1]) ELSE f[S]]
    <2>2. ASSUME NEW S \in SUBSET (1 .. k + 1), S # {}
          PROVE  Max(S) \in S /\ \A i \in S : Max(S) >= i
      <3>1. S \subseteq 0 .. k + 1 /\ k + 1 \in Nat
        OBVIOUS
      <3> QED
        BY <2>2, <3>1, GreatestElement
    <2>3. ASSUME NEW S \in SUBSET (1 .. k + 1)
          PROVE  g[S] = IF S = {} THEN s ELSE Applied(g[S \ {Max(S)}], q[Max(S)])
      <3>1. CASE k + 1 \in S
        <4>1. Max(S) = k + 1
          <5>1. Max(S) \in 1 .. k + 1 /\ Max(S) >= k + 1
            BY <2>2, <3>1
          <5> QED
            BY <5>1
        <4>2. S \ {k + 1} \in SUBSET (1 .. k + 1) /\ k + 1 \notin S \ {k + 1}
          OBVIOUS
        <4>3. g[S \ {k + 1}] = f[S \ {k + 1}]
          BY <4>2
        <4>4. g[S] = Applied(f[S \ {k + 1}], q[k + 1])
          BY <3>1
        <4> QED
          BY <3>1, <4>1, <4>3, <4>4
      <3>2. CASE k + 1 \notin S
        <4>1. S \in SUBSET (1 .. k)
          BY <3>2
        <4>2. f[S] = IF S = {} THEN s ELSE Applied(f[S \ {Max(S)}], q[Max(S)])
          BY <2>1, <4>1 DEF Table
        <4>3. g[S] = f[S] /\ g[S \ {Max(S)}] = f[S \ {Max(S)}]
          BY <3>2
        <4> QED
          BY <4>2, <4>3
      <3> QED
        BY <3>1, <3>2
    <2>4. DOMAIN g = SUBSET (1 .. k + 1) /\ g = [S \in SUBSET (1 .. k + 1) |-> g[S]]
      OBVIOUS
    <2> HIDE DEF g
    <2>5. Table(g, s, q, k + 1)
      BY <2>3, <2>4 DEF Table
    <2> QED
      BY <2>5
  <1>3. Nat \subseteq P
    <2> HIDE DEF P
    <2> QED
      BY <1>1, <1>2, InductiveSet
  <1> QED
    BY <1>3

\* The datasets that loading a log goes through.
Runs(g, s, q) ==
  /\ g = [m \in 0 .. Len(q) |-> g[m]]
  /\ g[0] = s
  /\ \A m \in 1 .. Len(q) : g[m] = Applied(g[m - 1], q[m])

LEMMA ReplayRuns ==
  ASSUME NEW C, NEW q \in Seq(C), NEW s
  PROVE  \E g : Runs(g, s, q) /\ Replay(s, q) = g[Len(q)]
  <1> DEFINE n == Len(q)
  <1>1. n \in Nat /\ DOMAIN q = 1 .. n
    OBVIOUS
  <1>2. Replay(s, q) = (CHOOSE f : Table(f, s, q, n))[1 .. n]
    BY <1>1 DEF Replay, FoldLeft, MapThenFoldSet, Table
  <1> HIDE DEF n
  <1>3. PICK f : f = (CHOOSE h : Table(h, s, q, n)) /\ Table(f, s, q, n)
    BY <1>1, TableExists
  <1>4. \A S \in SUBSET (1 .. n) :
          f[S] = IF S = {} THEN s ELSE Applied(f[S \ {Max(S)}], q[Max(S)])
    BY <1>3 DEF Table
  <1> DEFINE g == [m \in 0 .. n |-> f[1 .. m]]
  <1>5. g[0] = s
    <2>1. 1 .. 0 = {} /\ {} \in SUBSET (1 .. n) /\ 0 \in 0 .. n
      BY <1>1
    <2> QED
      BY <1>4, <2>1
  <1>6. ASSUME NEW m \in 1 .. n PROVE g[m] = Applied(g[m - 1], q[m])
    <2>1. /\ 1 .. m \in SUBSET (1 .. n) /\ 1 .. m # {} /\ (1 .. m) \ {m} = 1 .. m - 1
          /\ m \in 0 .. n /\ m - 1 \in 0 .. n /\ m \in Nat /\ 1 .. m \subseteq 0 .. m
      <3>1. m \in Nat /\ m >= 1 /\ m <= n /\ m - 1 \in Nat
        BY <1>1
      <3>2. 1 .. m \in SUBSET (1 .. n) /\ m \in 1 .. m /\ 1 .. m \subseteq 0 .. m
        BY <1>1, <3>1
      <3>3. (1 .. m) \ {m} = 1 .. m - 1
        BY <3>1
      <3>4. m \in 0 .. n /\ m - 1 \in 0 .. n
        BY <1>1, <3>1
      <3> QED
        BY <3>1, <3>2, <3>3, <3>4
    <2>2. Max(1 .. m) = m
      <3>1. Max(1 .. m) \in 1 .. m /\ \A i \in 1 .. m : Max(1 .. m) >= i
        BY <2>1, GreatestElement
      <3>2. m \in 1 .. m
        BY <1>1
      <3> QED
        BY <3>1, <3>2
    <2>3. f[1 .. m] = Applied(f[1 .. m - 1], q[m])
      BY <1>4, <2>1, <2>2
    <2> QED
      BY <2>1, <2>3
  <1>7. g = [m \in 0 .. n |-> g[m]] /\ g[n] = f[1 .. n]
    BY <1>1
  <1> HIDE DEF g
  <1> QED
    BY <1>2, <1>3, <1>5, <1>6, <1>7 DEF Runs, n

\* Two runs whose commands are the same from some place on.
Follows(q, a, p, n) == \A m \in 1 .. n : q[a + m] = p[m]

LEMMA RunsAgree ==
  ASSUME NEW g, NEW h, NEW s, NEW t, NEW q, NEW p, Runs(g, s, q), Runs(h, t, p),
         NEW a \in Nat, NEW n \in Nat, Len(q) \in Nat, Len(p) \in Nat,
         a + n <= Len(q), n <= Len(p), g[a] = t, Follows(q, a, p, n)
  PROVE  g[a + n] = h[n]
  <1> DEFINE P == {m \in Nat : m <= n => g[a + m] = h[m]}
  <1>1. 0 \in P
    BY DEF Runs
  <1>2. ASSUME NEW m \in Nat, m \in P PROVE m + 1 \in P
    <2>1. CASE m + 1 <= n
      <3>1. g[a + m] = h[m]
        BY <1>2, <2>1
      <3>2. /\ m + 1 \in 1 .. n /\ m + 1 \in 1 .. Len(p) /\ a + (m + 1) \in 1 .. Len(q)
            /\ (m + 1) - 1 = m /\ (a + (m + 1)) - 1 = a + m
        BY <2>1
      <3>3. g[a + (m + 1)] = Applied(g[a + m], q[a + (m + 1)])
        BY <3>2 DEF Runs
      <3>4. h[m + 1] = Applied(h[m], p[m + 1])
        BY <3>2 DEF Runs
      <3> QED
        BY <3>1, <3>2, <3>3, <3>4 DEF Follows
    <2> QED
      BY <2>1
  <1>3. Nat \subseteq P
    <2> HIDE DEF P
    <2> QED
      BY <1>1, <1>2, InductiveSet
  <1> QED
    BY <1>3

LEMMA ReplayNothing == \A s : Replay(s, <<>>) = s
  <1>1. ASSUME NEW s PROVE Replay(s, <<>>) = s
    <2>1. <<>> \in Seq(Words) /\ Len(<<>>) = 0
      OBVIOUS
    <2>2. PICK g : Runs(g, s, <<>>) /\ Replay(s, <<>>) = g[Len(<<>>)]
      BY <2>1, ReplayRuns
    <2> QED
      BY <2>1, <2>2 DEF Runs
  <1> QED
    BY <1>1

LEMMA ReplayOneMore ==
  ASSUME NEW C, NEW q \in Seq(C), NEW c \in C, NEW s
  PROVE  Replay(s, q \o <<c>>) = Applied(Replay(s, q), c)
  <1> DEFINE n == Len(q)
             all == q \o <<c>>
  <1>1. /\ all \in Seq(C) /\ n \in Nat /\ Len(all) = n + 1 /\ all[n + 1] = c
        /\ \A m \in 1 .. n : all[m] = q[m]
    OBVIOUS
  <1> HIDE DEF all
  <1>2. PICK g : Runs(g, s, all) /\ Replay(s, all) = g[Len(all)]
    BY <1>1, ReplayRuns
  <1>3. PICK h : Runs(h, s, q) /\ Replay(s, q) = h[Len(q)]
    BY ReplayRuns
  <1> HIDE DEF n
  <1>4. g[n] = h[n]
    <2>1. g[0] = s /\ 0 \in Nat /\ 0 + n = n /\ Len(q) = n /\ n <= n /\ n <= n + 1
          /\ \A m \in 1 .. n : 0 + m = m
      BY <1>1, <1>2 DEF Runs, n
    <2>2. Follows(all, 0, q, n)
      BY <1>1, <2>1 DEF Follows
    <2>4. Len(all) \in Nat /\ Len(q) \in Nat /\ 0 + n <= Len(all) /\ n <= Len(q)
      BY <1>1, <2>1
    <2>3. g[0 + n] = h[n]
      BY <2>4, <1>1, <1>2, <1>3, <2>1, <2>2, RunsAgree
    <2> QED
      BY <2>1, <2>3
  <1>5. g[n + 1] = Applied(g[n], c)
    <2>1. n + 1 \in 1 .. Len(all) /\ (n + 1) - 1 = n
      BY <1>1
    <2> QED
      BY <1>1, <1>2, <2>1 DEF Runs
  <1> QED
    BY <1>1, <1>2, <1>3, <1>4, <1>5 DEF all, n

-----------------------------------------------------------------------------
(* What was propagated rebuilds the lists.                                 *)

Empty == [k \in Keys |-> <<>>]

LEMMA ReplayedIs == Replayed = Replay(Empty, aof)
  BY DEF Replayed, Replay, Empty

\* A command is propagated.
LEMMA Propagated ==
  ASSUME aof \in Seq(Words), NEW cmd \in Words, aof' = Append(aof, cmd)
  PROVE  aof' \in Seq(Words) /\ Replayed' = Applied(Replayed, cmd)
  <1>1. aof' \in Seq(Words) /\ aof' = aof \o <<cmd>>
    BY AppendProperties, AppendIsConcat
  <1>2. Replay(Empty, aof \o <<cmd>>) = Applied(Replay(Empty, aof), cmd)
    BY ReplayOneMore
  <1>3. Replayed' = Replay(Empty, aof')
    BY DEF Replayed, Replay, Empty
  <1> QED
    BY <1>1, <1>2, <1>3, ReplayedIs

\* A command that is doomed stays so until it returns, and so do others in
\* the same place.
LEMMA StaysDoomed ==
  ASSUME StackInv, dirty' \in {dirty, dirty + 1}, ~Doomed',
         \A i \in 1 .. Len(stack) :
           stack[i].at = "done" /\ ~stack[i].own /\ stack[i].before # dirty =>
             \E j \in 1 .. Len(stack') : stack'[j] = stack[i]
  PROVE  ~Doomed
  <1> SUFFICES ASSUME NEW i \in 1 .. Len(stack), stack[i].at = "done", ~stack[i].own,
                      stack[i].before # dirty
               PROVE  FALSE
    BY DEF Doomed
  <1>1. stack[i] \in Frames /\ GoodFrame(stack[i], dirty, multi, BlockedClients) /\ dirty \in Nat
    BY DEF StackInv, GoodStack
  <1>2. stack[i].before # dirty'
    BY <1>1 DEF GoodFrame, Frames
  <1>3. PICK j \in 1 .. Len(stack') : stack'[j] = stack[i]
    OBVIOUS
  <1> QED
    BY <1>2, <1>3 DEF Doomed

\* The frames below the top stay when the top goes on.
LEMMA LowerStay ==
  ASSUME StackInv, ~Idle, NEW at \in {"exec", "done"}, NEW own \in BOOLEAN,
         NEW calls \in Seq(Frames), GoTo(at, own, calls)
  PROVE  /\ stack' \in Seq(Frames)
         /\ \A i \in 2 .. Len(stack) : \E j \in 1 .. Len(stack') : stack'[j] = stack[i]
         /\ \E j \in 1 .. Len(stack') : stack'[j] = [Top EXCEPT !.at = at, !.own = own]
         /\ calls = <<>> => Head(stack') = [Top EXCEPT !.at = at, !.own = own]
         /\ calls # <<>> => Head(stack') = calls[1]
         /\ stack' # <<>>
  <1> DEFINE g == [Top EXCEPT !.at = at, !.own = own]
             t == Callers
             n == Len(calls)
             s == stack'
  <1>1. /\ stack \in Seq(Frames) /\ stack # <<>> /\ Top \in Frames /\ t \in Seq(Frames)
        /\ Len(t) = Len(stack) - 1 /\ \A i \in 1 .. Len(t) : t[i] = stack[i + 1]
    <2>1. stack \in Seq(Frames) /\ stack # <<>> /\ Top \in Frames
      BY TopFacts DEF StackInv, GoodStack
    <2> QED
      BY <2>1 DEF Callers
  <1>2. g \in Frames
    BY <1>1 DEF Frames
  <1>3. s = calls \o <<g>> \o t
    BY DEF GoTo
  <1> HIDE DEF g, t, s, n
  <1>4. s = (calls \o <<g>>) \o t
    BY <1>3
  <1>5. /\ s \in Seq(Frames) /\ Len(s) = n + 1 + Len(t) /\ n \in Nat /\ Len(t) \in Nat
        /\ s[n + 1] = g /\ \A i \in 1 .. n : s[i] = calls[i]
        /\ \A i \in 1 .. Len(t) : s[n + 1 + i] = t[i]
    <2> DEFINE u == calls \o <<g>>
    <2>1. /\ u \in Seq(Frames) /\ Len(u) = n + 1 /\ u[n + 1] = g /\ n \in Nat /\ Len(t) \in Nat
          /\ \A i \in 1 .. n : u[i] = calls[i]
      BY <1>1, <1>2 DEF n
    <2>2. s = u \o t
      BY <1>4
    <2> HIDE DEF u, n
    <2>3. /\ s \in Seq(Frames) /\ Len(s) = Len(u) + Len(t)
          /\ \A i \in 1 .. Len(u) + Len(t) :
               s[i] = IF i <= Len(u) THEN u[i] ELSE t[i - Len(u)]
      BY <1>1, <2>1, <2>2, ConcatProperties
    <2>4. \A i \in 1 .. Len(t) : n + 1 + i \in 1 .. Len(u) + Len(t)
            /\ ~ (n + 1 + i <= Len(u)) /\ (n + 1 + i) - Len(u) = i
      BY <2>1
    <2> QED
      BY <2>1, <2>3, <2>4
  <1>6. ASSUME NEW i \in 2 .. Len(stack) PROVE \E j \in 1 .. Len(s) : s[j] = stack[i]
    <2>1. PICK m \in 1 .. Len(t) : m + 1 = i
      <3>1. i - 1 \in 1 .. Len(t) /\ (i - 1) + 1 = i
        BY <1>1, <1>5
      <3> QED
        BY <3>1
    <2>2. n + 1 + m \in 1 .. Len(s)
      BY <1>5
    <2>3. s[n + 1 + m] = stack[i]
      BY <1>1, <1>5, <2>1
    <2> QED
      BY <2>2, <2>3
  <1>7. \E j \in 1 .. Len(s) : s[j] = g
    <2>1. n + 1 \in 1 .. Len(s)
      BY <1>5
    <2> QED
      BY <1>5, <2>1
  <1>8. s # <<>> /\ Head(s) = s[1]
    BY <1>5
  <1>9. calls = <<>> => s[1] = g
    <2>1. calls = <<>> => n = 0
      BY DEF n
    <2> QED
      BY <1>5, <2>1
  <1>10. calls # <<>> => s[1] = calls[1]
    <2>1. calls # <<>> => 1 \in 1 .. n
      BY DEF n
    <2> QED
      BY <1>5, <2>1
  <1> QED
    BY <1>5, <1>6, <1>7, <1>8, <1>9, <1>10 DEF s, g

\* A step in which a command of the top frame stores its effect, or has none.
LEMMA CommandLogs ==
  ASSUME BlockInv, LogInv, ~Idle, Top.at \in {"run", "exec"},
         NEW at \in {"exec", "done"}, NEW own \in BOOLEAN,
         NEW calls \in Seq(Frames), GoTo(at, own, calls),
         calls # <<>> => ~own /\ ~calls[1].own,
         dirty' \in {dirty, dirty + 1}, misfed' = misfed,
         aof' \in Seq(Words), Replayed' = Replayed,
         ~Doomed' => lists' = IF own THEN Applied(lists, Top.cmd) ELSE lists
  PROVE  LogInv'
  <1> SUFFICES ASSUME ~misfed', ~Doomed'
               PROVE  lists' = IF stack' # <<>> /\ Head(stack').own
                                 THEN Applied(Replayed', Head(stack').cmd) ELSE Replayed'
    BY DEF LogInv
  <1>1. /\ stack # <<>> /\ Top = stack[1] /\ Top \in Frames /\ ~Top.own /\ StackInv
    <2>1. GoodFrame(Top, dirty, multi, BlockedClients) /\ Top \in Frames /\ Top = stack[1]
          /\ stack # <<>>
      BY TopFacts DEF BlockInv
    <2> QED
      BY <2>1 DEF GoodFrame, BlockInv
  <1>2. /\ \A i \in 2 .. Len(stack) : \E j \in 1 .. Len(stack') : stack'[j] = stack[i]
        /\ calls = <<>> => Head(stack') = [Top EXCEPT !.at = at, !.own = own]
        /\ calls # <<>> => Head(stack') = calls[1]
        /\ stack' # <<>>
    BY <1>1, LowerStay
  <1>3. ~Doomed
    <2>1. \A i \in 1 .. Len(stack) : i = 1 \/ i \in 2 .. Len(stack)
      OBVIOUS
    <2>2. \A i \in 1 .. Len(stack) :
            stack[i].at = "done" /\ ~stack[i].own /\ stack[i].before # dirty =>
              \E j \in 1 .. Len(stack') : stack'[j] = stack[i]
      BY <1>1, <1>2, <2>1
    <2> QED
      BY <1>1, <2>2, StaysDoomed
  <1>4. lists = Replayed
    <2>1. ~Head(stack).own
      BY <1>1 DEF Top
    <2> QED
      BY <1>3, <2>1 DEF LogInv
  <1>5. CASE calls = <<>>
    <2>1. Head(stack').own = own /\ Head(stack').cmd = Top.cmd
      BY <1>1, <1>2, <1>5 DEF Frames
    <2> QED
      BY <1>2, <1>4, <2>1
  <1>6. CASE calls # <<>>
    BY <1>2, <1>4, <1>6
  <1> QED
    BY <1>5, <1>6

\* The served client's input, if it has sent some.
LEMMA InputCalls ==
  ASSUME BlockInv, NEW c \in Clients
  PROVE  /\ ProcessesInput(c) \in Seq(Frames)
         /\ ProcessesInput(c) # <<>> => ~ProcessesInput(c)[1].own
  <1>1. NoCmd \in Words
    <2>1. <<>> \in Seq(Keys)
      OBVIOUS
    <2> QED
      BY <2>1 DEF NoCmd, Words
  <1>2. Frame(c, NoCmd, "input") \in Frames /\ ~Frame(c, NoCmd, "input").own
    BY <1>1 DEF Frame, Frames, BlockInv, StackInv, GoodStack
  <1>3. <<>> \in Seq(Frames)
    OBVIOUS
  <1> QED
    BY <1>2, <1>3 DEF ProcessesInput

LEMMA NothingApplied ==
  ASSUME NEW ls, NEW cmd, cmd.op \notin {"push", "pop", "rename", "rpoplpush"}
  PROVE  Applied(ls, cmd) = ls
  BY DEF Applied

\* Nothing is propagated, and the command stores something or nothing.
LEMMA StoresLog ==
  ASSUME BlockInv, LogInv, ~Idle, Top.at = "run", NEW own \in BOOLEAN,
         GoTo("done", own, <<>>), dirty' \in {dirty, dirty + 1}, UNCHANGED <<aof, misfed>>,
         lists' = IF own THEN Applied(lists, Top.cmd) ELSE lists
  PROVE  LogInv'
  <1> DEFINE calls == <<>>
  <1>1. calls \in Seq(Frames) /\ calls = <<>> /\ GoTo("done", own, calls)
    OBVIOUS
  <1>2. aof' \in Seq(Words) /\ Replayed' = Replayed
    BY DEF LogInv, Replayed
  <1> HIDE DEF calls
  <1> QED
    BY <1>1, <1>2, CommandLogs

LEMMA ServeLogs ==
  ASSUME BlockInv, LogInv, ~Idle, Top.at = "run", NEW k \in Keys, NEW e,
         Serve(k, e, "done", FALSE), UNCHANGED <<aof, misfed>>,
         \/ dirty' = dirty /\ lists' = lists
         \/ dirty' = dirty + 1
  PROVE  LogInv'
  <1> DEFINE r == Receiver(k)
             calls == ProcessesInput(r)
  <1>1. r \in Clients /\ GoTo("done", FALSE, calls)
    BY ReceiverWaits DEF Serve, BlockInv
  <1> HIDE DEF r
  <1>2. calls \in Seq(Frames) /\ (calls # <<>> => ~calls[1].own)
    BY <1>1, InputCalls
  <1>3. aof' \in Seq(Words) /\ Replayed' = Replayed
    BY DEF LogInv, Replayed
  <1> HIDE DEF calls
  <1>4. ~Doomed' => lists' = lists
    <2>1. CASE dirty' = dirty + 1
      <3> DEFINE g == [Top EXCEPT !.at = "done", !.own = FALSE]
      <3>1. /\ Top \in Frames /\ Top.before = dirty /\ dirty \in Nat /\ StackInv
        BY TopFacts, RunFacts DEF BlockInv
      <3>2. g.at = "done" /\ ~g.own /\ g.before = dirty
        BY <3>1 DEF Frames
      <3>3. PICK j \in 1 .. Len(stack') : stack'[j] = g
        BY <1>1, <1>2, <3>1, LowerStay
      <3>4. g.before # dirty'
        BY <2>1, <3>1, <3>2
      <3> HIDE DEF g
      <3>5. Doomed'
        BY <3>2, <3>3, <3>4 DEF Doomed
      <3> QED
        BY <3>5
    <2> QED
      BY <2>1
  <1> QED
    BY <1>1, <1>2, <1>3, <1>4, CommandLogs

LEMMA RunLogs ==
  ASSUME BlockInv, LogInv, Run
  PROVE  LogInv'
  <1> DEFINE c == Top.who
             cmd == Top.cmd
  <1>1. ~Idle /\ Top.at = "run" /\ cmd \in Commands /\ misfed' = misfed
    BY RunFacts DEF Run
  <1>2. /\ cmd.op = "push" => cmd.keys[1] \in Keys
        /\ cmd.op \in {"rename", "rpoplpush"} => cmd.keys[1] \in Keys /\ cmd.keys[2] \in Keys
    BY <1>1, CommandFacts
  <1>3. CASE cmd.op = "push" /\ ListCommand(c, cmd)
    <2> DEFINE k == cmd.keys[1]
    <2>1. Push(k, cmd.ele) /\ aof' = aof
      BY <1>3 DEF ListCommand
    <2>2. CASE Serve(k, cmd.ele, "done", FALSE) /\ UNCHANGED <<lists, dirty>>
      BY <1>1, <1>2, <1>3, <2>1, <2>2, ServeLogs
    <2>3. CASE /\ lists' = [lists EXCEPT ![k] = Append(@, cmd.ele)] /\ dirty' = dirty + 1
               /\ GoTo("done", TRUE, <<>>)
      <3>1. Applied(lists, cmd) = [lists EXCEPT ![k] = Append(@, cmd.ele)]
        BY <1>3 DEF Applied
      <3> QED
        BY <1>1, <2>1, <2>3, <3>1, StoresLog
    <2> QED
      BY <2>1, <2>2, <2>3 DEF Push
  <1>4. CASE cmd.op = "pop" /\ ListCommand(c, cmd)
    <2>1. BlockingPopGenericCommand(c, cmd.keys, cmd.timed) /\ aof' = aof
      BY <1>4 DEF ListCommand
    <2>2. CASE Full(cmd.keys) # {}
      <3> DEFINE k == cmd.keys[CHOOSE i \in Full(cmd.keys) :
                                 \A j \in Full(cmd.keys) : i <= j]
      <3>1. /\ lists' = [lists EXCEPT ![k] = Tail(@)] /\ dirty' = dirty + 1
            /\ GoTo("done", TRUE, <<>>)
        BY <2>1, <2>2 DEF BlockingPopGenericCommand
      <3>2. Applied(lists, cmd) = [lists EXCEPT ![k] = Tail(@)]
        BY <1>4, <2>2 DEF Applied, Full
      <3> QED
        BY <1>1, <2>1, <3>1, <3>2, StoresLog
    <2>3. CASE Full(cmd.keys) = {}
      <3>1. lists' = lists /\ dirty' = dirty /\ GoTo("done", FALSE, <<>>)
        BY <2>1, <2>3 DEF BlockingPopGenericCommand
      <3> QED
        BY <1>1, <2>1, <3>1, StoresLog
    <2> QED
      BY <2>2, <2>3
  <1>5. CASE cmd.op = "rename" /\ ListCommand(c, cmd)
    <2> DEFINE k == cmd.keys[1]
               l == cmd.keys[2]
    <2>1. Rename(k, l) /\ aof' = aof
      BY <1>5 DEF ListCommand
    <2>2. CASE GoTo("done", FALSE, <<>>) /\ UNCHANGED <<lists, dirty>>
      BY <1>1, <2>1, <2>2, StoresLog
    <2>3. CASE /\ lists[k] # <<>> /\ lists' = [lists EXCEPT ![k] = <<>>, ![l] = lists[k]]
               /\ dirty' = dirty + 1 /\ GoTo("done", TRUE, <<>>)
      <3>1. Applied(lists, cmd) = [lists EXCEPT ![k] = <<>>, ![l] = lists[k]]
        BY <1>5, <2>3 DEF Applied
      <3> QED
        BY <1>1, <2>1, <2>3, <3>1, StoresLog
    <2> QED
      BY <2>1, <2>2, <2>3 DEF Rename
  <1>6. CASE cmd.op = "rpoplpush" /\ ListCommand(c, cmd)
    <2> DEFINE k == cmd.keys[1]
               l == cmd.keys[2]
               rest == [lists EXCEPT ![k] = Front(@)]
    <2>1. Rpoplpush(k, l) /\ aof' = aof
      BY <1>6 DEF ListCommand
    <2>2. CASE GoTo("done", FALSE, <<>>) /\ UNCHANGED <<lists, dirty>>
      BY <1>1, <2>1, <2>2, StoresLog
    <2>3. CASE Serve(l, Last(lists[k]), "done", FALSE) /\ dirty' = dirty + 1
      BY <1>1, <1>2, <1>6, <2>1, <2>3, ServeLogs
    <2>4. CASE /\ lists[k] # <<>> /\ lists' = [rest EXCEPT ![l] = <<Last(lists[k])>> \o @]
               /\ dirty' = dirty + 1 /\ GoTo("done", TRUE, <<>>)
      <3>1. Applied(lists, cmd) = [rest EXCEPT ![l] = <<Last(lists[k])>> \o @]
        BY <1>6, <2>4 DEF Applied
      <3> QED
        BY <1>1, <2>1, <2>4, <3>1, StoresLog
    <2> QED
      BY <2>1, <2>2, <2>3, <2>4 DEF Rpoplpush
  <1>7. CASE /\ \/ cmd.op = "multi" /\ MultiCommand(c)
                \/ cmd.op = "discard" /\ DiscardCommand(c)
                \/ cmd.op = "exec" /\ ExecCommand(c)
             /\ UNCHANGED <<lists, dirty>>
    <2> DEFINE calls == <<>>
    <2>1. PICK at \in {"exec", "done"} : GoTo(at, FALSE, calls)
      BY <1>7 DEF MultiCommand, DiscardCommand, ExecCommand
    <2>2. aof' \in Seq(Words) /\ Replayed' = Replayed
      <3>1. CASE aof' = aof
        BY <3>1 DEF LogInv, Replayed
      <3>2. CASE aof' = Append(aof, [NoCmd EXCEPT !.op = "multi"])
        <4> DEFINE w == [NoCmd EXCEPT !.op = "multi"]
        <4>1. <<>> \in Seq(Keys)
          OBVIOUS
        <4>2. w \in Words /\ w.op = "multi"
          BY <4>1 DEF NoCmd, Words, Ops, Queued
        <4> HIDE DEF w
        <4>3. aof' = Append(aof, w) /\ aof \in Seq(Words)
          BY <3>2 DEF LogInv, w
        <4>4. aof' \in Seq(Words) /\ Replayed' = Applied(Replayed, w)
          BY <4>2, <4>3, Propagated
        <4>5. Applied(Replayed, w) = Replayed
          BY <4>2, NothingApplied
        <4> QED
          BY <4>4, <4>5
      <3> QED
        BY <1>7, <3>1, <3>2 DEF MultiCommand, DiscardCommand, ExecCommand
    <2>3. calls \in Seq(Frames) /\ calls = <<>>
      OBVIOUS
    <2> HIDE DEF calls
    <2> QED
      BY <1>1, <1>7, <2>1, <2>2, <2>3, CommandLogs
  <1> QED
    BY <1>3, <1>4, <1>5, <1>6, <1>7 DEF Run

LEMMA ExecNextLogs ==
  ASSUME BlockInv, LogInv, ExecNext
  PROVE  LogInv'
  <1> DEFINE c == Top.who
  <1>1. ~Idle /\ Top.at = "exec" /\ UNCHANGED <<lists, aof, misfed>>
    BY DEF ExecNext
  <1>2. c \in Clients /\ Top.cmd.op = "exec" /\ dirty \in Nat
    <2>1. Top.who \in Clients /\ GoodFrame(Top, dirty, multi, BlockedClients) /\ dirty \in Nat
      BY <1>1, TopFacts DEF BlockInv
    <2> QED
      BY <1>1, <2>1 DEF GoodFrame
  <1>3. aof' \in Seq(Words) /\ Replayed' = Replayed
    BY <1>1 DEF LogInv, Replayed
  <1>4. CASE mstate[c] # <<>>
    <2> DEFINE f == Frame(c, Head(mstate[c]), "run")
               calls == <<f>>
    <2>1. GoTo("exec", FALSE, calls) /\ dirty' = dirty
      BY <1>4 DEF ExecNext
    <2>2. Head(mstate[c]) \in Words
      <3>1. mstate[c] \in Seq({cmd \in Commands : cmd.op \in Queued})
        BY <1>2 DEF BlockInv, CommandsInv
      <3> QED
        BY <1>4, <3>1 DEF Commands
    <2>3. f \in Frames /\ ~f.own
      BY <1>2, <2>2 DEF Frame, Frames
    <2> HIDE DEF f
    <2>4. calls \in Seq(Frames) /\ ~calls[1].own
      BY <2>3
    <2> HIDE DEF calls
    <2> QED
      BY <1>1, <1>3, <2>1, <2>4, CommandLogs
  <1>5. CASE mstate[c] = <<>>
    <2> DEFINE calls == <<>>
    <2>1. GoTo("done", TRUE, calls) /\ dirty' = dirty + 1
      BY <1>5 DEF ExecNext
    <2>2. calls \in Seq(Frames) /\ calls = <<>>
      OBVIOUS
    <2>3. Applied(lists, Top.cmd) = lists
      BY <1>2, NothingApplied
    <2> HIDE DEF calls
    <2> QED
      BY <1>1, <1>3, <2>1, <2>2, <2>3, CommandLogs
  <1> QED
    BY <1>4, <1>5

\* A call returns: the frames below it are still there, and none has stored.
LEMMA Returned ==
  ASSUME StackInv, ~Idle, Return
  PROVE  /\ \A i \in 2 .. Len(stack) : \E j \in 1 .. Len(stack') : stack'[j] = stack[i]
         /\ stack' # <<>> => ~Head(stack').own
  <1> DEFINE t == Tail(stack)
  <1>1. stack \in Seq(Frames) /\ stack # <<>>
        /\ \A i \in 2 .. Len(stack) : stack[i].at # "run" /\ ~stack[i].own
    BY TopFacts DEF StackInv, GoodStack
  <1>2. /\ t \in Seq(Frames) /\ Len(t) = Len(stack) - 1 /\ Len(stack) \in Nat
        /\ \A i \in 1 .. Len(t) : t[i] = stack[i + 1]
    BY <1>1
  <1>3. stack' = t
    BY DEF Return, Callers
  <1> HIDE DEF t
  <1>4. ASSUME NEW i \in 2 .. Len(stack) PROVE \E j \in 1 .. Len(t) : t[j] = stack[i]
    <2>1. i - 1 \in 1 .. Len(t) /\ (i - 1) + 1 = i
      BY <1>2
    <2>2. t[i - 1] = stack[i]
      BY <1>2, <2>1
    <2> QED
      BY <2>1, <2>2
  <1>5. t # <<>> => ~Head(t).own
    <2> SUFFICES ASSUME t # <<>> PROVE ~Head(t).own
      OBVIOUS
    <2>1. 1 \in 1 .. Len(t) /\ Head(t) = t[1] /\ 1 + 1 \in 2 .. Len(stack)
      BY <1>2
    <2> QED
      BY <1>1, <1>2, <2>1
  <1> QED
    BY <1>3, <1>4, <1>5

LEMMA CallReturnsLogs ==
  ASSUME BlockInv, LogInv, CallReturns
  PROVE  LogInv'
  <1> SUFFICES ASSUME ~misfed', ~Doomed'
               PROVE  /\ aof' \in Seq(Words)
                      /\ lists' = IF stack' # <<>> /\ Head(stack').own
                                   THEN Applied(Replayed', Head(stack').cmd) ELSE Replayed'
    <2>1. aof' \in Seq(Words)
      <3>1. Top.cmd \in Words /\ aof \in Seq(Words)
        BY TopFacts DEF CallReturns, BlockInv, Frames, LogInv
      <3> QED
        BY <3>1, Propagated DEF CallReturns
    <2> QED
      BY <2>1 DEF LogInv
  <1>1. ~Idle /\ Top.at = "done" /\ Return /\ lists' = lists /\ dirty' = dirty /\ StackInv
    BY DEF CallReturns, BlockInv
  <1>2. /\ stack # <<>> /\ Top = stack[1] /\ Top.cmd \in Words /\ aof \in Seq(Words)
        /\ GoodFrame(Top, dirty, multi, BlockedClients) /\ Head(stack) = Top
    BY <1>1, TopFacts DEF Frames, LogInv, Top
  <1>3. /\ \A i \in 2 .. Len(stack) : \E j \in 1 .. Len(stack') : stack'[j] = stack[i]
        /\ stack' # <<>> => ~Head(stack').own
    BY <1>1, Returned
  <1>4. ~misfed /\ (dirty # Top.before => Top.own)
    BY DEF CallReturns
  <1>5. ~Doomed
    <2>1. \A i \in 1 .. Len(stack) : i = 1 \/ i \in 2 .. Len(stack)
      OBVIOUS
    <2>2. \A i \in 1 .. Len(stack) :
            stack[i].at = "done" /\ ~stack[i].own /\ stack[i].before # dirty =>
              \E j \in 1 .. Len(stack') : stack'[j] = stack[i]
      BY <1>2, <1>3, <1>4, <2>1
    <2> QED
      BY <1>1, <2>2, StaysDoomed
  <1>6. lists = IF Top.own THEN Applied(Replayed, Top.cmd) ELSE Replayed
    BY <1>2, <1>4, <1>5 DEF LogInv
  <1>7. CASE dirty # Top.before
    <2>1. aof' = Append(aof, Top.cmd) /\ Top.own
      BY <1>4, <1>7 DEF CallReturns
    <2>2. aof' \in Seq(Words) /\ Replayed' = Applied(Replayed, Top.cmd)
      BY <1>2, <2>1, Propagated
    <2> QED
      BY <1>1, <1>3, <1>6, <2>1, <2>2
  <1>8. CASE dirty = Top.before
    <2>1. aof' = aof /\ ~Top.own
      BY <1>2, <1>8 DEF CallReturns, GoodFrame
    <2>2. Replayed' = Replayed
      BY <2>1 DEF Replayed
    <2> QED
      BY <1>1, <1>2, <1>3, <1>6, <2>1, <2>2
  <1> QED
    BY <1>7, <1>8

\* A step that neither stores nor propagates, on a stack it only adds to or
\* returns on.
LEMMA UntouchedLogs ==
  ASSUME BlockInv, LogInv, UNCHANGED <<lists, aof, misfed, dirty>>,
         \/ stack' = stack
         \/ ~Idle /\ Top.at # "done" /\ Return
         \/ /\ Idle \/ Top.at # "done"
            /\ \E f \in Frames : ~f.own /\ stack' = <<f>> \o stack
  PROVE  LogInv'
  <1>1. stack \in Seq(Frames) /\ StackInv
    BY DEF BlockInv, StackInv, GoodStack
  <1>2. aof' \in Seq(Words) /\ Replayed' = Replayed
    BY DEF LogInv, Replayed
  <1>3. CASE stack' = stack
    BY <1>3 DEF LogInv, Doomed, Replayed
  <1>4. ASSUME \A i \in 1 .. Len(stack) :
                 stack[i].at = "done" /\ ~stack[i].own /\ stack[i].before # dirty =>
                   \E j \in 1 .. Len(stack') : stack'[j] = stack[i],
               Idle \/ Top.at # "done",
               stack' # <<>> => ~Head(stack').own
        PROVE  LogInv'
    <2>1. ~Doomed' => ~Doomed
      BY <1>1, <1>4, StaysDoomed
    <2>2. stack # <<>> => ~Head(stack).own
      <3> SUFFICES ASSUME ~Idle PROVE ~Top.own
        BY DEF Idle, Top
      <3>1. GoodFrame(Top, dirty, multi, BlockedClients)
        BY <1>1, TopFacts
      <3> QED
        BY <1>4, <3>1 DEF GoodFrame
    <2> QED
      BY <1>2, <1>4, <2>1, <2>2 DEF LogInv
  <1>5. CASE ~Idle /\ Top.at # "done" /\ Return
    <2>1. \A i \in 1 .. Len(stack) : i = 1 \/ i \in 2 .. Len(stack)
      OBVIOUS
    <2>2. Top = stack[1]
      BY <1>1, <1>5, TopFacts
    <2>3. /\ \A i \in 2 .. Len(stack) : \E j \in 1 .. Len(stack') : stack'[j] = stack[i]
          /\ stack' # <<>> => ~Head(stack').own
      BY <1>1, <1>5, Returned
    <2> QED
      BY <1>4, <1>5, <2>1, <2>2, <2>3
  <1>6. ASSUME Idle \/ Top.at # "done", NEW f \in Frames, ~f.own, stack' = <<f>> \o stack
        PROVE  LogInv'
    <2>1. /\ stack' # <<>> /\ Head(stack') = f /\ Len(stack') = Len(stack) + 1
          /\ Len(stack) \in Nat /\ \A i \in 1 .. Len(stack) : stack'[i + 1] = stack[i]
      BY <1>1, <1>6
    <2>2. \A i \in 1 .. Len(stack) : i + 1 \in 1 .. Len(stack')
      BY <2>1
    <2>3. \A i \in 1 .. Len(stack) : \E j \in 1 .. Len(stack') : stack'[j] = stack[i]
      BY <2>1, <2>2
    <2> QED
      BY <1>4, <1>6, <2>1, <2>3
  <1> QED
    BY <1>3, <1>5, <1>6

LEMMA NewFrame ==
  ASSUME BlockInv, NEW c \in Clients, NEW cmd \in Words \cup {NoCmd},
         NEW at \in {"input", "run", "cron"}
  PROVE  Frame(c, cmd, at) \in Frames /\ ~Frame(c, cmd, at).own
  <1>1. NoCmd \in Words
    <2>1. <<>> \in Seq(Keys)
      OBVIOUS
    <2> QED
      BY <2>1 DEF NoCmd, Words
  <1>2. dirty \in Nat /\ cmd \in Words
    BY <1>1 DEF BlockInv, StackInv, GoodStack
  <1> QED
    BY <1>2 DEF Frame, Frames

LEMMA ProcessInputLogs ==
  ASSUME BlockInv, LogInv, ProcessInputBuffer
  PROVE  LogInv'
  <1> DEFINE c == Top.who
             cmd == Head(querybuf[c])
  <1>1. ~Idle /\ Top.at = "input" /\ UNCHANGED <<lists, aof, misfed, dirty>> /\ c \in Clients
    BY TopFacts DEF ProcessInputBuffer, BlockInv
  <1>2. CASE Return
    BY <1>1, <1>2, UntouchedLogs
  <1>3. CASE stack' = stack
    BY <1>1, <1>3, UntouchedLogs
  <1>4. CASE querybuf[c] # <<>> /\ stack' = <<Frame(c, cmd, "run")>> \o stack
    <2>1. cmd \in Words
      <3>1. querybuf[c] \in Seq(Commands)
        BY <1>1 DEF BlockInv, CommandsInv
      <3>2. Head(querybuf[c]) \in Commands
        BY <1>4, <3>1
      <3> QED
        BY <3>2 DEF Commands
    <2>2. Frame(c, cmd, "run") \in Frames /\ ~Frame(c, cmd, "run").own
      BY <1>1, <2>1, NewFrame
    <2> QED
      BY <1>1, <1>4, <2>2, UntouchedLogs
  <1> QED
    BY <1>2, <1>3, <1>4 DEF ProcessInputBuffer

LEMMA CloseLogs ==
  ASSUME BlockInv, LogInv, CloseTimedoutClients
  PROVE  LogInv'
  <1>1. ~Idle /\ Top.at = "cron" /\ UNCHANGED <<lists, aof, misfed, dirty>>
    BY DEF CloseTimedoutClients
  <1>2. CASE Return
    BY <1>1, <1>2, UntouchedLogs
  <1>3. ASSUME NEW c \in Clients, stack' = ProcessesInput(c) \o stack
        PROVE  LogInv'
    <2>1. CASE querybuf[c] # <<>>
      <3>1. stack' = <<Frame(c, NoCmd, "input")>> \o stack
        BY <1>3, <2>1 DEF ProcessesInput
      <3>2. Frame(c, NoCmd, "input") \in Frames /\ ~Frame(c, NoCmd, "input").own
        BY NewFrame
      <3> QED
        BY <1>1, <3>1, <3>2, UntouchedLogs
    <2>2. CASE querybuf[c] = <<>>
      <3>1. stack \in Seq(Frames)
        BY DEF BlockInv, StackInv, GoodStack
      <3>2. stack' = <<>> \o stack
        BY <1>3, <2>2 DEF ProcessesInput
      <3>3. stack' = stack
        BY <3>1, <3>2
      <3> QED
        BY <1>1, <3>3, UntouchedLogs
    <2> QED
      BY <2>1, <2>2
  <1> QED
    BY <1>2, <1>3 DEF CloseTimedoutClients

\* An event starts on an empty stack.
LEMMA EventLogs ==
  ASSUME BlockInv, LogInv, Idle, UNCHANGED <<lists, aof, misfed, dirty>>,
         stack' = <<>> \/ \E c \in Clients, at \in {"input", "cron"} :
                            stack' = <<Frame(c, NoCmd, at)>>
  PROVE  LogInv'
  <1>1. CASE stack' = <<>>
    BY <1>1, UntouchedLogs DEF Idle
  <1>2. ASSUME NEW c \in Clients, NEW at \in {"input", "cron"},
               stack' = <<Frame(c, NoCmd, at)>>
        PROVE  LogInv'
    <2> DEFINE f == Frame(c, NoCmd, at)
    <2>1. f \in Frames /\ ~f.own
      BY NewFrame
    <2> HIDE DEF f
    <2>2. <<f>> = <<f>> \o stack
      <3>1. <<f>> \in Seq(Frames) /\ stack = <<>>
        BY <2>1 DEF Idle
      <3> QED
        BY <3>1
    <2>3. stack' = <<f>> \o stack
      BY <1>2, <2>2 DEF f
    <2> QED
      BY <2>1, <2>3, UntouchedLogs
  <1> QED
    BY <1>1, <1>2

LEMMA NextLogs ==
  ASSUME BlockInv, LogInv, [Next]_vars
  PROVE  LogInv'
  <1>1. CASE UNCHANGED vars
    BY <1>1 DEF vars, LogInv, Doomed, Replayed
  <1>2. CASE ServerStep
    BY <1>2, RunLogs, ExecNextLogs, CallReturnsLogs, ProcessInputLogs, CloseLogs
    DEF ServerStep
  <1>3. ASSUME NEW c \in Clients, NEW req \in Requests[c], ReadQueryFromClient(c, req)
        PROVE  LogInv'
    BY <1>3, EventLogs DEF ReadQueryFromClient
  <1>4. ASSUME NEW c \in Clients, Disconnect(c) PROVE LogInv'
    BY <1>4, EventLogs DEF Disconnect, Idle
  <1>5. ASSUME NEW over \in SUBSET Clients, ServerCron(over) PROVE LogInv'
    <2> DEFINE c == CHOOSE d \in over : TRUE
    <2>1. c \in Clients /\ stack' = <<Frame(c, NoCmd, "cron")>>
      BY <1>5 DEF ServerCron
    <2> HIDE DEF c
    <2> QED
      BY <1>5, <2>1, EventLogs DEF ServerCron
  <1> QED
    BY <1>1, <1>2, <1>3, <1>4, <1>5 DEF Next

\* Between two events the log, replayed from nothing, gives the lists the
\* server has, unless a command was propagated that stored nothing itself:
\* pops that had to wait are never in the log and neither are the pushes that
\* served them, however pushes, EXEC and the input of the served clients nest.
THEOREM LogAlwaysExactUnlessMisfed == Spec => []LogExactUnlessMisfed
  <1>1. Init => LogInv
    <2> SUFFICES ASSUME Init PROVE LogInv
      OBVIOUS
    <2>1. aof \in Seq(Words) /\ stack = <<>> /\ lists = Empty
      BY DEF Init, Empty
    <2>2. Replayed = Empty
      BY ReplayedIs, ReplayNothing DEF Init
    <2> QED
      BY <2>1, <2>2 DEF LogInv
  <1>2. BlockInv /\ LogInv /\ [Next]_vars => BlockInv' /\ LogInv'
    BY NextKeeps, NextLogs
  <1>3. LogInv => LogExactUnlessMisfed
    <2> SUFFICES ASSUME LogInv, Idle, ~misfed
                 PROVE  FoldLeft(Applied, [k \in Keys |-> <<>>], aof) = lists
      BY DEF LogExactUnlessMisfed
    <2>1. stack = <<>> /\ Len(stack) = 0
      BY DEF Idle
    <2>2. ~Doomed
      BY <2>1 DEF Doomed
    <2> QED
      BY <2>1, <2>2 DEF LogInv, Replayed
  <1> QED
    BY <1>1, <1>2, <1>3, InitBlock, PTL DEF Spec

=============================================================================
