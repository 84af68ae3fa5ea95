-------------------------- MODULE ReplicationProofs --------------------------
(***************************************************************************)
(* What holds of the master's side of replication for every number of      *)
(* slaves, databases, commands and faults: the slaves that wait for one    *)
(* BGSAVE can be copied from one another, a slave that waits while no      *)
(* BGSAVE runs is one the code is known to have lost, and every other      *)
(* slave ends with the master's dataset.                                   *)
(***************************************************************************)
EXTENDS Replication, InductionFacts, SequenceTheorems, TLAPS

-----------------------------------------------------------------------------
(* The inductive invariant.                                                *)

States == {"gone", "wait_start", "wait_end", "send_bulk", "online"}

LinksTyped ==
  /\ replstate \in [Slaves -> States]
  /\ DOMAIN reply = Slaves /\ DOMAIN slaveseldb = Slaves /\ DOMAIN doubt = Slaves
  /\ reply = [s \in Slaves |-> reply[s]]
  /\ slaveseldb = [s \in Slaves |-> slaveseldb[s]]
  /\ doubt = [s \in Slaves |-> doubt[s]]

\* A slave that waits for the next BGSAVE registers no differences yet.
FreshAtStart ==
  \A s \in Slaves : replstate[s] = "wait_start" => reply[s] = <<>> /\ slaveseldb[s] = 0

WaitersInv == LinksTyped /\ FreshAtStart /\ WaitersAgree /\ WaitersHaveABgsave

LEMMA InitWaiters == Init => WaitersInv
  BY DEF Init, WaitersInv, LinksTyped, States, FreshAtStart, WaitersAgree, WaitersHaveABgsave

LEMMA QuietWaiters ==
  ASSUME WaitersInv, UNCHANGED <<bgsave, replstate, reply, slaveseldb, doubt>>
  PROVE  WaitersInv'
  BY DEF WaitersInv, LinksTyped, FreshAtStart, WaitersAgree, WaitersHaveABgsave

-----------------------------------------------------------------------------
(* Propagation.                                                            *)

\* Equal lists that end in the same database stay equal, and the slaves that
\* wait for the next BGSAVE are fed nothing.
LEMMA FeedWaiters ==
  ASSUME WaitersInv, NEW db \in DBs, NEW cmd, Feed(db, cmd),
         UNCHANGED <<bgsave, replstate, doubt>>
  PROVE  WaitersInv'
  <1>1. LinksTyped'
    BY DEF WaitersInv, LinksTyped, Feed
  <1>2. \A s \in Slaves : replstate[s] = "wait_start"
          => reply'[s] = reply[s] /\ slaveseldb'[s] = slaveseldb[s]
    BY DEF Feed, Fed, In
  <1>3. \A s \in Slaves : replstate[s] = "wait_end"
          => reply'[s] = reply[s] \o Addressed(s, db, cmd) /\ slaveseldb'[s] = db
    BY DEF Feed, Fed, In
  <1>4. FreshAtStart'
    BY <1>2 DEF WaitersInv, FreshAtStart
  <1>5. ASSUME NEW s \in Slaves, NEW t \in Slaves,
               replstate[s] = "wait_end", replstate[t] = "wait_end",
               doubt[s] = {}, doubt[t] = {}
        PROVE  reply'[s] = reply'[t] /\ slaveseldb'[s] = slaveseldb'[t]
    <2>1. reply[s] = reply[t] /\ slaveseldb[s] = slaveseldb[t]
      BY <1>5 DEF WaitersInv, WaitersAgree
    <2>2. Addressed(s, db, cmd) = Addressed(t, db, cmd)
      BY <2>1 DEF Addressed
    <2> QED
      BY <1>3, <1>5, <2>1, <2>2
  <1>6. WaitersAgree' /\ WaitersHaveABgsave'
    BY <1>5 DEF WaitersInv, WaitersAgree, WaitersHaveABgsave
  <1> QED
    BY <1>1, <1>4, <1>6 DEF WaitersInv

\* Doubt only takes a slave out of what the invariant speaks of.
LEMMA DoubtWaiters ==
  ASSUME WaitersInv, UNCHANGED <<bgsave, replstate, reply, slaveseldb>>,
         doubt' = [s \in Slaves |-> doubt'[s]],
         \A s \in Slaves : doubt[s] \subseteq doubt'[s]
  PROVE  WaitersInv'
  <1>1. LinksTyped' /\ FreshAtStart'
    BY DEF WaitersInv, LinksTyped, FreshAtStart
  <1>2. \A s \in Slaves : doubt'[s] = {} => doubt[s] = {}
    OBVIOUS
  <1> QED
    BY <1>1, <1>2 DEF WaitersInv, WaitersAgree, WaitersHaveABgsave

LEMMA CommandWaiters ==
  ASSUME WaitersInv, Command
  PROVE  WaitersInv'
  <1>1. ASSUME NEW db \in DBs, Write(db)
        PROVE  WaitersInv'
    BY <1>1, FeedWaiters DEF Write, snapshot
  <1>2. ASSUME NEW db \in DBs, FlushallCommand(db)
        PROVE  WaitersInv'
    <2>1. CASE dirty' # dirty
      BY <1>2, <2>1, FeedWaiters DEF FlushallCommand
    <2>2. CASE dirty' = dirty
      <3>1. doubt' = [s \in Slaves |->
                        IF s \in Fed THEN doubt[s] \cup {"flushall"} ELSE doubt[s]]
        BY <1>2, <2>2 DEF FlushallCommand
      <3>2. UNCHANGED <<bgsave, replstate, reply, slaveseldb>>
        BY <1>2, <2>2 DEF FlushallCommand
      <3> QED
        BY <3>1, <3>2, DoubtWaiters
    <2> QED
      BY <2>1, <2>2
  <1>3. ASSUME NEW db \in DBs, SaveCommand(db)
        PROVE  WaitersInv'
    <2>1. CASE dirty # 0
      BY <1>3, <2>1, FeedWaiters DEF SaveCommand
    <2>2. CASE dirty = 0
      BY <1>3, <2>2, QuietWaiters DEF SaveCommand
    <2> QED
      BY <2>1, <2>2 DEF SaveCommand
  <1>4. CASE BgsaveCommand \/ AutoSave
    BY <1>4
    DEF AutoSave, BgsaveCommand, Forks, links, WaitersInv, LinksTyped, FreshAtStart,
        WaitersAgree, WaitersHaveABgsave
  <1>5. CASE StopAppendOnly
    <2>1. LinksTyped' /\ FreshAtStart'
      BY <1>5 DEF StopAppendOnly, WaitersInv, LinksTyped, FreshAtStart
    <2>2. ASSUME NEW s \in Slaves, replstate'[s] \in {"wait_start", "wait_end"}
          PROVE  doubt'[s] # {}
      BY <1>5, <2>2 DEF StopAppendOnly
    <2> QED
      BY <2>1, <2>2 DEF WaitersInv, WaitersAgree, WaitersHaveABgsave
  <1> QED
    BY <1>1, <1>2, <1>3, <1>4, <1>5 DEF Command

-----------------------------------------------------------------------------
(* SYNC.                                                                   *)

\* A slave that joins a BGSAVE agrees with the slave it copies, unless that
\* slave's list ends in another database than 0: then it is in doubt.
LEMMA SyncWaiters ==
  ASSUME WaitersInv, NEW s \in Slaves, SyncCommand(s)
  PROVE  WaitersInv'
  <1>1. CASE StartBgsave(s)
    <2>1. ~bgsave /\ bgsave' /\ Attach(s, "wait_end", <<>>, {})
      BY <1>1 DEF StartBgsave, Forks
    <2>2. LinksTyped' /\ FreshAtStart'
      BY <2>1 DEF Attach, States, WaitersInv, LinksTyped, FreshAtStart
    <2>3. \A t \in Slaves : replstate'[t] = "wait_end" /\ doubt'[t] = {} => t = s
      BY <2>1 DEF Attach, WaitersInv, LinksTyped, WaitersHaveABgsave
    <2> QED
      BY <2>1, <2>2, <2>3 DEF WaitersInv, WaitersAgree, WaitersHaveABgsave
  <1>2. ASSUME bgsave, bgsave', NEW t \in Slaves, FirstWaiting(t),
               Attach(s, "wait_end", reply[t], doubt[t] \cup Copied(t))
        PROVE  WaitersInv'
    <2>1. LinksTyped' /\ FreshAtStart' /\ WaitersHaveABgsave'
      BY <1>2 DEF Attach, States, WaitersInv, LinksTyped, FreshAtStart, WaitersHaveABgsave
    <2>2. replstate[t] = "wait_end" /\ t # s
      BY <1>2 DEF FirstWaiting, SyncCommand
    <2>3. \A u \in Slaves \ {s} :
            /\ replstate'[u] = replstate[u] /\ doubt'[u] = doubt[u]
            /\ reply'[u] = reply[u] /\ slaveseldb'[u] = slaveseldb[u]
      BY <1>2 DEF Attach, WaitersInv, LinksTyped
    <2>4. ASSUME doubt'[s] = {}
          PROVE  doubt[t] = {} /\ reply'[s] = reply[t] /\ slaveseldb'[s] = slaveseldb[t]
      BY <1>2, <2>4 DEF Attach, Copied, WaitersInv, LinksTyped
    <2>5. ASSUME NEW u \in Slaves, replstate'[u] = "wait_end", doubt'[u] = {},
                 NEW v \in Slaves, replstate'[v] = "wait_end", doubt'[v] = {}
          PROVE  reply'[u] = reply'[v] /\ slaveseldb'[u] = slaveseldb'[v]
      BY <2>2, <2>3, <2>4, <2>5 DEF WaitersInv, WaitersAgree
    <2> QED
      BY <2>1, <2>5 DEF WaitersInv, WaitersAgree
  <1>3. ASSUME bgsave, bgsave', Attach(s, "wait_start", <<>>, {})
        PROVE  WaitersInv'
    BY <1>3
    DEF Attach, States, WaitersInv, LinksTyped, FreshAtStart, WaitersAgree,
        WaitersHaveABgsave
  <1>4. CASE JoinBgsave(s)
    BY <1>2, <1>3, <1>4 DEF JoinBgsave, snapshot
  <1> QED
    BY <1>1, <1>4 DEF SyncCommand

-----------------------------------------------------------------------------
(* The end of a BGSAVE.                                                    *)

\* After updateSlavesWaitingBgsave the slaves that wait are the ones that
\* started waiting now: they hold nothing.
LEMMA UpdateWaiters ==
  ASSUME WaitersInv, NEW err, NEW how, NEW forked \in BOOLEAN,
         UpdateSlavesWaitingBgsave(err, how, forked),
         bgsave' <=> Starting # {} /\ forked,
         forked \/ Starting # {}
  PROVE  WaitersInv'
  <1>1. LinksTyped'
    BY DEF UpdateSlavesWaitingBgsave, States, WaitersInv, LinksTyped, Served, Refused,
           Starting, In
  <1>2. ASSUME NEW s \in Slaves, replstate'[s] \in {"wait_start", "wait_end"}
        PROVE  /\ s \in Starting /\ replstate'[s] = "wait_end"
               /\ reply'[s] = <<>> /\ slaveseldb'[s] = 0
    <2>1. s \in Starting /\ replstate'[s] = "wait_end"
      BY <1>2 DEF UpdateSlavesWaitingBgsave, Served, Starting, In
    <2>2. reply[s] = <<>> /\ slaveseldb[s] = 0 /\ s \notin Refused(err)
      BY <2>1 DEF WaitersInv, FreshAtStart, Starting, Refused, In
    <2> QED
      BY <2>1, <2>2 DEF UpdateSlavesWaitingBgsave
  <1>3. ASSUME ~bgsave', NEW s \in Slaves, replstate'[s] \in {"wait_start", "wait_end"}
        PROVE  doubt'[s] # {}
    <2>1. s \in Starting /\ ~forked
      BY <1>2, <1>3
    <2>2. s \notin Refused(err) /\ s \notin Served(err)
      BY <2>1 DEF Starting, Refused, Served, In
    <2>3. Doubts(s, err, how, forked) = doubt[s] \cup {"refused"}
      BY <2>1, <2>2 DEF Doubts
    <2> QED
      BY <2>3 DEF UpdateSlavesWaitingBgsave
  <1> QED
    BY <1>1, <1>2, <1>3 DEF WaitersInv, FreshAtStart, WaitersAgree, WaitersHaveABgsave

LEMMA DoneWaiters ==
  ASSUME WaitersInv, BackgroundSaveDoneHandler
  PROVE  WaitersInv'
  <1>1. CASE Starting = {} /\ bgsave' = FALSE
             /\ UpdateSlavesWaitingBgsave(child = "error", child, TRUE)
    BY <1>1, UpdateWaiters
  <1>2. CASE Starting # {} /\ Forks
             /\ UpdateSlavesWaitingBgsave(child = "error", child, TRUE)
    BY <1>2, UpdateWaiters DEF Forks
  <1>3. CASE Starting # {} /\ bgsave' = FALSE
             /\ UpdateSlavesWaitingBgsave(child = "error", child, FALSE)
    BY <1>3, UpdateWaiters
  <1> QED
    BY <1>1, <1>2, <1>3 DEF BackgroundSaveDoneHandler

-----------------------------------------------------------------------------
LEMMA NextWaiters == WaitersInv /\ [Next]_vars => WaitersInv'
  <1> SUFFICES ASSUME WaitersInv, [Next]_vars
               PROVE  WaitersInv'
    OBVIOUS
  <1>1. ASSUME NEW s \in Slaves, SendBulkToSlave(s) \/ FreeClient(s)
        PROVE  WaitersInv'
    BY <1>1
    DEF SendBulkToSlave, FreeClient, snapshot, States, WaitersInv, LinksTyped,
        FreshAtStart, WaitersAgree, WaitersHaveABgsave
  <1>2. ASSUME NEW s \in Slaves, SendReplyToClient(s)
        PROVE  WaitersInv'
    <2>1. LinksTyped'
      BY <1>2 DEF SendReplyToClient, WaitersInv, LinksTyped
    <2>2. \A t \in Slaves : replstate[t] \in {"wait_start", "wait_end"}
            => reply'[t] = reply[t]
      BY <1>2 DEF SendReplyToClient, WaitersInv, LinksTyped
    <2> QED
      BY <1>2, <2>1, <2>2
      DEF SendReplyToClient, snapshot, WaitersInv, FreshAtStart, WaitersAgree,
          WaitersHaveABgsave
  <1>3. CASE ChildSaves \/ \E how \in {"error", "killed"} : ChildFails(how)
    BY <1>3, QuietWaiters DEF ChildSaves, ChildFails, links
  <1>4. CASE UNCHANGED vars
    BY <1>4, QuietWaiters DEF vars, links, snapshot
  <1> QED
    BY <1>1, <1>2, <1>3, <1>4, CommandWaiters, SyncWaiters, DoneWaiters DEF Next

\* The slaves that wait for one BGSAVE hold the same list with the same
\* database selected: it does not matter which of them syncCommand copies.
THEOREM WaitersAlwaysAgree == Spec => []WaitersAgree
  <1>1. WaitersInv => WaitersAgree
    BY DEF WaitersInv
  <1> QED
    BY <1>1, InitWaiters, NextWaiters, PTL DEF Spec

\* No slave waits for a BGSAVE that does not exist, but those whose BGSAVE
\* stopAppendOnly has killed or fork has refused.
THEOREM WaitersAlwaysHaveABgsave == Spec => []WaitersHaveABgsave
  <1>1. WaitersInv => WaitersHaveABgsave
    BY DEF WaitersInv
  <1> QED
    BY <1>1, InitWaiters, NextWaiters, PTL DEF Spec

-----------------------------------------------------------------------------
(* What a slave holds after it has run a list of commands.                 *)

State == [data : Dataset, sel : DBs]
Commands == [op : {"select", "incr", "flushall", "save"}, db : DBs]

\* The table FoldLeft computes, over the sets of positions up to n.
Table(f, s, q, n) ==
  f = [S \in SUBSET (1 .. n) |->
         IF S = {} THEN s ELSE Apply(f[S \ {Max(S)}], q[Max(S)])]

LEMMA TableExists ==
  ASSUME NEW s, NEW q, NEW n \in Nat
  PROVE  \E f : Table(f, s, q, n)
  <1> DEFINE P == {k \in Nat : \E f : Table(f, s, q, k)}
  <1>1. 0 \in P
    <2>1. SUBSET (1 .. 0) = {{}}
      OBVIOUS
    <2>2. Table([S \in SUBSET (1 .. 0) |-> s], s, q, 0)
      BY <2>1 DEF Table
    <2> QED
      BY <2>2
  <1>2. ASSUME NEW k \in Nat, k \in P PROVE k + 1 \in P
    <2>1. PICK f : Table(f, s, q, k)
      BY <1>2
    <2> DEFINE g == [S \in SUBSET (1 .. k + 1) |->
                       IF k + 1 \in S THEN Apply(f[S \ {k + 1}], q[k + 1]) ELSE f[S]]
    <2>2. ASSUME NEW S \in SUBSET (1 .. k + 1), S # {}
          PROVE  Max(S) \in S /\ \A i \in S : Max(S) >= i
      <3>1. S \subseteq 0 .. k + 1 /\ k + 1 \in Nat
        OBVIOUS
      <3> QED
        BY <2>2, <3>1, GreatestElement
    <2>3. ASSUME NEW S \in SUBSET (1 .. k + 1)
          PROVE  g[S] = IF S = {} THEN s ELSE Apply(g[S \ {Max(S)}], q[Max(S)])
      <3>1. CASE k + 1 \in S
        <4>1. Max(S) = k + 1
          <5>1. Max(S) \in 1 .. k + 1 /\ Max(S) >= k + 1
            BY <2>2, <3>1
          <5> QED
            BY <5>1
        <4>2. S \ {k + 1} \in SUBSET (1 .. k + 1) /\ k + 1 \notin S \ {k + 1}
          OBVIOUS
        <4>3. g[S \ {k + 1}] = f[S \ {k + 1}]
          BY <4>2
        <4>4. g[S] = Apply(f[S \ {k + 1}], q[k + 1])
          BY <3>1
        <4> QED
          BY <3>1, <4>1, <4>3, <4>4
      <3>2. CASE k + 1 \notin S
        <4>1. S \in SUBSET (1 .. k)
          BY <3>2
        <4>2. f[S] = IF S = {} THEN s ELSE Apply(f[S \ {Max(S)}], q[Max(S)])
          BY <2>1, <4>1 DEF Table
        <4>3. g[S] = f[S] /\ g[S \ {Max(S)}] = f[S \ {Max(S)}]
          BY <3>2
        <4> QED
          BY <4>2, <4>3
      <3> QED
        BY <3>1, <3>2
    <2>4. DOMAIN g = SUBSET (1 .. k + 1) /\ g = [S \in SUBSET (1 .. k + 1) |-> g[S]]
      OBVIOUS
    <2> HIDE DEF g
    <2>5. Table(g, s, q, k + 1)
      BY <2>3, <2>4 DEF Table
    <2> QED
      BY <2>5
  <1>3. Nat \subseteq P
    <2> HIDE DEF P
    <2> QED
      BY <1>1, <1>2, InductiveSet
  <1> QED
    BY <1>3

\* The states a slave goes through.
Runs(g, s, q) ==
  /\ g = [m \in 0 .. Len(q) |-> g[m]]
  /\ g[0] = s
  /\ \A m \in 1 .. Len(q) : g[m] = Apply(g[m - 1], q[m])

LEMMA AfterRuns ==
  ASSUME NEW C, NEW q \in Seq(C), NEW s
  PROVE  \E g : Runs(g, s, q) /\ After(s, q) = g[Len(q)]
  <1> DEFINE n == Len(q)
  <1>1. n \in Nat /\ DOMAIN q = 1 .. n
    OBVIOUS
  <1>2. After(s, q) = (CHOOSE f : Table(f, s, q, n))[1 .. n]
    BY <1>1 DEF After, FoldLeft, MapThenFoldSet, Table
  <1> HIDE DEF n
  <1>3. PICK f : f = (CHOOSE h : Table(h, s, q, n)) /\ Table(f, s, q, n)
    BY <1>1, TableExists
  <1>4. \A S \in SUBSET (1 .. n) :
          f[S] = IF S = {} THEN s ELSE Apply(f[S \ {Max(S)}], q[Max(S)])
    BY <1>3 DEF Table
  <1> DEFINE g == [m \in 0 .. n |-> f[1 .. m]]
  <1>5. g[0] = s
    <2>1. 1 .. 0 = {} /\ {} \in SUBSET (1 .. n) /\ 0 \in 0 .. n
      BY <1>1
    <2> QED
      BY <1>4, <2>1
  <1>6. ASSUME NEW m \in 1 .. n PROVE g[m] = Apply(g[m - 1], q[m])
    <2>1. /\ 1 .. m \in SUBSET (1 .. n) /\ 1 .. m # {} /\ (1 .. m) \ {m} = 1 .. m - 1
          /\ m \in 0 .. n /\ m - 1 \in 0 .. n /\ m \in Nat /\ 1 .. m \subseteq 0 .. m
      <3>1. m \in Nat /\ m >= 1 /\ m <= n /\ m - 1 \in Nat
        BY <1>1
      <3>2. 1 .. m \in SUBSET (1 .. n) /\ m \in 1 .. m /\ 1 .. m \subseteq 0 .. m
        BY <1>1, <3>1
      <3>3. (1 .. m) \ {m} = 1 .. m - 1
        BY <3>1
      <3>4. m \in 0 .. n /\ m - 1 \in 0 .. n
        BY <1>1, <3>1
      <3> QED
        BY <3>1, <3>2, <3>3, <3>4
    <2>2. Max(1 .. m) = m
      <3>1. Max(1 .. m) \in 1 .. m /\ \A i \in 1 .. m : Max(1 .. m) >= i
        BY <2>1, GreatestElement
      <3>2. m \in 1 .. m
        BY <1>1
      <3> QED
        BY <3>1, <3>2
    <2>3. f[1 .. m] = Apply(f[1 .. m - 1], q[m])
      BY <1>4, <2>1, <2>2
    <2> QED
      BY <2>1, <2>3
  <1>7. g = [m \in 0 .. n |-> g[m]] /\ g[n] = f[1 .. n]
    BY <1>1
  <1> HIDE DEF g
  <1> QED
    BY <1>2, <1>3, <1>5, <1>6, <1>7 DEF Runs, n

\* Two runs whose commands are the same from some place on.
Follows(q, a, p, n) == \A m \in 1 .. n : q[a + m] = p[m]

LEMMA RunsAgree ==
  ASSUME NEW g, NEW h, NEW s, NEW t, NEW q, NEW p, Runs(g, s, q), Runs(h, t, p),
         NEW a \in Nat, NEW n \in Nat, Len(q) \in Nat, Len(p) \in Nat,
         a + n <= Len(q), n <= Len(p), g[a] = t, Follows(q, a, p, n)
  PROVE  g[a + n] = h[n]
  <1> DEFINE P == {m \in Nat : m <= n => g[a + m] = h[m]}
  <1>1. 0 \in P
    BY DEF Runs
  <1>2. ASSUME NEW m \in Nat, m \in P PROVE m + 1 \in P
    <2>1. CASE m + 1 <= n
      <3>1. g[a + m] = h[m]
        BY <1>2, <2>1
      <3>2. /\ m + 1 \in 1 .. n /\ m + 1 \in 1 .. Len(p) /\ a + (m + 1) \in 1 .. Len(q)
            /\ (m + 1) - 1 = m /\ (a + (m + 1)) - 1 = a + m
        BY <2>1
      <3>3. g[a + (m + 1)] = Apply(g[a + m], q[a + (m + 1)])
        BY <3>2 DEF Runs
      <3>4. h[m + 1] = Apply(h[m], p[m + 1])
        BY <3>2 DEF Runs
      <3> QED
        BY <3>1, <3>2, <3>3, <3>4 DEF Follows
    <2> QED
      BY <2>1
  <1>3. Nat \subseteq P
    <2> HIDE DEF P
    <2> QED
      BY <1>1, <1>2, InductiveSet
  <1> QED
    BY <1>3

LEMMA AfterNothing == \A s : After(s, <<>>) = s
  <1>1. ASSUME NEW s PROVE After(s, <<>>) = s
    <2>1. <<>> \in Seq(Commands) /\ Len(<<>>) = 0
      OBVIOUS
    <2>2. PICK g : Runs(g, s, <<>>) /\ After(s, <<>>) = g[Len(<<>>)]
      BY <2>1, AfterRuns
    <2> QED
      BY <2>1, <2>2 DEF Runs
  <1> QED
    BY <1>1

LEMMA AfterOneMore ==
  ASSUME NEW C, NEW q \in Seq(C), NEW c \in C, NEW s
  PROVE  After(s, q \o <<c>>) = Apply(After(s, q), c)
  <1> DEFINE n == Len(q)
             all == q \o <<c>>
  <1>1. /\ all \in Seq(C) /\ n \in Nat /\ Len(all) = n + 1 /\ all[n + 1] = c
        /\ \A m \in 1 .. n : all[m] = q[m]
    OBVIOUS
  <1> HIDE DEF all
  <1>2. PICK g : Runs(g, s, all) /\ After(s, all) = g[Len(all)]
    BY <1>1, AfterRuns
  <1>3. PICK h : Runs(h, s, q) /\ After(s, q) = h[Len(q)]
    BY AfterRuns
  <1> HIDE DEF n
  <1>4. g[n] = h[n]
    <2>1. g[0] = s /\ 0 \in Nat /\ 0 + n = n /\ Len(q) = n /\ n <= n /\ n <= n + 1
          /\ \A m \in 1 .. n : 0 + m = m
      BY <1>1, <1>2 DEF Runs, n
    <2>2. Follows(all, 0, q, n)
      BY <1>1, <2>1 DEF Follows
    <2>4. Len(all) \in Nat /\ Len(q) \in Nat /\ 0 + n <= Len(all) /\ n <= Len(q)
      BY <1>1, <2>1
    <2>3. g[0 + n] = h[n]
      BY <2>4, <1>1, <1>2, <1>3, <2>1, <2>2, RunsAgree
    <2> QED
      BY <2>1, <2>3
  <1>5. g[n + 1] = Apply(g[n], c)
    <2>1. n + 1 \in 1 .. Len(all) /\ (n + 1) - 1 = n
      BY <1>1
    <2> QED
      BY <1>1, <1>2, <2>1 DEF Runs
  <1> QED
    BY <1>1, <1>2, <1>3, <1>4, <1>5 DEF all, n

\* Running a list in two parts.
LEMMA AfterInParts ==
  ASSUME NEW C, NEW q \in Seq(C), NEW n \in 0 .. Len(q), NEW s
  PROVE  After(After(s, SubSeq(q, 1, n)), SubSeq(q, n + 1, Len(q))) = After(s, q)
  <1> DEFINE p == SubSeq(q, 1, n)
             r == SubSeq(q, n + 1, Len(q))
             k == Len(q) - n
             mid == After(s, p)
  <1>1. /\ p \in Seq(C) /\ Len(p) = n /\ \A m \in 1 .. n : p[m] = q[m]
        /\ r \in Seq(C) /\ Len(r) = k /\ \A m \in 1 .. k : r[m] = q[n + m]
        /\ n \in Nat /\ k \in Nat /\ n + k = Len(q) /\ Len(q) \in Nat
    <2>1. n \in Nat /\ k \in Nat /\ n + k = Len(q) /\ Len(q) \in Nat
      OBVIOUS
    <2>2. p \in Seq(C) /\ Len(p) = n /\ \A m \in 1 .. n : p[m] = q[m]
      OBVIOUS
    <2>3. r \in Seq(C) /\ Len(r) = k
      OBVIOUS
    <2>4. \A m \in 1 .. k : r[m] = q[n + m]
      OBVIOUS
    <2> QED
      BY <2>1, <2>2, <2>3, <2>4
  <1> HIDE DEF p, r, k
  <1>2. PICK g : Runs(g, s, q) /\ After(s, q) = g[Len(q)]
    BY AfterRuns
  <1>3. PICK h : Runs(h, s, p) /\ After(s, p) = h[Len(p)]
    BY <1>1, AfterRuns
  <1>4. PICK f : Runs(f, mid, r) /\ After(mid, r) = f[Len(r)]
    BY <1>1, AfterRuns
  <1>5. g[n] = mid
    <2>1. g[0] = s /\ 0 \in Nat /\ 0 + n = n /\ n <= Len(q) /\ n <= Len(p)
          /\ \A m \in 1 .. n : 0 + m = m
      BY <1>1, <1>2 DEF Runs
    <2>2. Follows(q, 0, p, n)
      BY <1>1, <2>1 DEF Follows
    <2>4. Len(p) \in Nat /\ Len(q) \in Nat /\ 0 + n <= Len(q) /\ n <= Len(p)
      BY <1>1, <2>1
    <2>3. g[0 + n] = h[n]
      BY <2>4, <1>1, <1>2, <1>3, <2>1, <2>2, RunsAgree
    <2> QED
      BY <1>1, <1>3, <2>1, <2>3
  <1> HIDE DEF mid
  <1>6. g[n + k] = f[k]
    <2>1. n + k <= Len(q) /\ k <= Len(r) /\ Len(r) \in Nat /\ Follows(q, n, r, k)
      BY <1>1 DEF Follows
    <2> QED
      BY <1>1, <1>2, <1>4, <1>5, <2>1, RunsAgree
  <1> QED
    BY <1>1, <1>2, <1>4, <1>6 DEF p, r, mid

LEMMA ApplyTyped ==
  ASSUME NEW s \in State, NEW c \in Commands
  PROVE  /\ Apply(s, c) \in State
         /\ \A t \in State : t.sel = s.sel => Apply(t, c).sel = Apply(s, c).sel
  <1>1. Empty \in Dataset
    BY DEF Empty, Dataset
  <1>2. CASE c.op = "select"
    BY <1>2 DEF Apply, State, Commands
  <1>3. CASE c.op = "incr"
    BY <1>3 DEF Apply, State, Commands, Dataset
  <1>4. CASE c.op = "flushall"
    BY <1>1, <1>4 DEF Apply, State, Commands
  <1>5. CASE c.op = "save"
    BY <1>5 DEF Apply, State, Commands
  <1> QED
    BY <1>2, <1>3, <1>4, <1>5 DEF Commands

\* Which database is selected in the end depends on nothing but which one
\* was selected to begin with.
LEMMA AfterTyped ==
  ASSUME NEW q \in Seq(Commands), NEW s \in State
  PROVE  /\ After(s, q) \in State
         /\ \A t \in State : t.sel = s.sel => After(t, q).sel = After(s, q).sel
  <1> SUFFICES ASSUME NEW t \in State, t.sel = s.sel
               PROVE  After(s, q) \in State /\ After(t, q).sel = After(s, q).sel
    OBVIOUS
  <1>1. PICK g : Runs(g, s, q) /\ After(s, q) = g[Len(q)]
    BY AfterRuns
  <1>2. PICK h : Runs(h, t, q) /\ After(t, q) = h[Len(q)]
    BY AfterRuns
  <1>3. Len(q) \in Nat /\ \A m \in 1 .. Len(q) : q[m] \in Commands
    OBVIOUS
  <1> DEFINE P == {m \in Nat : m <= Len(q) =>
                      g[m] \in State /\ h[m] \in State /\ h[m].sel = g[m].sel}
  <1>4. 0 \in P
    BY <1>1, <1>2 DEF Runs
  <1>5. ASSUME NEW m \in Nat, m \in P PROVE m + 1 \in P
    <2>1. CASE m + 1 <= Len(q)
      <3>1. g[m] \in State /\ h[m] \in State /\ h[m].sel = g[m].sel
        BY <1>3, <1>5, <2>1
      <3>2. m + 1 \in 1 .. Len(q) /\ (m + 1) - 1 = m
        BY <1>3, <2>1
      <3>3. g[m + 1] = Apply(g[m], q[m + 1]) /\ h[m + 1] = Apply(h[m], q[m + 1])
        BY <1>1, <1>2, <3>2 DEF Runs
      <3>4. q[m + 1] \in Commands
        BY <1>3, <3>2
      <3>5. /\ g[m + 1] \in State /\ h[m + 1] \in State
            /\ h[m + 1].sel = g[m + 1].sel
        BY <3>1, <3>3, <3>4, ApplyTyped, SMTT(30)
      <3> QED
        BY <3>5
    <2> QED
      BY <2>1
  <1>6. Nat \subseteq P
    <2> HIDE DEF P
    <2> QED
      BY <1>4, <1>5, InductiveSet
  <1>7. Len(q) \in P
    BY <1>3, <1>6
  <1> QED
    BY <1>1, <1>2, <1>3, <1>7

\* A command with the SELECT that replicationFeedSlaves puts before it.
Lead(sel, db, cmd) == (IF sel = db THEN <<>> ELSE <<Select(db)>>) \o <<cmd>>

LEMMA AfterLead ==
  ASSUME NEW q \in Seq(Commands), NEW s \in State, NEW db \in DBs, NEW cmd \in Commands
  PROVE  /\ q \o Lead(After(s, q).sel, db, cmd) \in Seq(Commands)
         /\ After(s, q \o Lead(After(s, q).sel, db, cmd))
              = Apply([data |-> After(s, q).data, sel |-> db], cmd)
  <1> DEFINE x == After(s, q)
  <1>1. x \in State
    BY AfterTyped
  <1>2. Select(db) \in Commands /\ Select(db).op = "select" /\ Select(db).db = db
    BY DEF Select, Commands
  <1>3. CASE x.sel = db
    <2>1. Lead(x.sel, db, cmd) = <<cmd>>
      BY <1>3 DEF Lead
    <2>2. x = [data |-> x.data, sel |-> db]
      BY <1>1, <1>3 DEF State
    <2>3. q \o <<cmd>> \in Seq(Commands)
      OBVIOUS
    <2>4. After(s, q \o <<cmd>>) = Apply(After(s, q), cmd)
      BY AfterOneMore
    <2> QED
      BY <2>1, <2>2, <2>3, <2>4
  <1>4. CASE x.sel # db
    <2> DEFINE mid == q \o <<Select(db)>>
    <2>1. Lead(x.sel, db, cmd) = <<Select(db)>> \o <<cmd>>
      BY <1>4 DEF Lead
    <2>2. /\ mid \in Seq(Commands) /\ mid \o <<cmd>> \in Seq(Commands)
          /\ q \o (<<Select(db)>> \o <<cmd>>) = mid \o <<cmd>>
      <3> DEFINE a == <<Select(db)>>
                 b == <<cmd>>
      <3>1. a \in Seq(Commands) /\ b \in Seq(Commands)
        BY <1>2
      <3> HIDE DEF a, b
      <3>2. q \o a \in Seq(Commands) /\ (q \o a) \o b = q \o (a \o b)
        BY <3>1, ConcatProperties, ConcatAssociative
      <3>3. (q \o a) \o b \in Seq(Commands)
        BY <3>1, <3>2, ConcatProperties
      <3> QED
        BY <3>2, <3>3 DEF a, b
    <2>3. After(s, mid) = Apply(x, Select(db))
      BY <1>2, AfterOneMore
    <2>4. Apply(x, Select(db)) = [data |-> x.data, sel |-> db]
      BY <1>1, <1>2 DEF Apply, State
    <2> HIDE DEF mid, x
    <2>5. After(s, mid \o <<cmd>>) = Apply(After(s, mid), cmd)
      BY <2>2, AfterOneMore
    <2> QED
      BY <2>1, <2>2, <2>3, <2>4, <2>5 DEF x
  <1> QED
    BY <1>3, <1>4

-----------------------------------------------------------------------------
(* Exact copies.                                                           *)

CopiesTyped ==
  /\ data \in Dataset /\ image \in Dataset /\ disk \in Dataset \cup {NoDump}
  /\ child = "ok" => disk \in Dataset
  /\ reply \in [Slaves -> Seq(Commands)]
  /\ slaveseldb \in [Slaves -> DBs]
  /\ copy \in [Slaves -> State]

\* Between the end of the child and serverCron the dump on disk may already be
\* another one, FLUSHALL's: with what waits to be sent it is as good.
DumpExact ==
  bgsave /\ child = "ok" =>
    \A s \in Slaves : replstate[s] = "wait_end" /\ doubt[s] = {} =>
      After(Loaded(disk), reply[s]) = [data |-> data, sel |-> slaveseldb[s]]

CopiesInv == WaitersInv /\ CopiesTyped /\ ExactUnlessInDoubt /\ DumpExact

LEMMA LoadedTyped == \A d \in Dataset : Loaded(d) \in State /\ Loaded(d).sel = 0
  BY DBsAssumption DEF Loaded, State

LEMMA EmptyTyped == Empty \in Dataset
  BY DEF Empty, Dataset

LEMMA InitCopies == Init => CopiesInv
  <1> SUFFICES ASSUME Init PROVE CopiesInv
    OBVIOUS
  <1>1. <<>> \in Seq(Commands)
    OBVIOUS
  <1>2. CopiesTyped
    BY <1>1, EmptyTyped, LoadedTyped, DBsAssumption DEF Init, CopiesTyped
  <1>3. ExactUnlessInDoubt /\ DumpExact
    BY DEF Init, ExactUnlessInDoubt, DumpExact
  <1> QED
    BY <1>2, <1>3, InitWaiters DEF CopiesInv

\* One more command for every slave that is fed: the slaves that had the
\* dataset have the new one, with the database of the command selected.
LEMMA FeedCopies ==
  ASSUME CopiesTyped, NEW db \in DBs, NEW cmd \in Commands, Feed(db, cmd)
  PROVE  /\ reply' \in [Slaves -> Seq(Commands)] /\ slaveseldb' \in [Slaves -> DBs]
         /\ \A s \in Slaves \ Fed : reply'[s] = reply[s] /\ slaveseldb'[s] = slaveseldb[s]
         /\ \A s \in Fed, x \in State :
              After(x, reply[s]).sel = slaveseldb[s]
              => After(x, reply'[s])
                   = Apply([data |-> After(x, reply[s]).data, sel |-> db], cmd)
         /\ \A s \in Fed : slaveseldb'[s] = db
  <1>1. Fed \subseteq Slaves
    BY DEF Fed, In
  <1>2. \A s \in Slaves : Addressed(s, db, cmd) = Lead(slaveseldb[s], db, cmd)
    BY DEF Addressed, Lead
  <1>3. ASSUME NEW s \in Slaves
        PROVE  reply[s] \o Lead(slaveseldb[s], db, cmd) \in Seq(Commands)
    <2>1. Select(db) \in Commands
      BY DEF Select, Commands
    <2>2. Lead(slaveseldb[s], db, cmd) \in Seq(Commands)
      <3>1. <<cmd>> \in Seq(Commands) /\ <<Select(db)>> \in Seq(Commands)
            /\ <<>> \in Seq(Commands)
        BY <2>1
      <3> QED
        BY <3>1, ConcatProperties DEF Lead
    <2>3. reply[s] \in Seq(Commands)
      BY DEF CopiesTyped
    <2> QED
      BY <2>2, <2>3, ConcatProperties
  <1>4. reply' \in [Slaves -> Seq(Commands)]
    BY <1>2, <1>3 DEF Feed, CopiesTyped
  <1>5. slaveseldb' \in [Slaves -> DBs]
    BY DEF Feed, CopiesTyped
  <1>6. /\ \A s \in Slaves \ Fed : reply'[s] = reply[s] /\ slaveseldb'[s] = slaveseldb[s]
        /\ \A s \in Fed : /\ reply'[s] = reply[s] \o Lead(slaveseldb[s], db, cmd)
                          /\ slaveseldb'[s] = db
    BY <1>1, <1>2 DEF Feed
  <1>7. ASSUME NEW s \in Fed, NEW x \in State, After(x, reply[s]).sel = slaveseldb[s]
        PROVE  After(x, reply'[s])
                 = Apply([data |-> After(x, reply[s]).data, sel |-> db], cmd)
    <2> DEFINE q == reply[s]
    <2>1. q \in Seq(Commands)
      BY <1>1 DEF CopiesTyped
    <2> HIDE DEF q
    <2>2. After(x, q \o Lead(After(x, q).sel, db, cmd))
            = Apply([data |-> After(x, q).data, sel |-> db], cmd)
      BY <2>1, AfterLead
    <2> QED
      BY <1>6, <1>7, <2>2 DEF q
  <1> QED
    BY <1>4, <1>5, <1>6, <1>7

\* The same for what the slaves that are exact have; `disk' may be replaced by
\* a dump with which the list ends in the same dataset.
LEMMA FedExact ==
  ASSUME CopiesInv, NEW db \in DBs, NEW cmd \in Commands, Feed(db, cmd),
         data' \in Dataset, disk' \in Dataset \cup {NoDump},
         Apply([data |-> data, sel |-> db], cmd) = [data |-> data', sel |-> db],
         \/ disk' = disk
         \/ ~bgsave /\ disk' \in Dataset
         \/ /\ disk' \in Dataset
            /\ \A d \in Dataset : Apply([data |-> d, sel |-> db], cmd)
                                    = [data |-> data', sel |-> db],
         child' \in {child, "killed"}, child' = "killed" => child \in {"running", "killed"},
         UNCHANGED <<image, bgsave, replstate, copy, doubt>>, WaitersInv'
  PROVE  CopiesInv'
  <1>1. CopiesTyped
    BY DEF CopiesInv
  <1>2. /\ reply' \in [Slaves -> Seq(Commands)] /\ slaveseldb' \in [Slaves -> DBs]
        /\ \A s \in Fed, x \in State :
             After(x, reply[s]).sel = slaveseldb[s]
             => After(x, reply'[s])
                  = Apply([data |-> After(x, reply[s]).data, sel |-> db], cmd)
        /\ \A s \in Fed : slaveseldb'[s] = db
    BY <1>1, FeedCopies
  <1>3. CopiesTyped'
    BY <1>1, <1>2 DEF CopiesTyped
  <1>4. Fed = {s \in Slaves : replstate[s] \in {"wait_end", "send_bulk", "online"}}
    BY DEF Fed, In
  <1>5. ASSUME NEW s \in Fed, NEW x \in State,
               After(x, reply[s]) = [data |-> data, sel |-> slaveseldb[s]]
        PROVE  After(x, reply'[s]) = [data |-> data', sel |-> slaveseldb'[s]]
    <2>1. After(x, reply[s]).data = data /\ After(x, reply[s]).sel = slaveseldb[s]
      BY <1>5
    <2> QED
      BY <1>2, <2>1
  <1>6. \A s \in Slaves : copy[s] \in State
    BY <1>1 DEF CopiesTyped
  <1>7. Loaded(image) \in State
    BY <1>1, LoadedTyped DEF CopiesTyped
  <1>8. ExactUnlessInDoubt'
    <2>1. ASSUME NEW s \in Slaves, doubt[s] = {}, replstate[s] \in {"send_bulk", "online"}
          PROVE  After(copy[s], reply'[s]) = [data |-> data', sel |-> slaveseldb'[s]]
      <3>1. Exact(s) /\ s \in Fed
        BY <1>4, <2>1 DEF CopiesInv, ExactUnlessInDoubt
      <3> QED
        BY <1>5, <1>6, <3>1 DEF Exact
    <2>2. ASSUME NEW s \in Slaves, doubt[s] = {}, replstate[s] = "wait_end",
                 bgsave, child' # "error"
          PROVE  After(Loaded(image), reply'[s]) = [data |-> data', sel |-> slaveseldb'[s]]
      <3>1. WillBeExact(s) /\ s \in Fed /\ child # "error"
        BY <1>4, <2>2 DEF CopiesInv, ExactUnlessInDoubt
      <3> QED
        BY <1>5, <1>7, <2>2, <3>1 DEF WillBeExact
    <2> QED
      BY <2>1, <2>2 DEF ExactUnlessInDoubt, Exact, WillBeExact
  <1>9. DumpExact'
    <2>1. ASSUME NEW s \in Slaves, doubt[s] = {}, replstate[s] = "wait_end",
                 bgsave, child' = "ok"
          PROVE  After(Loaded(disk'), reply'[s]) = [data |-> data', sel |-> slaveseldb'[s]]
      <3>1. s \in Fed /\ child = "ok"
        BY <1>4, <2>1
      <3>2. CASE disk' = disk /\ disk \in Dataset
        <4>1. After(Loaded(disk), reply[s]) = [data |-> data, sel |-> slaveseldb[s]]
          BY <2>1, <3>1 DEF CopiesInv, DumpExact
        <4>2. Loaded(disk) \in State
          BY <3>2, LoadedTyped
        <4> QED
          BY <1>5, <3>1, <3>2, <4>1, <4>2
      <3>3. CASE /\ disk' \in Dataset
                 /\ \A d \in Dataset : Apply([data |-> d, sel |-> db], cmd)
                                         = [data |-> data', sel |-> db]
        <4>1. After(Loaded(image), reply[s]) = [data |-> data, sel |-> slaveseldb[s]]
          BY <2>1, <3>1 DEF CopiesInv, ExactUnlessInDoubt, WillBeExact
        <4>2. Loaded(disk') \in State /\ Loaded(disk').sel = Loaded(image).sel
              /\ reply[s] \in Seq(Commands)
          BY <1>1, <3>3, LoadedTyped DEF CopiesTyped
        <4>3. After(Loaded(disk'), reply[s]).sel = slaveseldb[s]
              /\ After(Loaded(disk'), reply[s]) \in State
          BY <1>7, <4>1, <4>2, AfterTyped
        <4>4. After(Loaded(disk'), reply[s]).data \in Dataset
          BY <4>3 DEF State
        <4> QED
          BY <1>2, <3>1, <3>3, <4>2, <4>3, <4>4
      <3> QED
        BY <1>1, <2>1, <3>1, <3>2, <3>3 DEF CopiesTyped
    <2> QED
      BY <2>1 DEF DumpExact
  <1> QED
    BY <1>3, <1>8, <1>9 DEF CopiesInv

LEMMA WriteCopies ==
  ASSUME CopiesInv, NEW db \in DBs, Write(db), WaitersInv'
  PROVE  CopiesInv'
  <1>1. data \in Dataset /\ data' = [data EXCEPT ![db] = @ + 1] /\ Feed(db, Incr)
        /\ UNCHANGED <<disk, child, image, bgsave, replstate, copy, doubt>>
    BY DEF CopiesInv, CopiesTyped, Write, snapshot
  <1>2. Incr \in Commands /\ Incr.op = "incr"
    BY DBsAssumption DEF Incr, Commands
  <1>3. Apply([data |-> data, sel |-> db], Incr) = [data |-> data', sel |-> db]
    BY <1>1, <1>2 DEF Apply
  <1>4. data' \in Dataset /\ disk' \in Dataset \cup {NoDump}
    BY <1>1 DEF Dataset, CopiesInv, CopiesTyped
  <1> QED
    BY <1>1, <1>2, <1>3, <1>4, FedExact

\* In doubt, a slave is out of what is claimed.
LEMMA DoubtCopies ==
  ASSUME CopiesInv, WaitersInv', CopiesTyped',
         \A s \in Slaves : doubt'[s] = {} =>
           doubt[s] = {} /\ replstate[s] \notin {"wait_end", "send_bulk", "online"},
         replstate' = replstate
  PROVE  CopiesInv'
  BY DEF CopiesInv, ExactUnlessInDoubt, DumpExact

LEMMA FlushallCopies ==
  ASSUME CopiesInv, NEW db \in DBs, FlushallCommand(db), WaitersInv'
  PROVE  CopiesInv'
  <1>1. /\ data' = Empty /\ disk' \in {disk, Empty}
        /\ child' = (IF child = "running" THEN "killed" ELSE child)
        /\ UNCHANGED <<image, bgsave, replstate, copy>>
    BY DEF FlushallCommand
  <1>2. CopiesTyped
    BY DEF CopiesInv
  <1>3. CASE dirty' # dirty
    <2>1. Feed(db, Flushall) /\ UNCHANGED doubt
      BY <1>3 DEF FlushallCommand
    <2>2. Flushall \in Commands /\ Flushall.op = "flushall"
      BY DBsAssumption DEF Flushall, Commands
    <2>3. \A d \in Dataset : Apply([data |-> d, sel |-> db], Flushall)
                              = [data |-> data', sel |-> db]
      BY <1>1, <2>2 DEF Apply
    <2>4. /\ data' \in Dataset /\ disk' \in Dataset \cup {NoDump} /\ data \in Dataset
          /\ disk' = disk \/ disk' \in Dataset
      BY <1>1, <1>2, EmptyTyped DEF CopiesTyped
    <2> QED
      BY <1>1, <2>1, <2>2, <2>3, <2>4, FedExact
  <1>4. CASE dirty' = dirty
    <2>1. /\ doubt' = [s \in Slaves |->
                        IF s \in Fed THEN doubt[s] \cup {"flushall"} ELSE doubt[s]]
          /\ UNCHANGED <<reply, slaveseldb>>
      BY <1>4 DEF FlushallCommand
    <2>2. CopiesTyped'
      BY <1>1, <1>2, <2>1, EmptyTyped DEF CopiesTyped
    <2>3. \A s \in Slaves : doubt'[s] = {} =>
            doubt[s] = {} /\ replstate[s] \notin {"wait_end", "send_bulk", "online"}
      BY <2>1 DEF Fed, In
    <2> QED
      BY <1>1, <2>2, <2>3, DoubtCopies
  <1> QED
    BY <1>3, <1>4

LEMMA SaveCopies ==
  ASSUME CopiesInv, NEW db \in DBs, SaveCommand(db), WaitersInv'
  PROVE  CopiesInv'
  <1>1. /\ disk' = data /\ ~bgsave
        /\ UNCHANGED <<data, bgsave, child, image, replstate, copy, doubt>>
    BY DEF SaveCommand
  <1>2. CopiesTyped /\ data \in Dataset
    BY DEF CopiesInv, CopiesTyped
  <1>3. CASE dirty # 0
    <2>1. Feed(db, Save)
      BY <1>3 DEF SaveCommand
    <2>2. Save \in Commands /\ Save.op = "save"
      BY DBsAssumption DEF Save, Commands
    <2>3. Apply([data |-> data, sel |-> db], Save) = [data |-> data', sel |-> db]
      BY <1>1, <2>2 DEF Apply
    <2> QED
      BY <1>1, <1>2, <2>1, <2>2, <2>3, FedExact
  <1>4. CASE dirty = 0
    <2>1. UNCHANGED <<reply, slaveseldb>>
      BY <1>4 DEF SaveCommand
    <2>2. CopiesTyped'
      BY <1>1, <1>2, <2>1 DEF CopiesTyped
    <2>3. ExactUnlessInDoubt' /\ DumpExact'
      BY <1>1, <2>1 DEF CopiesInv, ExactUnlessInDoubt, Exact, WillBeExact, DumpExact
    <2> QED
      BY <2>2, <2>3 DEF CopiesInv
  <1> QED
    BY <1>3, <1>4

LEMMA BgsaveCopies ==
  ASSUME CopiesInv, BgsaveCommand, WaitersInv'
  PROVE  CopiesInv'
  <1>1. /\ ~bgsave /\ bgsave' = TRUE /\ child' = "running" /\ image' = data
        /\ UNCHANGED <<data, disk, replstate, reply, slaveseldb, copy, doubt>>
    BY DEF BgsaveCommand, Forks, links
  <1>2. CopiesTyped'
    BY <1>1 DEF CopiesInv, CopiesTyped
  <1>3. \A s \in Slaves : replstate[s] = "wait_end" => doubt[s] # {}
    BY <1>1 DEF CopiesInv, WaitersInv, WaitersHaveABgsave
  <1>4. ExactUnlessInDoubt'
    BY <1>1, <1>3 DEF CopiesInv, ExactUnlessInDoubt, Exact
  <1> QED
    BY <1>1, <1>2, <1>4 DEF CopiesInv, DumpExact

LEMMA StopCopies ==
  ASSUME CopiesInv, StopAppendOnly, WaitersInv'
  PROVE  CopiesInv'
  <1>1. /\ bgsave' = FALSE /\ child' = "none"
        /\ \A s \in Slaves : doubt'[s] = {} => doubt[s] = {}
        /\ UNCHANGED <<data, disk, image, replstate, reply, slaveseldb, copy>>
    BY DEF StopAppendOnly
  <1>2. CopiesTyped'
    BY <1>1 DEF CopiesInv, CopiesTyped
  <1> QED
    BY <1>1, <1>2 DEF CopiesInv, ExactUnlessInDoubt, Exact, WillBeExact, DumpExact

LEMMA CommandCopies ==
  ASSUME CopiesInv, Command, WaitersInv'
  PROVE  CopiesInv'
  BY WriteCopies, FlushallCopies, SaveCopies, BgsaveCopies, StopCopies DEF Command, AutoSave

\* SYNC: a new BGSAVE holds the dataset as it is, and a slave that joins one
\* has what the slave it copies has.
LEMMA AttachTyped ==
  ASSUME CopiesTyped, NEW s \in Slaves, NEW state, NEW buf \in Seq(Commands), NEW why,
         Attach(s, state, buf, why), LinksTyped
  PROVE  /\ reply' \in [Slaves -> Seq(Commands)] /\ slaveseldb' \in [Slaves -> DBs]
         /\ copy' \in [Slaves -> State]
         /\ replstate'[s] = state /\ doubt'[s] = why
         /\ reply'[s] = buf /\ slaveseldb'[s] = 0
         /\ \A t \in Slaves \ {s} :
              /\ replstate'[t] = replstate[t] /\ doubt'[t] = doubt[t]
              /\ reply'[t] = reply[t] /\ slaveseldb'[t] = slaveseldb[t]
              /\ copy'[t] = copy[t]
  <1>1. Loaded(Empty) \in State /\ 0 \in DBs
    BY EmptyTyped, LoadedTyped, DBsAssumption
  <1>2. reply' \in [Slaves -> Seq(Commands)] /\ slaveseldb' \in [Slaves -> DBs]
        /\ copy' \in [Slaves -> State]
    BY <1>1 DEF Attach, CopiesTyped
  <1>3. /\ replstate'[s] = state /\ doubt'[s] = why
        /\ reply'[s] = buf /\ slaveseldb'[s] = 0
    BY DEF Attach, CopiesTyped, LinksTyped
  <1>4. \A t \in Slaves \ {s} :
              /\ replstate'[t] = replstate[t] /\ doubt'[t] = doubt[t]
              /\ reply'[t] = reply[t] /\ slaveseldb'[t] = slaveseldb[t]
              /\ copy'[t] = copy[t]
    BY DEF Attach, CopiesTyped, LinksTyped
  <1> QED
    BY <1>2, <1>3, <1>4

LEMMA SyncCopies ==
  ASSUME CopiesInv, NEW s \in Slaves, SyncCommand(s), WaitersInv'
  PROVE  CopiesInv'
  <1>1. CopiesTyped /\ LinksTyped /\ <<>> \in Seq(Commands) /\ data' = data
    BY DEF CopiesInv, WaitersInv, SyncCommand
  <1>2. CASE StartBgsave(s)
    <2>1. /\ ~bgsave /\ bgsave' = TRUE /\ child' = "running" /\ image' = data
          /\ disk' = disk /\ Attach(s, "wait_end", <<>>, {})
      BY <1>2 DEF StartBgsave, Forks
    <2>2. CopiesTyped'
      BY <1>1, <2>1, AttachTyped DEF CopiesTyped
    <2>3. After(Loaded(image'), reply'[s]) = [data |-> data', sel |-> slaveseldb'[s]]
      <3>1. reply'[s] = <<>> /\ slaveseldb'[s] = 0
        BY <1>1, <2>1, AttachTyped
      <3> QED
        BY <1>1, <2>1, <3>1, AfterNothing, Zenon DEF Loaded
    <2>4. \A t \in Slaves : replstate[t] = "wait_end" => doubt[t] # {}
      BY <2>1 DEF CopiesInv, WaitersInv, WaitersHaveABgsave
    <2>5. ASSUME NEW t \in Slaves, doubt'[t] = {}
          PROVE  /\ replstate'[t] \in {"send_bulk", "online"} => Exact(t)'
                 /\ replstate'[t] = "wait_end" => WillBeExact(t)'
      <3>1. CASE t = s
        <4>1. replstate'[s] = "wait_end"
          BY <1>1, <2>1, AttachTyped
        <4> QED
          BY <2>3, <3>1, <4>1 DEF WillBeExact
      <3>2. CASE t # s
        <4>1. /\ replstate'[t] = replstate[t] /\ doubt[t] = {}
              /\ reply'[t] = reply[t] /\ slaveseldb'[t] = slaveseldb[t]
              /\ copy'[t] = copy[t]
          BY <1>1, <2>1, <2>5, <3>2, AttachTyped, ZenonT(30)
        <4> QED
          BY <1>1, <2>4, <4>1 DEF CopiesInv, ExactUnlessInDoubt, Exact
      <3> QED
        BY <3>1, <3>2
    <2>6. ExactUnlessInDoubt' /\ DumpExact'
      BY <2>1, <2>5 DEF ExactUnlessInDoubt, DumpExact
    <2> QED
      BY <2>2, <2>6 DEF CopiesInv
  <1>3. CASE JoinBgsave(s)
    <2>1. bgsave /\ UNCHANGED <<disk, bgsave, child, image>>
      BY <1>3 DEF JoinBgsave, snapshot
    <2>2. ASSUME NEW state, NEW buf \in Seq(Commands), NEW why, Attach(s, state, buf, why),
                 \/ state = "wait_start"
                 \/ /\ state = "wait_end"
                    /\ why = {} =>
                         \E t \in Slaves : /\ replstate[t] = "wait_end" /\ doubt[t] = {}
                                           /\ buf = reply[t] /\ slaveseldb[t] = 0
          PROVE  CopiesInv'
      <3>1. CopiesTyped'
        BY <1>1, <2>1, <2>2, AttachTyped DEF CopiesTyped
      <3>2. ASSUME NEW t \in Slaves, doubt'[t] = {}
            PROVE  /\ replstate'[t] \in {"send_bulk", "online"} => Exact(t)'
                   /\ replstate'[t] = "wait_end" => WillBeExact(t)'
                   /\ replstate'[t] = "wait_end" /\ child = "ok" =>
                        After(Loaded(disk), reply'[t]) = [data |-> data, sel |-> slaveseldb'[t]]
        <4>1. CASE t = s
          <5>1. replstate'[s] = state /\ doubt'[s] = why /\ reply'[s] = buf /\ slaveseldb'[s] = 0
            BY <1>1, <2>2 DEF Attach, CopiesTyped, LinksTyped
          <5>2. CASE state = "wait_end"
            <6>1. PICK u \in Slaves : /\ replstate[u] = "wait_end" /\ doubt[u] = {}
                                      /\ buf = reply[u] /\ slaveseldb[u] = 0
              BY <2>2, <3>2, <4>1, <5>1, <5>2
            <6>2. WillBeExact(u)
                  /\ (child = "ok" => After(Loaded(disk), reply[u])
                                       = [data |-> data, sel |-> slaveseldb[u]])
              BY <2>1, <6>1 DEF CopiesInv, ExactUnlessInDoubt, DumpExact
            <6> QED
              BY <1>1, <2>1, <4>1, <5>1, <5>2, <6>1, <6>2 DEF WillBeExact
          <5>3. CASE state = "wait_start"
            BY <4>1, <5>1, <5>3
          <5> QED
            BY <2>2, <5>2, <5>3
        <4>2. CASE t # s
          <5>1. /\ replstate'[t] = replstate[t] /\ doubt[t] = {}
                /\ reply'[t] = reply[t] /\ slaveseldb'[t] = slaveseldb[t]
                /\ copy'[t] = copy[t]
            BY <1>1, <2>2, <3>2, <4>2 DEF Attach, CopiesTyped, LinksTyped
          <5> QED
            BY <1>1, <2>1, <5>1
            DEF CopiesInv, ExactUnlessInDoubt, Exact, WillBeExact, DumpExact
        <4> QED
          BY <4>1, <4>2
      <3>3. ExactUnlessInDoubt' /\ DumpExact'
        BY <1>1, <2>1, <3>2 DEF ExactUnlessInDoubt, DumpExact
      <3> QED
        BY <3>1, <3>3 DEF CopiesInv
    <2>3. ASSUME NEW t \in Slaves, FirstWaiting(t),
                 Attach(s, "wait_end", reply[t], doubt[t] \cup Copied(t))
          PROVE  CopiesInv'
      <3>1. replstate[t] = "wait_end" /\ reply[t] \in Seq(Commands)
        BY <1>1, <2>3 DEF FirstWaiting, CopiesTyped
      <3>2. doubt[t] \cup Copied(t) = {} => doubt[t] = {} /\ slaveseldb[t] = 0
        BY DEF Copied
      <3> QED
        BY <2>2, <2>3, <3>1, <3>2
    <2>4. CASE Attach(s, "wait_start", <<>>, {})
      BY <1>1, <2>2, <2>4
    <2> QED
      BY <1>3, <2>3, <2>4 DEF JoinBgsave
  <1> QED
    BY <1>2, <1>3 DEF SyncCommand

-----------------------------------------------------------------------------
(* The child, serverCron, and sending.                                     *)

LEMMA ChildCopies ==
  ASSUME CopiesInv, WaitersInv', ChildSaves \/ \E how \in {"error", "killed"} : ChildFails(how)
  PROVE  CopiesInv'
  <1>1. /\ child = "running" /\ child' \in {"ok", "error", "killed"}
        /\ child' = "ok" => disk' = image
        /\ disk' \in {disk, image}
        /\ UNCHANGED <<data, bgsave, image, replstate, reply, slaveseldb, copy, doubt>>
    BY DEF ChildSaves, ChildFails, links
  <1>2. CopiesTyped'
    BY <1>1 DEF CopiesInv, CopiesTyped
  <1>3. ExactUnlessInDoubt' /\ DumpExact'
    BY <1>1 DEF CopiesInv, ExactUnlessInDoubt, Exact, WillBeExact, DumpExact
  <1> QED
    BY <1>2, <1>3 DEF CopiesInv

LEMMA UpdateCopies ==
  ASSUME CopiesInv, WaitersInv', bgsave, child \in {"ok", "error", "killed"},
         NEW forked \in BOOLEAN,
         UpdateSlavesWaitingBgsave(child = "error", child, forked),
         \/ bgsave' = FALSE /\ child' = "none" /\ image' = image
         \/ bgsave' = TRUE /\ child' = "running" /\ image' = data,
         UNCHANGED <<data, disk>>
  PROVE  CopiesInv'
  <1> DEFINE err == child = "error"
  <1>1. CopiesTyped /\ WaitersInv
    BY DEF CopiesInv
  <1>2. /\ reply' = [s \in Slaves |-> IF s \in Refused(err) THEN <<>> ELSE reply[s]]
        /\ copy' = [s \in Slaves |-> IF s \in Served(err) THEN Loaded(disk) ELSE copy[s]]
        /\ slaveseldb' = slaveseldb
        /\ \A s \in Slaves : doubt'[s] = Doubts(s, err, child, forked)
    BY DEF UpdateSlavesWaitingBgsave
  <1>3. ASSUME NEW s \in Slaves
        PROVE  replstate'[s] = CASE s \in Starting -> "wait_end"
                                 [] s \in Served(err) -> "send_bulk"
                                 [] s \in Refused(err) -> "gone"
                                 [] OTHER -> replstate[s]
    BY DEF UpdateSlavesWaitingBgsave
  <1>4. \A s \in Served(err) : s \in Slaves /\ replstate[s] = "wait_end" /\ disk \in Dataset
                               /\ ~err /\ s \notin Refused(err)
    BY <1>1 DEF Served, Refused, In, CopiesTyped
  <1>5. \A s \in Slaves : s \in Starting <=> replstate[s] = "wait_start"
    BY DEF Starting, In
  <1>6. \A s \in Slaves : s \in Refused(err) => replstate[s] = "wait_end"
    BY DEF Refused, In
  <1>13. \A s \in Slaves : replstate[s] = "wait_end" => s \in Served(err) \cup Refused(err)
    BY DEF Served, In
  <1> HIDE DEF err
  <1>7. CopiesTyped'
    <2>1. <<>> \in Seq(Commands)
      OBVIOUS
    <2>2. reply' \in [Slaves -> Seq(Commands)]
      BY <1>1, <1>2, <2>1 DEF CopiesTyped
    <2>3. copy' \in [Slaves -> State]
      BY <1>1, <1>2, <1>4, LoadedTyped DEF CopiesTyped
    <2>4. data' \in Dataset /\ image' \in Dataset /\ disk' \in Dataset \cup {NoDump}
          /\ child' # "ok" /\ slaveseldb' \in [Slaves -> DBs]
      BY <1>1, <1>2 DEF CopiesTyped
    <2> QED
      BY <2>2, <2>3, <2>4 DEF CopiesTyped
  <1>8. ASSUME NEW s \in Served(err), doubt'[s] = {}
        PROVE  After(copy'[s], reply'[s]) = [data |-> data', sel |-> slaveseldb'[s]]
    <2>1. /\ s \in Slaves /\ replstate[s] = "wait_end" /\ ~err /\ s \notin Refused(err)
          /\ s \notin Starting
      BY <1>4, <1>5
    <2>2. child # "killed" /\ doubt[s] = {}
      BY <1>2, <1>8, <2>1 DEF Doubts
    <2>3. child = "ok"
      BY <2>1, <2>2 DEF err
    <2>4. After(Loaded(disk), reply[s]) = [data |-> data, sel |-> slaveseldb[s]]
      BY <2>1, <2>2, <2>3 DEF CopiesInv, DumpExact
    <2> QED
      BY <1>2, <2>1, <2>4
  <1>9. ASSUME NEW s \in Slaves, replstate'[s] = "wait_end", bgsave'
        PROVE  After(Loaded(image'), reply'[s]) = [data |-> data', sel |-> slaveseldb'[s]]
    <2>1. s \in Starting
      BY <1>3, <1>9, <1>13
    <2>2. /\ replstate[s] = "wait_start" /\ s \notin Refused(err)
          /\ reply[s] = <<>> /\ slaveseldb[s] = 0
      BY <1>1, <1>5, <1>6, <2>1 DEF WaitersInv, FreshAtStart
    <2>3. reply'[s] = <<>> /\ slaveseldb'[s] = 0 /\ image' = data
      BY <1>2, <1>9, <2>2
    <2> QED
      BY <2>3, AfterNothing DEF Loaded
  <1>10. ASSUME NEW s \in Slaves, replstate'[s] \in {"send_bulk", "online"}, doubt'[s] = {},
                s \notin Served(err)
         PROVE  After(copy'[s], reply'[s]) = [data |-> data', sel |-> slaveseldb'[s]]
    <2>1. /\ s \notin Starting /\ s \notin Refused(err)
          /\ replstate[s] \in {"send_bulk", "online"}
      BY <1>3, <1>10
    <2>2. doubt[s] = {}
      BY <1>2, <1>10, <2>1 DEF Doubts
    <2>3. Exact(s)
      BY <2>1, <2>2 DEF CopiesInv, ExactUnlessInDoubt
    <2> QED
      BY <1>2, <1>10, <2>1, <2>3 DEF Exact
  <1>11. ExactUnlessInDoubt'
    BY <1>8, <1>9, <1>10 DEF ExactUnlessInDoubt, Exact, WillBeExact
  <1>12. DumpExact'
    BY DEF DumpExact
  <1> QED
    BY <1>7, <1>11, <1>12 DEF CopiesInv

LEMMA DoneCopies ==
  ASSUME CopiesInv, WaitersInv', BackgroundSaveDoneHandler
  PROVE  CopiesInv'
  BY UpdateCopies DEF BackgroundSaveDoneHandler, Forks

LEMMA SendCopies ==
  ASSUME CopiesInv, WaitersInv', NEW s \in Slaves,
         SendBulkToSlave(s) \/ SendReplyToClient(s) \/ FreeClient(s)
  PROVE  CopiesInv'
  <1>1. CopiesTyped /\ LinksTyped
    BY DEF CopiesInv, WaitersInv
  <1>2. UNCHANGED <<data, disk, bgsave, child, image, slaveseldb>>
    BY DEF SendBulkToSlave, SendReplyToClient, FreeClient, snapshot
  <1>3. CASE SendBulkToSlave(s)
    <2>1. /\ replstate[s] = "send_bulk" /\ replstate' = [replstate EXCEPT ![s] = "online"]
          /\ UNCHANGED <<reply, copy, doubt>>
      BY <1>3 DEF SendBulkToSlave
    <2>2. CopiesTyped'
      BY <1>1, <1>2, <2>1 DEF CopiesTyped
    <2>3. \A t \in Slaves : \/ replstate'[t] = replstate[t]
                            \/ replstate'[t] = "online" /\ replstate[t] = "send_bulk"
      BY <1>1, <2>1 DEF LinksTyped
    <2> QED
      BY <1>2, <2>1, <2>2, <2>3
      DEF CopiesInv, ExactUnlessInDoubt, Exact, WillBeExact, DumpExact
  <1>4. CASE FreeClient(s)
    <2>1. /\ replstate' = [replstate EXCEPT ![s] = "gone"]
          /\ reply' = [reply EXCEPT ![s] = <<>>]
          /\ doubt' = [doubt EXCEPT ![s] = {}] /\ copy' = copy
      BY <1>4 DEF FreeClient
    <2>2. <<>> \in Seq(Commands)
      OBVIOUS
    <2>3. CopiesTyped'
      BY <1>1, <1>2, <2>1, <2>2 DEF CopiesTyped
    <2>4. \A t \in Slaves : \/ replstate'[t] = "gone"
                            \/ /\ replstate'[t] = replstate[t] /\ reply'[t] = reply[t]
                               /\ doubt'[t] = doubt[t]
      BY <1>1, <2>1 DEF LinksTyped
    <2> QED
      BY <1>2, <2>1, <2>3, <2>4
      DEF CopiesInv, ExactUnlessInDoubt, Exact, WillBeExact, DumpExact
  <1>5. CASE SendReplyToClient(s)
    <2>1. replstate[s] = "online" /\ UNCHANGED <<replstate, doubt>>
      BY <1>5 DEF SendReplyToClient
    <2>2. PICK n \in 1 .. Len(reply[s]) :
            /\ copy' = [copy EXCEPT ![s] = After(@, SubSeq(reply[s], 1, n))]
            /\ reply' = [reply EXCEPT ![s] = SubSeq(@, n + 1, Len(@))]
      BY <1>5 DEF SendReplyToClient
    <2> DEFINE q == reply[s]
               x == copy[s]
    <2>3. q \in Seq(Commands) /\ x \in State /\ n \in 0 .. Len(q)
      BY <1>1 DEF CopiesTyped
    <2>4. copy'[s] = After(x, SubSeq(q, 1, n)) /\ reply'[s] = SubSeq(q, n + 1, Len(q))
      BY <1>1, <2>2 DEF CopiesTyped
    <2> HIDE DEF q, x
    <2>5. SubSeq(q, 1, n) \in Seq(Commands) /\ SubSeq(q, n + 1, Len(q)) \in Seq(Commands)
      BY <2>3
    <2>6. copy'[s] \in State /\ reply'[s] \in Seq(Commands)
      BY <2>3, <2>4, <2>5, AfterTyped
    <2>7. After(copy'[s], reply'[s]) = After(x, q)
      BY <2>3, <2>4, AfterInParts
    <2>8. CopiesTyped'
      BY <1>1, <1>2, <2>2, <2>6 DEF CopiesTyped
    <2>9. \A t \in Slaves \ {s} : copy'[t] = copy[t] /\ reply'[t] = reply[t]
      BY <1>1, <2>2 DEF CopiesTyped
    <2>10. ASSUME NEW t \in Slaves
           PROVE  After(copy'[t], reply'[t]) = After(copy[t], reply[t])
      BY <2>7, <2>9 DEF q, x
    <2>11. ExactUnlessInDoubt'
      BY <1>2, <2>1, <2>9, <2>10 DEF CopiesInv, ExactUnlessInDoubt, Exact, WillBeExact
    <2>12. DumpExact'
      BY <1>2, <2>1, <2>9 DEF CopiesInv, DumpExact
    <2> QED
      BY <2>8, <2>11, <2>12 DEF CopiesInv
  <1> QED
    BY <1>3, <1>4, <1>5

LEMMA NextCopies ==
  ASSUME CopiesInv, [Next]_vars
  PROVE  CopiesInv'
  <1>1. WaitersInv'
    BY NextWaiters DEF CopiesInv
  <1>2. CASE UNCHANGED vars
    BY <1>1, <1>2
    DEF vars, snapshot, links, CopiesInv, CopiesTyped, ExactUnlessInDoubt, Exact,
        WillBeExact, DumpExact
  <1> QED
    BY <1>1, <1>2, CommandCopies, SyncCopies, ChildCopies, DoneCopies, SendCopies DEF Next

\* Whatever order commands, SYNCs, snapshots, failures, FLUSHALLs and
\* reconnections come in, a slave that has been sent the dump ends with the
\* master's dataset once it has run its reply list, but for the slaves of
\* which the code loses track in one of the ways `doubt' names.
THEOREM CopiesAlwaysExact == Spec => []ExactUnlessInDoubt
  <1>1. CopiesInv => ExactUnlessInDoubt
    BY DEF CopiesInv
  <1> QED
    BY <1>1, InitCopies, NextCopies, PTL DEF Spec
=============================================================================
