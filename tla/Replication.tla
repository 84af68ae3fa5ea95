----------------------------- MODULE Replication -----------------------------
(***************************************************************************)
(* The master's side of replication in redis.c, with the snapshots it is   *)
(* built on: SYNC attaches a slave to a BGSAVE, the commands executed      *)
(* since the fork wait in the slave's reply list, dump.rdb is sent when    *)
(* the child has ended, then the list, then the stream of new commands.    *)
(*                                                                         *)
(* One link stands for the slave's side (syncWithMaster, and the commands  *)
(* of the master's client run one after the other): what the slave has is  *)
(* what it was sent.  A write is an INCR of the one counter of a database, *)
(* which tells lost, repeated and misdirected commands apart.              *)
(***************************************************************************)
EXTENDS Integers, Sequences, FiniteSets, SequencesExt

CONSTANTS
  Slaves,
  DBs,          \* the databases, 0 .. dbnum - 1
  NoDump,       \* dump.rdb does not exist
  MaxWrites,    \* bounds: INCR and FLUSHALL commands,
  MaxSaves,     \* SAVE and BGSAVE commands,
  MaxSyncs,     \* SYNC commands,
  MaxFaults     \* children killed or in error, forks refused, links lost

ASSUME DBsAssumption == 0 \in DBs /\ DBs \subseteq Nat

VARIABLES
  data,         \* the master's dataset
  dirty, dirtyBefore, \* server.dirty, server.dirty_before_bgsave
  disk,         \* dump.rdb
  bgsave,       \* server.bgsavechildpid # -1
  child,        \* the BGSAVE child: "none", "running", or how it exited
  image,        \* the dataset when the child was forked
  slaves,       \* server.slaves, in its order
  replstate,    \* slave -> its state, "gone" when it has no client
  reply,        \* slave -> the commands of its reply list
  slaveseldb,   \* slave -> the database selected at the end of that list
  copy,         \* slave -> what it loads, then its dataset and selected database
  used,         \* the bounds: how many of each so far
  doubt         \* history: slave -> why its copy may not be exact

snapshot == <<disk, bgsave, child, image, dirtyBefore>>
links == <<slaves, replstate, reply, slaveseldb, copy, doubt>>
vars == <<data, dirty, snapshot, links, used>>

-----------------------------------------------------------------------------
(* Commands as a slave runs them.                                          *)

Empty == [db \in DBs |-> 0]

Select(db) == [op |-> "select", db |-> db]
Incr == [op |-> "incr", db |-> 0]
Flushall == [op |-> "flushall", db |-> 0]
Save == [op |-> "save", db |-> 0]

Apply(s, cmd) ==
  CASE cmd.op = "select"   -> [s EXCEPT !.sel = cmd.db]
    [] cmd.op = "incr"     -> [s EXCEPT !.data[s.sel] = @ + 1]
    [] cmd.op = "flushall" -> [s EXCEPT !.data = Empty]
    [] cmd.op = "save"     -> s

After(s, cmds) == FoldLeft(Apply, s, cmds)

Loaded(d) == [data |-> d, sel |-> 0]

-----------------------------------------------------------------------------
Init ==
  /\ data = Empty /\ dirty = 0 /\ dirtyBefore = 0
  /\ disk = NoDump /\ bgsave = FALSE /\ child = "none" /\ image = Empty
  /\ slaves = <<>>
  /\ replstate = [s \in Slaves |-> "gone"]
  /\ reply = [s \in Slaves |-> <<>>]
  /\ slaveseldb = [s \in Slaves |-> 0]
  /\ copy = [s \in Slaves |-> Loaded(Empty)]
  /\ doubt = [s \in Slaves |-> {}]
  /\ used = [writes |-> 0, saves |-> 0, syncs |-> 0, faults |-> 0]

Uses(what, max) == used[what] < max /\ used' = [used EXCEPT ![what] = @ + 1]

In(states) == {s \in Slaves : replstate[s] \in states}

-----------------------------------------------------------------------------
(* replicationFeedSlaves.                                                  *)

\* Mutant of Addressed: the database is not selected.
Unaddressed(s, db, cmd) == <<cmd>>

Addressed(s, db, cmd) ==
  (IF slaveseldb[s] = db THEN <<>> ELSE <<Select(db)>>) \o <<cmd>>

Fed == In({"wait_end", "send_bulk", "online"})

Feed(db, cmd) ==
  /\ reply' = [s \in Slaves |->
                 IF s \in Fed THEN reply[s] \o Addressed(s, db, cmd) ELSE reply[s]]
  /\ slaveseldb' = [s \in Slaves |-> IF s \in Fed THEN db ELSE slaveseldb[s]]

-----------------------------------------------------------------------------
(* Commands of the clients (call: the command, then its propagation when   *)
(* it has changed server.dirty).                                           *)

Write(db) ==
  /\ Uses("writes", MaxWrites)
  /\ data' = [data EXCEPT ![db] = @ + 1]
  /\ dirty' = dirty + 1
  /\ Feed(db, Incr)
  /\ UNCHANGED <<snapshot, slaves, replstate, copy, doubt>>

\* emptyDb's keys count as changes, until rdbSave has set dirty to 0.
FlushallCommand(db) ==
  /\ Uses("writes", MaxWrites)
  /\ data' = Empty
  /\ child' = IF child = "running" THEN "killed" ELSE child
  /\ \/ disk' = Empty /\ dirty' = 1
     \/ disk' = disk
        /\ dirty' = dirty + Cardinality({i \in DBs : data[i] # 0}) + 1
  /\ IF dirty' # dirty
       THEN Feed(db, Flushall) /\ UNCHANGED doubt
       ELSE /\ doubt' = [s \in Slaves |->
                           IF s \in Fed THEN doubt[s] \cup {"flushall"} ELSE doubt[s]]
            /\ UNCHANGED <<reply, slaveseldb>>
  /\ UNCHANGED <<bgsave, image, dirtyBefore, slaves, replstate, copy>>

SaveCommand(db) ==
  /\ Uses("saves", MaxSaves)
  /\ ~bgsave
  /\ disk' = data /\ dirty' = 0
  /\ IF dirty # 0 THEN Feed(db, Save) ELSE UNCHANGED <<reply, slaveseldb>>
  /\ UNCHANGED <<data, bgsave, child, image, dirtyBefore, slaves, replstate, copy, doubt>>

\* rdbSaveBackground, when fork succeeds.
Forks ==
  /\ bgsave' = TRUE /\ child' = "running" /\ image' = data

BgsaveCommand ==
  /\ Uses("saves", MaxSaves)
  /\ ~bgsave
  /\ Forks /\ dirtyBefore' = dirty
  /\ UNCHANGED <<data, dirty, disk, links>>

\* serverCron: a save parameter has been reached.
AutoSave ==
  /\ dirty > 0
  /\ BgsaveCommand

\* stopAppendOnly, called by CONFIG SET appendonly no.
StopAppendOnly ==
  /\ Uses("faults", MaxFaults)
  /\ bgsave
  /\ bgsave' = FALSE /\ child' = "none"
  /\ doubt' = [s \in Slaves |-> IF replstate[s] \in {"wait_start", "wait_end"}
                                  THEN doubt[s] \cup {"forgotten"} ELSE doubt[s]]
  /\ UNCHANGED <<data, dirty, dirtyBefore, disk, image, slaves, replstate, reply,
                 slaveseldb, copy>>

-----------------------------------------------------------------------------
(* SYNC.                                                                   *)

Attach(s, state, buf, why) ==
  /\ slaves' = Append(slaves, s)
  /\ replstate' = [replstate EXCEPT ![s] = state]
  /\ reply' = [reply EXCEPT ![s] = buf]
  /\ slaveseldb' = [slaveseldb EXCEPT ![s] = 0]
  /\ copy' = [copy EXCEPT ![s] = Loaded(Empty)]
  /\ doubt' = [doubt EXCEPT ![s] = why]

\* The first slave of server.slaves that waits for the running BGSAVE.
FirstWaiting(t) ==
  \E i \in DOMAIN slaves :
    /\ slaves[i] = t /\ replstate[t] = "wait_end"
    /\ \A j \in 1 .. i - 1 : replstate[slaves[j]] # "wait_end"

Copied(t) == IF slaveseldb[t] = 0 THEN {} ELSE {"copied"}

\* Mutant of JoinBgsave: the differences registered so far are not copied.
JoinBgsaveEmpty(s) ==
  /\ bgsave
  /\ \/ \E t \in Slaves : FirstWaiting(t) /\ Attach(s, "wait_end", <<>>, doubt[t])
     \/ /\ \A t \in Slaves : ~FirstWaiting(t)
        /\ Attach(s, "wait_start", <<>>, {})
  /\ UNCHANGED snapshot

JoinBgsave(s) ==
  /\ bgsave
  /\ \/ \E t \in Slaves :
          FirstWaiting(t) /\ Attach(s, "wait_end", reply[t], doubt[t] \cup Copied(t))
     \/ /\ \A t \in Slaves : ~FirstWaiting(t)
        /\ Attach(s, "wait_start", <<>>, {})
  /\ UNCHANGED snapshot

StartBgsave(s) ==
  /\ ~bgsave
  /\ Forks /\ dirtyBefore' = dirty
  /\ Attach(s, "wait_end", <<>>, {})
  /\ UNCHANGED disk

\* When fork fails the client is told, and stays a client like any other.
SyncCommand(s) ==
  /\ Uses("syncs", MaxSyncs)
  /\ replstate[s] = "gone"
  /\ JoinBgsave(s) \/ StartBgsave(s)
  /\ UNCHANGED <<data, dirty>>

-----------------------------------------------------------------------------
(* The child, and serverCron when it has exited.                           *)

ChildSaves ==
  /\ child = "running"
  /\ child' = "ok" /\ disk' = image
  /\ UNCHANGED <<data, dirty, bgsave, image, dirtyBefore, links, used>>

ChildFails(how) ==
  /\ Uses("faults", MaxFaults)
  /\ child = "running" /\ how \in {"error", "killed"}
  /\ child' = how
  /\ UNCHANGED <<data, dirty, disk, bgsave, image, dirtyBefore, links>>

\* The slaves updateSlavesWaitingBgsave frees, and those it sends dump.rdb to.
Refused(err) == IF err \/ disk = NoDump THEN In({"wait_end"}) ELSE {}

Served(err) == In({"wait_end"}) \ Refused(err)

\* Mutant of Starting: slaves that came after the fork share its snapshot.
NoneStarting == {}

Starting == In({"wait_start"})

(* A slave served after a child was killed, one whose BGSAVE was refused   *)
(* by fork: neither is told.                                               *)
Doubts(s, err, how, forked) ==
  CASE s \in Refused(err) -> {}
    [] s \in Served(err) /\ how = "killed" -> doubt[s] \cup {"killed"}
    [] s \in Starting /\ ~forked -> doubt[s] \cup {"refused"}
    [] OTHER -> doubt[s]

UpdateSlavesWaitingBgsave(err, how, forked) ==
  /\ slaves' = SelectSeq(slaves, LAMBDA s : s \notin Refused(err))
  /\ replstate' = [s \in Slaves |->
       CASE s \in Starting -> "wait_end"
         [] s \in Served(err) -> "send_bulk"
         [] s \in Refused(err) -> "gone"
         [] OTHER -> replstate[s]]
  /\ copy' = [s \in Slaves |-> IF s \in Served(err) THEN Loaded(disk) ELSE copy[s]]
  /\ reply' = [s \in Slaves |-> IF s \in Refused(err) THEN <<>> ELSE reply[s]]
  /\ doubt' = [s \in Slaves |-> Doubts(s, err, how, forked)]
  /\ UNCHANGED slaveseldb

\* The exit code of a child killed by a signal reads 0: only "error" is one.
BackgroundSaveDoneHandler ==
  /\ bgsave /\ child \in {"ok", "error", "killed"}
  /\ dirty' = IF child = "ok" THEN dirty - dirtyBefore ELSE dirty
  /\ \/ /\ Starting = {}
        /\ bgsave' = FALSE /\ child' = "none"
        /\ UpdateSlavesWaitingBgsave(child = "error", child, TRUE)
        /\ UNCHANGED <<image, dirtyBefore, used>>
     \/ /\ Starting # {}
        /\ Forks /\ dirtyBefore' = dirty'
        /\ UpdateSlavesWaitingBgsave(child = "error", child, TRUE)
        /\ UNCHANGED used
     \/ /\ Starting # {} /\ Uses("faults", MaxFaults)
        /\ bgsave' = FALSE /\ child' = "none" /\ dirtyBefore' = dirty'
        /\ UpdateSlavesWaitingBgsave(child = "error", child, FALSE)
        /\ UNCHANGED image
  /\ UNCHANGED <<data, disk>>

-----------------------------------------------------------------------------
(* Sending.                                                                *)

SendBulkToSlave(s) ==
  /\ replstate[s] = "send_bulk"
  /\ replstate' = [replstate EXCEPT ![s] = "online"]
  /\ UNCHANGED <<data, dirty, snapshot, slaves, reply, slaveseldb, copy, doubt, used>>

\* sendReplyToClient, and the slave that runs what it receives.
SendReplyToClient(s) ==
  /\ replstate[s] = "online" /\ reply[s] # <<>>
  /\ \E n \in 1 .. Len(reply[s]) :
       /\ copy' = [copy EXCEPT ![s] = After(@, SubSeq(reply[s], 1, n))]
       /\ reply' = [reply EXCEPT ![s] = SubSeq(@, n + 1, Len(@))]
  /\ UNCHANGED <<data, dirty, snapshot, slaves, replstate, slaveseldb, doubt, used>>

\* A read or a write on the link fails: freeClient.
FreeClient(s) ==
  /\ Uses("faults", MaxFaults)
  /\ replstate[s] # "gone"
  /\ slaves' = SelectSeq(slaves, LAMBDA t : t # s)
  /\ replstate' = [replstate EXCEPT ![s] = "gone"]
  /\ reply' = [reply EXCEPT ![s] = <<>>]
  /\ doubt' = [doubt EXCEPT ![s] = {}]
  /\ UNCHANGED <<data, dirty, snapshot, slaveseldb, copy>>

-----------------------------------------------------------------------------
Command ==
  \/ \E db \in DBs : Write(db) \/ FlushallCommand(db) \/ SaveCommand(db)
  \/ BgsaveCommand \/ AutoSave \/ StopAppendOnly

Next ==
  \/ Command
  \/ ChildSaves \/ \E how \in {"error", "killed"} : ChildFails(how)
  \/ BackgroundSaveDoneHandler
  \/ \E s \in Slaves :
       SyncCommand(s) \/ SendBulkToSlave(s) \/ SendReplyToClient(s) \/ FreeClient(s)

Spec == Init /\ [][Next]_vars

(* The child ends, serverCron notices, and the links take what is sent.    *)
Fairness ==
  /\ WF_vars(ChildSaves) /\ WF_vars(BackgroundSaveDoneHandler)
  /\ \A s \in Slaves : WF_vars(SendBulkToSlave(s)) /\ WF_vars(SendReplyToClient(s))

FairSpec == Spec /\ Fairness

-----------------------------------------------------------------------------
(* Properties.                                                             *)

Dataset == [DBs -> Nat]
Reasons == {"flushall", "forgotten", "copied", "killed", "refused"}

TypeOK ==
  /\ data \in Dataset /\ image \in Dataset /\ disk \in Dataset \cup {NoDump}
  /\ dirty \in Int /\ dirtyBefore \in Int
  /\ bgsave \in BOOLEAN /\ child \in {"none", "running", "ok", "error", "killed"}
  /\ bgsave <=> child # "none"
  /\ ToSet(slaves) = In({"wait_start", "wait_end", "send_bulk", "online"})
  /\ Cardinality(ToSet(slaves)) = Len(slaves)
  /\ slaveseldb \in [Slaves -> DBs]
  /\ copy \in [Slaves -> [data : Dataset, sel : DBs]]
  /\ doubt \in [Slaves -> SUBSET Reasons]

\* A slave that has been sent the dump holds, once it has run what is in its
\* reply list, the master's dataset, with the master's idea of the database
\* it has selected.
Exact(s) == After(copy[s], reply[s]) = [data |-> data, sel |-> slaveseldb[s]]

\* The same of a slave that waits: the child's dump and the differences
\* registered since the fork.
WillBeExact(s) ==
  bgsave /\ child # "error"
    => After(Loaded(image), reply[s]) = [data |-> data, sel |-> slaveseldb[s]]

\* Exact copies (doc/ReplicationHowto.html), whatever order commands, SYNCs,
\* snapshots, failures and reconnections come in, but for the slaves of which
\* the code loses track in one of the ways `doubt' names.
ExactUnlessInDoubt ==
  \A s \in Slaves : doubt[s] = {} =>
    /\ replstate[s] \in {"send_bulk", "online"} => Exact(s)
    /\ replstate[s] = "wait_end" => WillBeExact(s)

\* "register differences" (syncCommand): the slaves that wait for one BGSAVE
\* hold the same list and have the same database selected at its end, so any
\* of them can be copied from.
WaitersAgree ==
  \A s, t \in Slaves :
    /\ replstate[s] = "wait_end" /\ replstate[t] = "wait_end"
    /\ doubt[s] = {} /\ doubt[t] = {}
    => reply[s] = reply[t] /\ slaveseldb[s] = slaveseldb[t]

\* The two waiting states, "master waits bgsave to start ..." (redis.c:203): while
\* no BGSAVE runs nobody waits for one, but for the slaves in doubt.
WaitersHaveABgsave ==
  ~bgsave => \A s \in Slaves :
    replstate[s] \in {"wait_start", "wait_end"} => doubt[s] # {}

\* A waiting slave gets its dump or loses its link, or has come in doubt: it
\* never waits for good when no BGSAVE was forgotten and no fork refused.  (Nor
\* need it with the other doubts, but nothing is claimed of them here.)
SyncEnds ==
  \A s \in Slaves :
    replstate[s] \in {"wait_start", "wait_end"}
      ~> (replstate[s] \in {"online", "gone"} \/ doubt[s] # {})
=============================================================================
