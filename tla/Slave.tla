-------------------------------- MODULE Slave --------------------------------
(***************************************************************************)
(* A server that is a slave: SLAVEOF, serverCron's syncWithMaster and the  *)
(* commands of the master's client, with the children of its own, its      *)
(* append only file and a slave of its own (redis.c 7792-7852, 8025-8156,  *)
(* 1556-1563).                                                             *)
(*                                                                         *)
(* syncWithMaster blocks the server: between two of its steps there are    *)
(* only the master, the link, the children and crashes.  A write is an     *)
(* INCR, of one key by the master and of another by a client of this       *)
(* server.  The master is Replication's and is one link here; a slave of   *)
(* this server has what it has been sent.                                  *)
(***************************************************************************)
EXTENDS Integers, Sequences, FiniteSets

CONSTANTS
  NoDump,       \* no dump.rdb, no dataset
  Blocks,       \* reads it takes to receive a dump
  MaxWrites,    \* bounds: INCRs on the master,
  MaxLocal,     \* INCRs of a client of this server,
  MaxChildren,  \* BGSAVE and BGREWRITEAOF commands,
  MaxSwitches,  \* SLAVEOF commands, and SYNCs of the slave's own slave,
  MaxFaults,    \* failed calls, lost and silent links,
  MaxCrashes

ASSUME BlocksAssumption == Blocks \in Nat \ {0}
ASSUME NoDumpAssumption ==
  NoDump \notin Nat \cup [m : Nat, own : Nat]
           \cup [data : [m : Nat, own : Nat], state : {"whole", "torn", "unsigned"}]

VARIABLES
  up,           \* the process runs
  appendonly,   \* server.appendonly
  host,         \* server.masterhost # NULL
  replstate,    \* server.replstate: "none", "connect", "connected"
  pc,           \* where syncWithMaster is, "cron" when it is not running
  tmp,          \* its temporary file
  data,         \* the dataset
  disk,         \* dump.rdb
  saver,        \* server.bgsavechildpid: "none", "running", "ended"
  image,        \* the dataset that child saves
  orphans,      \* the datasets children of earlier processes still save
  log,          \* what the append only file rebuilds
  rewriter,     \* server.bgrewritechildpid: "none", "running", "failed", "ended"
  rewritten,    \* what the child's file and bgrewritebuf rebuild
  sub,          \* what the slave of this server has, NoDump when there is none
  master,       \* the INCRs the master has run
  link,         \* the connection to it
  used,         \* the bounds: how many of each so far
  doubt         \* history: in which ways copies may differ

process == <<up, appendonly, host>>
sync == <<replstate, pc, tmp>>
children == <<saver, image, rewriter, rewritten>>
files == <<disk, log, orphans>>
vars == <<process, sync, data, files, children, sub, master, link, used, doubt>>

Dataset(m, own) == [m |-> m, own |-> own]
Empty == Dataset(0, 0)
File(d, state) == [data |-> d, state |-> state]
NoLink == [open |-> FALSE, silent |-> FALSE, dump |-> NoDump, stream |-> 0]

Uses(what, max) == used[what] < max /\ used' = [used EXCEPT ![what] = @ + 1]
Fault == Uses("faults", MaxFaults)

Init ==
  /\ up = TRUE /\ appendonly \in BOOLEAN /\ host = TRUE
  /\ replstate = "connect" /\ pc = "cron" /\ tmp = [parts |-> 0, state |-> "whole"]
  /\ data = Empty /\ disk = NoDump /\ log = Empty /\ orphans = {}
  /\ saver = "none" /\ image = Empty /\ rewriter = "none" /\ rewritten = Empty
  /\ sub = NoDump /\ master = 0 /\ link = NoLink
  /\ used = [writes |-> 0, local |-> 0, children |-> 0, switches |-> 0, faults |-> 0, crashes |-> 0]
  /\ doubt = {}

Serving == up /\ pc = "cron"

-----------------------------------------------------------------------------
(* Writes: call executes one, logs it and feeds the slaves.                *)

Incr(d, who) == IF d = NoDump THEN d ELSE [d EXCEPT ![who] = @ + 1]

\* Mutant of Propagate: the difference kept for the rewrite misses the command.
PropagateUnbuffered(who) ==
  /\ data' = Incr(data, who)
  /\ log' = IF appendonly THEN Incr(log, who) ELSE log
  /\ sub' = Incr(sub, who)
  /\ UNCHANGED rewritten

Propagate(who) ==
  /\ data' = Incr(data, who)
  /\ log' = IF appendonly THEN Incr(log, who) ELSE log
  /\ rewritten' = IF appendonly /\ rewriter # "none" THEN Incr(rewritten, who) ELSE rewritten
  /\ sub' = Incr(sub, who)

LocalWrite ==
  /\ Serving /\ Uses("local", MaxLocal)
  /\ Propagate("own")
  /\ doubt' = IF replstate = "connected" THEN doubt \cup {"written"} ELSE doubt
  /\ UNCHANGED <<process, sync, disk, orphans, saver, image, rewriter, master, link>>

\* The master's client sends the next command of the stream.
MasterCommand ==
  /\ Serving /\ replstate = "connected" /\ link.stream > 0 /\ ~link.silent
  /\ Propagate("m")
  /\ link' = [link EXCEPT !.stream = @ - 1]
  /\ UNCHANGED <<process, sync, disk, orphans, saver, image, rewriter, master, used, doubt>>

\* The slave of this server synchronises (Replication has how).
SubSyncs ==
  /\ Serving /\ Uses("switches", MaxSwitches)
  /\ sub' = data /\ doubt' = doubt \ {"reloaded"}
  /\ UNCHANGED <<process, sync, data, files, children, master, link>>

-----------------------------------------------------------------------------
(* The children.                                                           *)

BgsaveCommand ==
  /\ Serving /\ Uses("children", MaxChildren)
  /\ saver = "none"
  /\ saver' = "running" /\ image' = data
  /\ UNCHANGED <<process, sync, data, files, rewriter, rewritten, sub, master, link, doubt>>

\* A child renames its file to dump.rdb whatever its parent is doing: after the
\* dump of the master has been given this name, before it has been loaded.
Overwrites(d) ==
  /\ disk' = File(d, "whole")
  /\ doubt' = IF pc = "renamed" THEN doubt \cup {"overwritten"} ELSE doubt

SaverEnds ==
  /\ saver = "running"
  /\ saver' = "ended" /\ Overwrites(image)
  /\ UNCHANGED <<process, sync, data, log, orphans, image, rewriter, rewritten, sub, master, link, used>>

OrphanEnds ==
  /\ \E d \in orphans : orphans' = orphans \ {d} /\ Overwrites(d)
  /\ UNCHANGED <<process, sync, data, log, children, sub, master, link, used>>

BackgroundSaveDoneHandler ==
  /\ Serving /\ saver = "ended"
  /\ saver' = "none"
  /\ UNCHANGED <<process, sync, data, files, image, rewriter, rewritten, sub, master, link, used, doubt>>

RewriteFork(d) ==
  /\ rewriter = "none"
  /\ rewriter' = "running" /\ rewritten' = d

BgrewriteaofCommand ==
  /\ Serving /\ appendonly /\ Uses("children", MaxChildren)
  /\ RewriteFork(data) /\ doubt' = doubt \ {"refused"}
  /\ UNCHANGED <<process, sync, data, files, saver, image, sub, master, link>>

RewriterEnds ==
  /\ rewriter = "running"
  /\ \/ rewriter' = "ended" /\ UNCHANGED used
     \/ rewriter' = "failed" /\ Fault
  /\ UNCHANGED <<process, sync, data, files, saver, image, rewritten, sub, master, link, doubt>>

\* The file is exact again if the child was forked after the dump was loaded.
BackgroundRewriteDoneHandler ==
  /\ Serving /\ rewriter \in {"failed", "ended"}
  /\ rewriter' = "none"
  /\ IF rewriter = "ended"
       THEN /\ log' = rewritten
            /\ doubt' = IF "refused" \in doubt THEN doubt ELSE doubt \ {"log"}
       ELSE /\ doubt' = IF "log" \in doubt THEN doubt \cup {"refused"} ELSE doubt
            /\ UNCHANGED log
  /\ UNCHANGED <<process, sync, data, disk, orphans, saver, image, rewritten, sub, master, link, used>>

-----------------------------------------------------------------------------
(* SLAVEOF and the master's client.                                        *)

\* freeClient of the master's client.
FreeMaster ==
  /\ replstate' = "connect" /\ link' = NoLink

\* readQueryFromClient: the link is closed.
MasterLost ==
  /\ Serving /\ replstate = "connected" /\ ~link.open
  /\ FreeMaster
  /\ UNCHANGED <<process, pc, tmp, data, files, children, sub, master, used, doubt>>

SlaveofCommand ==
  /\ Serving /\ Uses("switches", MaxSwitches)
  /\ \/ /\ host' = TRUE /\ replstate' = "connect" /\ link' = NoLink
     \/ /\ host' = FALSE
        /\ IF host THEN replstate' = "none" /\ link' = NoLink ELSE UNCHANGED <<replstate, link>>
  /\ UNCHANGED <<up, appendonly, pc, tmp, data, files, children, sub, master, doubt>>

-----------------------------------------------------------------------------
(* syncWithMaster.                                                         *)

Step(from, to) == up /\ pc = from /\ pc' = to

Heard == link.open /\ ~link.silent

\* serverCron, in one turn of ten.
Connect ==
  /\ Step("cron", "connected") /\ replstate = "connect"
  /\ link' = [NoLink EXCEPT !.open = TRUE]
  /\ UNCHANGED <<process, replstate, tmp, data, files, children, sub, master, used, doubt>>

\* AUTH, its answer, SYNC.
Ask ==
  /\ Step("connected", "asked") /\ Heard
  /\ UNCHANGED <<process, replstate, tmp, data, files, children, sub, master, link, used, doubt>>

\* The count, and the temporary file.
ReadCount ==
  /\ Step("asked", "reading") /\ Heard /\ link.dump # NoDump
  /\ tmp' = [parts |-> 0, state |-> "whole"]
  /\ UNCHANGED <<process, replstate, data, files, children, sub, master, link, used, doubt>>

\* A write that writes less than it was given is no error here: the file is torn,
\* or without its signature if that was in the first block.
ReadBlock ==
  /\ Step("reading", "reading") /\ Heard /\ tmp.parts < Blocks
  /\ \E state \in {tmp.state, "torn"} \cup (IF tmp.parts = 0 THEN {"unsigned"} ELSE {}) :
       /\ tmp' = [parts |-> tmp.parts + 1, state |-> state]
       /\ IF state = tmp.state THEN UNCHANGED used ELSE Fault /\ tmp.state = "whole"
  /\ UNCHANGED <<process, replstate, data, files, children, sub, master, link, doubt>>

\* Once the dump is read the link is not looked at again.
RenameDump ==
  /\ Step("reading", "renamed") /\ tmp.parts = Blocks
  /\ disk' = File(Dataset(link.dump, 0), tmp.state)
  /\ doubt' = doubt \ {"overwritten"}
  /\ UNCHANGED <<process, replstate, tmp, data, log, orphans, children, sub, master, link, used>>

Waiting == up /\ pc \in {"connected", "asked", "reading"}

\* Mutant of GiveUp: the next serverCron does not try again.
GiveUpForGood ==
  /\ pc' = "cron" /\ link' = NoLink /\ replstate' = "none"
  /\ UNCHANGED <<process, tmp, data, files, children, sub, master, doubt>>

GiveUp ==
  /\ pc' = "cron" /\ link' = NoLink
  /\ UNCHANGED <<process, replstate, tmp, data, files, children, sub, master, doubt>>

\* A read or a write on a closed link.
LinkError == Waiting /\ ~link.open /\ GiveUp /\ UNCHANGED used

\* Any other call that fails: the connection, a line that is not what was
\* expected, the temporary file, the rename.
CallFails == Waiting /\ Fault /\ GiveUp

\* syncWrite and syncRead have a timeout; the reads of the dump have none.
TimesOut == Waiting /\ pc # "reading" /\ link.silent /\ GiveUp /\ UNCHANGED used

\* The process is gone; a child of it that saves goes on.
Dies ==
  /\ up' = FALSE /\ pc' = "cron" /\ link' = NoLink /\ sub' = NoDump
  /\ saver' = "none" /\ rewriter' = "none"
  /\ orphans' = IF saver = "running" THEN orphans \cup {image} ELSE orphans

\* The slave's own slave still has what this one had.
Reloaded == IF sub = NoDump THEN {} ELSE {"reloaded"}

\* Mutant of EmptyDb: a load that failed counts as one that worked.
EmptyDbConnected ==
  /\ pc' = "cron" /\ data' = Empty /\ replstate' = "connected"
  /\ doubt' = doubt \cup Reloaded \cup (IF appendonly THEN {"log", "refused"} ELSE {})
  /\ UNCHANGED <<up, link, sub, saver, orphans, rewriter, rewritten>>

\* emptyDb, and a load that fails: the dataset is empty, no rewrite is asked for,
\* and serverCron tries again.
EmptyDb ==
  /\ pc' = "cron" /\ data' = Empty /\ link' = NoLink
  /\ doubt' = doubt \cup Reloaded \cup (IF appendonly THEN {"log", "refused"} ELSE {})
  /\ UNCHANGED <<up, replstate, sub, saver, orphans, rewriter, rewritten>>

\* Then serverCron asks for a rewrite, and does not look at the answer.
Load ==
  /\ pc' = "cron" /\ replstate' = "connected" /\ data' = disk.data
  /\ \/ /\ appendonly /\ RewriteFork(disk.data) /\ UNCHANGED used
        /\ doubt' = (doubt \cap {"overwritten"}) \cup {"log"} \cup Reloaded
     \/ /\ appendonly
        /\ IF rewriter = "none" THEN Fault ELSE UNCHANGED used
        /\ doubt' = (doubt \cap {"overwritten"}) \cup {"log", "refused"} \cup Reloaded
        /\ UNCHANGED <<rewriter, rewritten>>
     \/ /\ ~appendonly
        /\ doubt' = (doubt \cap {"overwritten"}) \cup Reloaded
        /\ UNCHANGED <<rewriter, rewritten, used>>
  /\ UNCHANGED <<up, link, sub, saver, orphans>>

\* emptyDb and rdbLoad.  A dump that ends early ends the server (4175); one that
\* cannot be opened, or without its signature, is an error that is returned.
LoadDump ==
  /\ up /\ pc = "renamed"
  /\ \/ disk.state = "whole" /\ Load
     \/ disk.state = "torn" /\ Dies /\ UNCHANGED <<replstate, data, rewritten, used, doubt>>
     \/ disk.state = "unsigned" /\ EmptyDb /\ UNCHANGED used
     \/ EmptyDb /\ Fault
  /\ UNCHANGED <<appendonly, host, tmp, disk, log, image, master>>

-----------------------------------------------------------------------------
(* The master, the link, and crashes.                                      *)

MasterWrites ==
  /\ Uses("writes", MaxWrites)
  /\ master' = master + 1
  /\ link' = IF link.dump = NoDump THEN link ELSE [link EXCEPT !.stream = @ + 1]
  /\ UNCHANGED <<process, sync, data, files, children, sub, doubt>>

\* SYNC: the dump of this moment, then the stream.
MasterForks ==
  /\ pc = "asked" /\ link.open /\ link.dump = NoDump
  /\ link' = [link EXCEPT !.dump = master]
  /\ UNCHANGED <<process, sync, data, files, children, sub, master, used, doubt>>

\* It is closed, or its other end is gone without a word.
LinkFails ==
  /\ link.open /\ ~link.silent /\ Fault
  /\ \E end \in {[link EXCEPT !.open = FALSE], [link EXCEPT !.silent = TRUE]} : link' = end
  /\ UNCHANGED <<process, sync, data, files, children, sub, master, doubt>>

Crash ==
  /\ up /\ Uses("crashes", MaxCrashes)
  /\ Dies
  /\ UNCHANGED <<appendonly, host, replstate, tmp, data, disk, log, image, rewritten, master, doubt>>

\* What main loads: it goes on without a dump that cannot be opened or is not one.
OnDisk ==
  CASE appendonly -> log
    [] ~appendonly /\ (disk = NoDump \/ disk.state = "unsigned") -> Empty
    [] OTHER -> disk.data

\* main, with a configuration file that says slaveof.
Restart ==
  /\ ~up /\ (~appendonly /\ disk # NoDump => disk.state # "torn")
  /\ up' = TRUE /\ host' = TRUE /\ replstate' = "connect"
  /\ data' = OnDisk
  /\ doubt' = {}
  /\ UNCHANGED <<appendonly, pc, tmp, files, children, sub, master, link, used>>

-----------------------------------------------------------------------------
SyncStep == Connect \/ Ask \/ ReadCount \/ ReadBlock \/ RenameDump \/ LoadDump \/ LinkError \/ TimesOut

Next ==
  \/ LocalWrite \/ MasterCommand \/ SubSyncs
  \/ BgsaveCommand \/ SaverEnds \/ OrphanEnds \/ BackgroundSaveDoneHandler
  \/ BgrewriteaofCommand \/ RewriterEnds \/ BackgroundRewriteDoneHandler
  \/ MasterLost \/ SlaveofCommand \/ SyncStep \/ CallFails
  \/ MasterWrites \/ MasterForks \/ LinkFails
  \/ Crash \/ Restart

(* serverCron turns, the master answers SYNC, children end.                *)
Fairness ==
  /\ WF_vars(SyncStep) /\ WF_vars(MasterForks)
  /\ WF_vars(RewriterEnds) /\ WF_vars(BackgroundRewriteDoneHandler)

Spec == Init /\ [][Next]_vars /\ Fairness

-----------------------------------------------------------------------------
(* Properties.                                                             *)

TypeOK ==
  /\ up \in BOOLEAN /\ appendonly \in BOOLEAN /\ host \in BOOLEAN
  /\ replstate \in {"none", "connect", "connected"}
  /\ pc \in {"cron", "connected", "asked", "reading", "renamed"}
  /\ saver \in {"none", "running", "ended"} /\ rewriter \in {"none", "running", "failed", "ended"}
  /\ doubt \subseteq {"written", "overwritten", "log", "refused", "reloaded"}

\* A connected slave is what the master was when it sent the last command the
\* slave has run (doc/ReplicationHowto.html:30, "exact copies").
ConnectedIsExact ==
  up /\ replstate = "connected" /\ link.open /\ doubt \cap {"written", "overwritten"} = {}
    => data = Dataset(master - link.stream, 0)

\* The append only file rebuilds the dataset, but between a synchronisation and
\* the end of a rewrite that began after it; a synchronisation whose load failed
\* has emptied the dataset and asks for no rewrite.
LogFollows == up /\ appendonly /\ "log" \notin doubt => log = data

\* The slave's own slave has what the slave has until the slave synchronises.
SubFollows == up /\ sub # NoDump /\ "reloaded" \notin doubt => sub = data

\* The three copies of one dataset - the master's, the append only file, the
\* slave's own slave - agree with it through failed synchronisations, children,
\* SLAVEOF and crashes, but in the ways `doubt' names: a client wrote to the
\* slave; a child renamed its own dump over the master's; the rewrite after the
\* synchronisation is not done, or was refused; the dataset was reloaded, or
\* emptied by a load that failed.
CopiesAgreeUnlessInDoubt == ConnectedIsExact /\ LogFollows /\ SubFollows

\* A slave with a master connects to it in the end, through failures and
\* retries, unless the master's host goes silent in the middle of the dump; and
\* a rewrite that was not refused makes the append only file good again.
SlaveSettles ==
  /\ (up /\ replstate = "connect") ~> (replstate = "connected" \/ ~host \/ ~up \/ link.silent)
  /\ ("log" \in doubt) ~> ("log" \notin doubt \/ "refused" \in doubt \/ ~up \/ link.silent)
=============================================================================
