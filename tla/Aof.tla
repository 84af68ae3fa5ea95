--------------------------------- MODULE Aof ---------------------------------
(***************************************************************************)
(* The append only file of redis.c: commands that change the dataset are   *)
(* appended to aofbuf, aofbuf is written before the event loop sleeps, a   *)
(* child rewrites the file while the parent keeps the difference in        *)
(* bgrewritebuf, and CONFIG SET switches the whole thing on and off.       *)
(*                                                                         *)
(* A turn of the event loop is: beforeSleep, poll, the handlers of the     *)
(* sockets that fired (readable before writable for one socket), then      *)
(* serverCron when its timer is due.  Handlers of different clients are    *)
(* taken in any order; a reply is sent only by its own client's handler,   *)
(* so running another client between the two handlers of one changes       *)
(* nothing.                                                                *)
(*                                                                         *)
(* A write is an INCR of the one counter of a database: it shows a lost,   *)
(* a repeated and a misdirected command in the value of a counter.         *)
(***************************************************************************)
EXTENDS Integers, Sequences, FiniteSets, FiniteSetsExt

CONSTANTS
  Clients,
  DBs,          \* the databases, 0 .. dbnum - 1
  MaxWrites,    \* bounds: writes since the last start,
  MaxForks,     \* rewrite children,
  MaxSaves,     \* BGSAVE children,
  MaxSwitches,  \* CONFIG SET appendonly commands,
  MaxCrashes    \* restarts

ASSUME DBsAssumption == 0 \in DBs /\ DBs \subseteq Nat /\ IsFiniteSet(DBs)

VARIABLES
  lineage,      \* the dataset after each write since the start; last: now
  file,         \* appendfilename: its whole commands, and a torn one at the end
  appendonly,   \* server.appendonly
  appendfd,     \* "open", "closed" (-1), or "stale": closed and still kept
  appendseldb,  \* the database selected in the log, -1 when unknown
  aofbuf, bgrewritebuf,
  rewritePid,   \* server.bgrewritechildpid # -1
  rewriter,     \* the rewrite child: "none", "running", or how it exited
  temp,         \* the commands of the child's temp file
  renamed,      \* the child has renamed it to the name the parent will open
  savePid,      \* server.bgsavechildpid # -1
  saver,        \* the BGSAVE child: "none", "running", or how it exited
  orphan,       \* how a BGSAVE child exited that no pid stands for, or "none"
  pending,      \* the clients with replies not sent
  fired,        \* the events of this turn: client -> subset of {"r", "w"}
  phase,        \* "poll", "events", "exited" (SHUTDOWN), "down" (crash, exit(1))
  used,         \* forks, saves, switches and crashes so far
  turnStart,    \* history: how far lineage was when this turn began
  based,        \* history: the file started from a full dataset
  covers,       \* history: bgrewritebuf has missed nothing since the fork
  doubled       \* history: a rewrite ended with commands still in aofbuf

server == <<lineage, file, appendonly, appendfd, appendseldb, aofbuf, bgrewritebuf>>
children == <<rewritePid, rewriter, temp, renamed, savePid, saver, orphan>>
loop == <<pending, fired, phase>>
history == <<turnStart, based, covers, doubled>>
vars == <<server, children, loop, used, history>>

-----------------------------------------------------------------------------
(* The log.                                                                *)

Select(db) == [op |-> "select", arg |-> db]
Incr == [op |-> "incr", arg |-> 0]
SetTo(n) == [op |-> "set", arg |-> n]

\* The database the fake client of loadAppendOnlyFile has selected at i.
SelectedAt(log, i) ==
  LET selects == {j \in 1 .. i : log[j].op = "select"}
  IN  IF selects = {} THEN 0 ELSE log[Max(selects)].arg

\* loadAppendOnlyFile: the dataset the commands of the log build.
Replay(log) ==
  [db \in DBs |->
     LET mine == {i \in DOMAIN log : log[i].op # "select" /\ SelectedAt(log, i) = db}
         sets == {i \in mine : log[i].op = "set"}
         from == IF sets = {} THEN 0 ELSE Max(sets)
     IN  (IF from = 0 THEN 0 ELSE log[from].arg)
           + Cardinality({i \in mine : i > from})]

\* rewriteAppendOnlyFile: a SELECT and a SET for each database with keys.
Rewrite(data) ==
  LET Part[n \in 0 .. Max(DBs)] ==
        (IF n = 0 THEN <<>> ELSE Part[n - 1])
          \o (IF n \in DBs /\ data[n] # 0 THEN <<Select(n), SetTo(data[n])>>
                                          ELSE <<>>)
  IN  Part[Max(DBs)]

Dataset == lineage[Len(lineage)]

Empty == [db \in DBs |-> 0]

-----------------------------------------------------------------------------
Init ==
  /\ lineage = <<Empty>>
  /\ file = [log |-> <<>>, torn |-> FALSE]
  /\ appendonly = TRUE /\ appendfd = "open" /\ appendseldb = -1
  /\ aofbuf = <<>> /\ bgrewritebuf = <<>>
  /\ rewritePid = FALSE /\ rewriter = "none" /\ temp = <<>> /\ renamed = FALSE
  /\ savePid = FALSE /\ saver = "none" /\ orphan = "none"
  /\ pending = {}
  /\ fired = [c \in Clients |-> {}]
  /\ phase = "poll"
  /\ used = [forks |-> 0, saves |-> 0, switches |-> 0, crashes |-> 0]
  /\ turnStart = 1
  /\ based = TRUE /\ covers = FALSE /\ doubled = FALSE

-----------------------------------------------------------------------------
(* beforeSleep and aeApiPoll.                                              *)

\* Mutant of Flushed: a write that fails goes unnoticed.
FlushedNot == file

\* flushAppendOnlyFile writes to the file behind appendfd.
Flushed == IF appendfd = "open" THEN [file EXCEPT !.log = @ \o aofbuf] ELSE file

\* A client has something to send; a socket with a pending reply may be ready.
Fires(f) ==
  \A c \in Clients : f[c] \subseteq {"r"} \cup (IF c \in pending THEN {"w"} ELSE {})

BeforeSleep ==
  /\ phase = "poll"
  /\ aofbuf = <<>> \/ appendfd = "open"
  /\ file' = Flushed
  /\ aofbuf' = <<>>
  /\ \E f \in [Clients -> SUBSET {"r", "w"}] : Fires(f) /\ fired' = f
  /\ phase' = "events"
  /\ turnStart' = Len(lineage)
  /\ UNCHANGED <<lineage, appendonly, appendfd, appendseldb, bgrewritebuf,
                 children, pending, used, based, covers, doubled>>

(* A write that fails or is short makes the server exit(1), here or in     *)
(* stopAppendOnly; what was written stays, the last command perhaps cut.   *)
FlushFails ==
  /\ aofbuf # <<>>
  /\ \/ file' = file
     \/ /\ appendfd = "open"
        /\ \E n \in 0 .. Len(aofbuf) - 1 :
             file' = [log |-> file.log \o SubSeq(aofbuf, 1, n), torn |-> TRUE]
  /\ phase' = "down"
  /\ UNCHANGED <<lineage, appendonly, appendfd, appendseldb, aofbuf, bgrewritebuf,
                 children, pending, used, history>>

BeforeSleepFails == phase = "poll" /\ FlushFails /\ UNCHANGED fired

-----------------------------------------------------------------------------
(* Commands, read and executed by the readable handler of c.  `more' says  *)
(* that another command is in the client's buffer.                         *)

Reads(c, more) ==
  /\ phase = "events" /\ "r" \in fired[c]
  /\ fired' = IF more THEN fired ELSE [fired EXCEPT ![c] = @ \ {"r"}]

Replies(c) == pending' = pending \cup {c}

\* feedAppendOnlyFile.
Feed(db) ==
  LET buf == (IF db = appendseldb THEN <<>> ELSE <<Select(db)>>) \o <<Incr>>
  IN  /\ aofbuf' = aofbuf \o buf
      /\ bgrewritebuf' = IF rewritePid THEN bgrewritebuf \o buf ELSE bgrewritebuf
      /\ appendseldb' = db

Write(c, db, more) ==
  /\ Reads(c, more)
  /\ Len(lineage) <= MaxWrites
  /\ lineage' = Append(lineage, [Dataset EXCEPT ![db] = @ + 1])
  /\ IF appendonly THEN Feed(db)
     ELSE UNCHANGED <<aofbuf, bgrewritebuf, appendseldb>>
  /\ Replies(c)
  /\ UNCHANGED <<file, appendonly, appendfd, children, phase, used, history>>

\* rewriteAppendOnlyFileBackground, when it forks.
Fork ==
  /\ used.forks < MaxForks
  /\ rewritePid' = TRUE /\ rewriter' = "running"
  /\ temp' = Rewrite(Dataset) /\ renamed' = FALSE
  /\ appendseldb' = -1
  /\ UNCHANGED <<savePid, saver, orphan>>

BgrewriteaofCommand(c, more) ==
  /\ Reads(c, more)
  /\ ~rewritePid /\ Fork
  /\ used' = [used EXCEPT !.forks = @ + 1]
  /\ covers' = appendonly
  /\ UNCHANGED lineage /\ Replies(c)
  /\ UNCHANGED <<file, appendonly, appendfd, aofbuf, bgrewritebuf, phase,
                 turnStart, based, doubled>>

BgsaveCommand(c, more) ==
  /\ Reads(c, more)
  /\ ~savePid /\ saver = "none" /\ used.saves < MaxSaves
  /\ savePid' = TRUE /\ saver' = "running"
  /\ used' = [used EXCEPT !.saves = @ + 1]
  /\ UNCHANGED lineage /\ Replies(c)
  /\ UNCHANGED <<file, appendonly, appendfd, appendseldb, aofbuf, bgrewritebuf,
                 rewritePid, rewriter, temp, renamed, orphan, phase, history>>

Exited(child) == child \notin {"none", "running"}

\* Mutant of KillSaver: the pid of the other child is cleared.
KillSaverMixed(reaped) ==
  /\ rewritePid' = FALSE /\ bgrewritebuf' = <<>> /\ covers' = FALSE
  /\ reaped = "saver" /\ saver' = "none"
  /\ UNCHANGED <<savePid, rewriter, temp, renamed, orphan>>

\* How the BGSAVE child ends: the signal comes too late for one that has
\* exited already.
Killed == IF saver = "running" THEN "killed" ELSE saver

(* stopAppendOnly kills the child of bgsavechildpid and waits for one      *)
(* child, any child: `reaped' is the one it gets.  If it is another, the   *)
(* BGSAVE child is an orphan, and serverCron will take its exit status for *)
(* that of the rewrite.                                                    *)
KillSaver(reaped) ==
  /\ savePid' = FALSE /\ bgrewritebuf' = <<>> /\ covers' = FALSE
  /\ saver' = "none"
  /\ \/ reaped = "saver" /\ UNCHANGED <<rewriter, orphan>>
     \/ /\ reaped = "rewriter" /\ Exited(rewriter)
        /\ rewriter' = "none" /\ orphan' = Killed
     \/ /\ reaped = "orphan" /\ orphan # "none"
        /\ orphan' = Killed /\ UNCHANGED rewriter
  /\ UNCHANGED <<rewritePid, temp, renamed>>

StopAppendOnly(c, more) ==
  /\ Reads(c, more)
  /\ appendonly /\ used.switches < MaxSwitches
  /\ aofbuf = <<>> \/ appendfd = "open"
  /\ file' = Flushed /\ aofbuf' = <<>>
  /\ appendfd' = "closed" /\ appendseldb' = -1 /\ appendonly' = FALSE
  /\ IF savePid THEN \E r \in {"saver", "rewriter", "orphan"} : KillSaver(r)
     ELSE /\ covers' = FALSE
          /\ UNCHANGED <<children, bgrewritebuf>>
  /\ based' = FALSE
  /\ used' = [used EXCEPT !.switches = @ + 1]
  /\ UNCHANGED lineage /\ Replies(c)
  /\ UNCHANGED <<phase, turnStart, doubled>>

StopAppendOnlyFails(c) ==
  /\ Reads(c, FALSE)
  /\ appendonly /\ used.switches < MaxSwitches
  /\ FlushFails

\* Mutant of RewriteRefused: the append only file stays on.
RewriteRefusedOn == appendonly' = TRUE /\ appendfd' = "stale"

\* startAppendOnly: the file is closed again, its descriptor kept.
RewriteRefused == appendonly' = FALSE /\ appendfd' = "stale"

(* startAppendOnly: the file cannot be opened; the rewrite cannot be       *)
(* started, because one is running or fork fails; or both succeed.         *)
StartAppendOnly(c, more) ==
  /\ Reads(c, more)
  /\ ~appendonly /\ used.switches < MaxSwitches
  /\ \/ /\ appendonly' = TRUE /\ appendfd' = "closed"
        /\ used' = [used EXCEPT !.switches = @ + 1]
        /\ UNCHANGED <<children, appendseldb, covers>>
     \/ /\ RewriteRefused
        /\ used' = [used EXCEPT !.switches = @ + 1]
        /\ UNCHANGED <<children, appendseldb, covers>>
     \/ /\ ~rewritePid /\ Fork
        /\ appendonly' = TRUE /\ appendfd' = "open"
        /\ used' = [used EXCEPT !.switches = @ + 1, !.forks = @ + 1]
        /\ covers' = TRUE
  /\ UNCHANGED lineage /\ Replies(c)
  /\ UNCHANGED <<file, aofbuf, bgrewritebuf, phase, turnStart, based, doubled>>

(* SHUTDOWN: with the append only file the dataset is not saved and aofbuf *)
(* is not flushed; otherwise rdbSave succeeds, or the server goes on.      *)
ShutdownCommand(c) ==
  /\ Reads(c, FALSE)
  /\ saver' = IF savePid /\ saver = "running" THEN "killed" ELSE saver
  /\ UNCHANGED lineage
  /\ \/ phase' = "exited" /\ UNCHANGED pending
     \/ ~appendonly /\ UNCHANGED phase /\ Replies(c)
  /\ UNCHANGED <<file, appendonly, appendfd, appendseldb, aofbuf, bgrewritebuf,
                 rewritePid, rewriter, temp, renamed, savePid, orphan, used, history>>

\* sendReplyToClient.
SendReplyToClient(c) ==
  /\ phase = "events" /\ fired[c] = {"w"}
  /\ pending' = pending \ {c}
  /\ fired' = [fired EXCEPT ![c] = {}]
  /\ UNCHANGED <<server, children, phase, used, turnStart, based, covers, doubled>>

-----------------------------------------------------------------------------
(* serverCron, where the turn ends.                                        *)

TurnOver == phase = "events" /\ \A c \in Clients : fired[c] = {}

\* Mutant of NewFile: the difference the parent kept is not appended.
NewFileBare ==
  /\ file' = [log |-> temp, torn |-> FALSE]
  /\ IF appendfd = "closed" THEN UNCHANGED <<appendfd, appendseldb>>
     ELSE appendfd' = "open" /\ appendseldb' = -1
  /\ based' = covers
  /\ doubled' = (doubled \/ (appendonly /\ aofbuf # <<>>))

\* backgroundRewriteDoneHandler once the temp file has been renamed.
NewFile ==
  /\ file' = [log |-> temp \o bgrewritebuf, torn |-> FALSE]
  /\ IF appendfd = "closed" THEN UNCHANGED <<appendfd, appendseldb>>
     ELSE appendfd' = "open" /\ appendseldb' = -1
  /\ based' = covers
  /\ doubled' = (doubled \/ (appendonly /\ aofbuf # <<>>))

\* Mutant of BackgroundRewriteDoneHandler: only a success is cleaned up.
RewriteDoneKeepsPid(status) ==
  /\ \/ status = "ok" /\ renamed /\ NewFile /\ rewritePid' = FALSE
     \/ UNCHANGED <<file, appendfd, appendseldb, based, doubled, rewritePid>>
  /\ bgrewritebuf' = <<>> /\ covers' = FALSE /\ temp' = <<>> /\ renamed' = FALSE

(* open, write and rename can each fail, and open does when the child has  *)
(* left no file: the old file stays in use.                                *)
BackgroundRewriteDoneHandler(status) ==
  /\ \/ status = "ok" /\ renamed /\ NewFile
     \/ UNCHANGED <<file, appendfd, appendseldb, based, doubled>>
  /\ bgrewritebuf' = <<>> /\ rewritePid' = FALSE /\ covers' = FALSE
  /\ temp' = <<>> /\ renamed' = FALSE

(* wait3 returns any child that has exited.  serverCron takes it for the   *)
(* BGSAVE child if the pid matches, and for the rewrite child if not.      *)
Reap ==
  \/ /\ Exited(saver) /\ savePid
     /\ saver' = "none" /\ savePid' = FALSE
     /\ UNCHANGED <<file, appendfd, appendseldb, bgrewritebuf, based, covers,
                    doubled, rewritePid, rewriter, temp, renamed, orphan>>
  \/ /\ Exited(rewriter)
     /\ BackgroundRewriteDoneHandler(rewriter)
     /\ rewriter' = "none"
     /\ UNCHANGED <<savePid, saver, orphan>>
  \/ /\ orphan # "none"
     /\ BackgroundRewriteDoneHandler(orphan)
     /\ orphan' = "none"
     /\ UNCHANGED <<rewriter, savePid, saver>>

\* A save parameter has been reached and nothing runs in the background.
AutoSave ==
  /\ ~savePid /\ ~rewritePid /\ used.saves < MaxSaves
  /\ savePid' = TRUE /\ saver' = "running"
  /\ used' = [used EXCEPT !.saves = @ + 1]
  /\ UNCHANGED <<file, appendfd, appendseldb, bgrewritebuf, based, covers, doubled,
                 rewritePid, rewriter, temp, renamed, orphan>>

ServerCron ==
  /\ TurnOver
  /\ \/ /\ savePid \/ rewritePid
        /\ IF Exited(saver) \/ Exited(rewriter) \/ orphan # "none" THEN Reap
           ELSE UNCHANGED <<file, appendfd, appendseldb, bgrewritebuf, based,
                            covers, doubled, children>>
        /\ UNCHANGED used
     \/ AutoSave
     \/ /\ ~savePid /\ ~rewritePid
        /\ UNCHANGED <<file, appendfd, appendseldb, bgrewritebuf, based, covers,
                       doubled, children, used>>
  /\ phase' = "poll"
  /\ UNCHANGED <<lineage, appendonly, aofbuf, pending, fired, turnStart>>

\* The timer of serverCron is not due.
NoCron ==
  /\ TurnOver /\ phase' = "poll"
  /\ UNCHANGED <<server, children, pending, fired, used, history>>

-----------------------------------------------------------------------------
(* The children, crashes and restarts.                                     *)

\* The temporary file is closed and renamed, or the write or the rename has
\* failed, or the child was killed, before or after the rename.
RewriterExits ==
  /\ rewriter = "running" /\ phase \in {"poll", "events"}
  /\ \/ rewriter' = "ok" /\ renamed' = TRUE
     \/ rewriter' = "error" /\ renamed' = FALSE
     \/ rewriter' = "killed" /\ renamed' \in BOOLEAN
  /\ UNCHANGED <<server, rewritePid, temp, savePid, saver, orphan, loop, used, history>>

SaverExits ==
  /\ saver = "running" /\ phase \in {"poll", "events"}
  /\ saver' \in {"ok", "error", "killed"}
  /\ UNCHANGED <<server, rewritePid, rewriter, temp, renamed, savePid, orphan, loop,
                 used, history>>

Crash ==
  /\ phase \in {"poll", "events"} /\ used.crashes < MaxCrashes
  /\ phase' = "down"
  /\ UNCHANGED <<server, children, pending, fired, used, history>>

\* What redis-check-aof finds as it reads one command after the other: it gets
\* to the end of the file, or stops at a command that is not all there.
ReadsToTheEnd(f) == ~f.torn

\* redis-check-aof --fix truncates the torn command.
CheckAofFix ==
  /\ phase = "down" /\ ~ReadsToTheEnd(file)
  /\ file' = [file EXCEPT !.torn = FALSE]
  /\ UNCHANGED <<lineage, appendonly, appendfd, appendseldb, aofbuf, bgrewritebuf,
                 children, loop, used, history>>

\* The server starts with "appendonly yes" and refuses a torn file.
Start ==
  /\ phase \in {"down", "exited"} /\ ~file.torn
  /\ used.crashes < MaxCrashes
  /\ used' = [used EXCEPT !.crashes = @ + 1]
  /\ lineage' = <<Replay(file.log)>>
  /\ appendonly' = TRUE /\ appendfd' = "open" /\ appendseldb' = -1
  /\ aofbuf' = <<>> /\ bgrewritebuf' = <<>>
  /\ rewritePid' = FALSE /\ rewriter' = "none" /\ temp' = <<>> /\ renamed' = FALSE
  /\ savePid' = FALSE /\ saver' = "none" /\ orphan' = "none"
  /\ pending' = {}
  /\ fired' = [c \in Clients |-> {}]
  /\ phase' = "poll"
  /\ turnStart' = 1
  /\ based' = TRUE /\ covers' = FALSE /\ doubled' = FALSE
  /\ UNCHANGED file

-----------------------------------------------------------------------------
\* A readable client whose command changes nothing here.
OtherCommand(c) ==
  /\ Reads(c, FALSE)
  /\ UNCHANGED lineage /\ Replies(c)
  /\ UNCHANGED <<file, appendonly, appendfd, appendseldb, aofbuf, bgrewritebuf,
                 children, phase, used, history>>

Command ==
  \E c \in Clients, more \in BOOLEAN :
    \/ \E db \in DBs : Write(c, db, more)
    \/ BgrewriteaofCommand(c, more)
    \/ BgsaveCommand(c, more)
    \/ StopAppendOnly(c, more)
    \/ StartAppendOnly(c, more)
    \/ StopAppendOnlyFails(c)

Next ==
  \/ BeforeSleep \/ BeforeSleepFails
  \/ Command
  \/ \E c \in Clients : OtherCommand(c) \/ ShutdownCommand(c) \/ SendReplyToClient(c)
  \/ ServerCron \/ NoCron
  \/ RewriterExits \/ SaverExits
  \/ Crash \/ CheckAofFix \/ Start

Spec == Init /\ [][Next]_vars

(* The event loop goes on turning, every handler of a turn runs, and the   *)
(* timer of serverCron comes due again and again.                          *)
Fairness ==
  /\ WF_vars(BeforeSleep \/ BeforeSleepFails)
  /\ \A c \in Clients : WF_vars(OtherCommand(c)) /\ WF_vars(SendReplyToClient(c))
  /\ WF_vars(ServerCron \/ NoCron)
  /\ SF_vars(ServerCron)

FairSpec == Spec /\ Fairness

-----------------------------------------------------------------------------
(* Properties.                                                             *)

Alive == phase \in {"poll", "events"}

TypeOK ==
  /\ lineage \in Seq([DBs -> Nat]) /\ lineage # <<>>
  /\ file.torn \in BOOLEAN
  /\ appendonly \in BOOLEAN /\ appendfd \in {"open", "closed", "stale"}
  /\ appendseldb \in DBs \cup {-1}
  /\ rewritePid \in BOOLEAN /\ savePid \in BOOLEAN
  /\ {rewriter, saver} \subseteq {"none", "running", "ok", "error", "killed"}
  /\ renamed \in BOOLEAN /\ orphan \in {"none", "ok", "error", "killed"}
  /\ pending \subseteq Clients
  /\ fired \in [Clients -> SUBSET {"r", "w"}]
  /\ phase \in {"poll", "events", "exited", "down"}
  /\ turnStart \in 1 .. Len(lineage)

\* Every child there is, killed ones included, will be waited for: serverCron
\* calls wait3 only while one of the two pids is set, and a child it takes for
\* the rewrite child must not clear the pid of a live one.
ChildrenKnown ==
  /\ rewriter # "none" => rewritePid
  /\ saver # "none" <=> savePid
  /\ orphan # "none" => rewritePid /\ rewriter = "none"

\* What is in the file and what is about to be written to it rebuild the
\* dataset, commands that select databases included, through rewrites,
\* failed rewrites, CONFIG SET and restarts.
AofExactUnlessDoubled ==
  Alive /\ appendonly /\ based /\ ~doubled
    => Replay(file.log \o aofbuf) = Dataset

\* A crash loses at most the writes of the turn it interrupts, and never a
\* write without the ones after it: the file rebuilds a dataset the server
\* has been through, no older than the start of the turn.
CrashLosesOneTurn ==
  appendonly /\ based /\ ~doubled
    => \E n \in turnStart .. Len(lineage) : Replay(file.log) = lineage[n]

\* startAppendOnly keeps the number of a descriptor it has closed, which the
\* next connection may be given: nothing is ever written to it.  (What the
\* close of that number at the end of a rewrite, redis.c:1377, would do to
\* such a connection is outside this property.)
StaleFdNeverWritten ==
  appendfd = "stale" => aofbuf = <<>> /\ ~appendonly

\* A rewrite that has ended, well or not, stops being in progress, so that
\* another can be started and the difference buffer stops growing.
RewriteReaped ==
  Exited(rewriter) ~> (~rewritePid \/ phase \in {"down", "exited"})
=============================================================================
