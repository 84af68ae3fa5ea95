----------------------------- MODULE SlaveProofs -----------------------------
(***************************************************************************)
(* A slave agrees with its master, its append only file and its own slave, *)
(* but for the ways `doubt' names: for any number of writes, children,     *)
(* SLAVEOF commands, failures and crashes, and any length of the dump.     *)
(***************************************************************************)
EXTENDS Slave, TLAPS

Datasets == [m : Nat, own : Nat]
States == {"whole", "torn", "unsigned"}
Files == [data : Datasets, state : States]

Links == [open : BOOLEAN, silent : BOOLEAN, dump : Nat \cup {NoDump}, stream : Nat]

Types ==
  /\ up \in BOOLEAN /\ appendonly \in BOOLEAN
  /\ pc \in {"cron", "connected", "asked", "reading", "renamed"}
  /\ data \in Datasets /\ image \in Datasets /\ log \in Datasets /\ rewritten \in Datasets
  /\ disk \in Files \cup {NoDump} /\ orphans \subseteq Datasets
  /\ sub \in Datasets \cup {NoDump} /\ master \in Nat
  /\ link \in Links
  /\ tmp \in [parts : Nat, state : States]

\* Without a process there is no slave and no child that anybody waits for.
DownIsQuiet == ~up => sub = NoDump /\ rewriter = "none" /\ pc = "cron"

\* While syncWithMaster runs the server is not connected yet, and what the
\* master has sent is its dump and the stream of what it has run since.
DumpAndStream ==
  pc # "cron" =>
    /\ replstate = "connect"
    /\ IF link.dump = NoDump THEN link.stream = 0 ELSE link.dump + link.stream = master
    /\ pc \in {"reading", "renamed"} => link.dump # NoDump
    /\ pc = "renamed" => disk # NoDump
    /\ pc = "renamed" /\ "overwritten" \notin doubt => disk.data = Dataset(link.dump, 0)

\* The master sends a connected slave what it runs.
StreamOn == up /\ replstate = "connected" => link.dump # NoDump

\* The rewriting child and its difference buffer rebuild the dataset, unless
\* the rewrite after a synchronisation was refused.
RewriteFollows ==
  /\ "refused" \in doubt => "log" \in doubt
  /\ up /\ appendonly /\ rewriter # "none" /\ "refused" \notin doubt => rewritten = data

SlaveInv ==
  /\ Types /\ DownIsQuiet /\ DumpAndStream /\ StreamOn /\ RewriteFollows
  /\ CopiesAgreeUnlessInDoubt

\* An INCR of either key on a dataset, and on what is no dataset.
LEMMA IncrOf ==
  ASSUME NEW who \in {"m", "own"}
  PROVE  /\ \A d \in Datasets : Incr(d, who) \in Datasets
         /\ \A d \in Datasets : Incr(d, "m") = Dataset(d.m + 1, d.own)
         /\ Incr(NoDump, who) = NoDump
BY NoDumpAssumption DEF Incr, Dataset, Datasets

\* A dump file is one, and not the lack of one.
LEMMA FileOf ==
  ASSUME NEW d \in Datasets, NEW state \in States
  PROVE  /\ File(d, state) \in Files /\ File(d, state) # NoDump
         /\ File(d, state).data = d /\ File(d, state).state = state
<1>1. File(d, state) \in Files
  BY DEF File, Files
<1> QED
  BY <1>1, NoDumpAssumption DEF File, Files, Datasets, States

\* The links the actions make.
LEMMA LinkOf ==
  /\ NoLink \in Links /\ NoLink.dump = NoDump /\ ~NoLink.open
  /\ LET new == [NoLink EXCEPT !.open = TRUE]
     IN  new \in Links /\ new.dump = NoDump /\ new.stream = 0
  /\ \A l \in Links :
       /\ l.dump \in Nat \cup {NoDump} /\ l.stream \in Nat
       /\ LET new == [l EXCEPT !.stream = @ + 1]
          IN  /\ new \in Links /\ new.open = l.open /\ new.dump = l.dump
              /\ new.stream = l.stream + 1
       /\ l.stream > 0 =>
            LET new == [l EXCEPT !.stream = @ - 1]
            IN  /\ new \in Links /\ new.open = l.open /\ new.dump = l.dump
                /\ new.stream = l.stream - 1
       /\ \A n \in Nat : LET new == [l EXCEPT !.dump = n]
                         IN  /\ new \in Links /\ new.open = l.open /\ new.dump = n
                             /\ new.stream = l.stream
       /\ LET new == [l EXCEPT !.open = FALSE]
          IN  new \in Links /\ new.dump = l.dump /\ new.stream = l.stream /\ ~new.open
       /\ LET new == [l EXCEPT !.silent = TRUE]
          IN  new \in Links /\ new.dump = l.dump /\ new.stream = l.stream /\ new.open = l.open
<1>1. NoLink \in Links /\ NoLink.dump = NoDump /\ ~NoLink.open
  BY DEF NoLink, Links
<1>2. LET new == [NoLink EXCEPT !.open = TRUE]
      IN  new \in Links /\ new.dump = NoDump /\ new.stream = 0
  <2>1. NoLink \in Links /\ NoLink.dump = NoDump /\ NoLink.stream = 0
    BY DEF NoLink, Links
  <2>2. ASSUME NEW l \in Links
        PROVE  LET new == [l EXCEPT !.open = TRUE]
               IN  new \in Links /\ new.dump = l.dump /\ new.stream = l.stream
    BY DEF Links
  <2> QED
    BY <2>1, <2>2
<1>3. ASSUME NEW l \in Links
      PROVE  /\ l.dump \in Nat \cup {NoDump} /\ l.stream \in Nat
             /\ LET new == [l EXCEPT !.stream = @ + 1]
                IN  /\ new \in Links /\ new.open = l.open /\ new.dump = l.dump
                    /\ new.stream = l.stream + 1
             /\ l.stream > 0 =>
                  LET new == [l EXCEPT !.stream = @ - 1]
                  IN  /\ new \in Links /\ new.open = l.open /\ new.dump = l.dump
                      /\ new.stream = l.stream - 1
  BY DEF Links
<1>4. ASSUME NEW l \in Links, NEW n \in Nat
      PROVE  LET new == [l EXCEPT !.dump = n]
             IN  /\ new \in Links /\ new.open = l.open /\ new.dump = n
                 /\ new.stream = l.stream
  BY DEF Links
<1>5. ASSUME NEW l \in Links
      PROVE  /\ LET new == [l EXCEPT !.open = FALSE]
                IN  new \in Links /\ new.dump = l.dump /\ new.stream = l.stream /\ ~new.open
             /\ LET new == [l EXCEPT !.silent = TRUE]
                IN  /\ new \in Links /\ new.dump = l.dump /\ new.stream = l.stream
                    /\ new.open = l.open
  BY DEF Links
<1> QED
  BY <1>1, <1>2, <1>3, <1>4, <1>5

LEMMA Initially == Init => SlaveInv
BY NoDumpAssumption
DEF Init, SlaveInv, Types, States, DownIsQuiet, DumpAndStream, StreamOn, RewriteFollows, Datasets,
    Dataset, Empty, NoLink, Links, CopiesAgreeUnlessInDoubt, ConnectedIsExact, LogFollows, SubFollows

\* A command changes the dataset and all its copies alike.
LEMMA WriteStep == SlaveInv /\ (LocalWrite \/ MasterCommand) => SlaveInv'
<1> SUFFICES ASSUME SlaveInv, NEW who \in {"m", "own"}, Propagate(who), Serving,
                    \/ who = "own" /\ LocalWrite
                    \/ who = "m" /\ MasterCommand
             PROVE  SlaveInv'
  BY DEF LocalWrite, MasterCommand
<1> USE DEF SlaveInv, Serving
<1>1. /\ UNCHANGED <<up, appendonly, pc, replstate, tmp, disk, orphans, image, rewriter, master>>
      /\ UNCHANGED <<link.open, link.dump>> /\ link' \in Links
      /\ doubt' = doubt \/ doubt' = doubt \cup {"written"}
  <2>1. CASE LocalWrite
    BY <2>1 DEF LocalWrite, process, sync, Types
  <2>2. CASE MasterCommand
    <3>1. link \in Links /\ link' = [link EXCEPT !.stream = @ - 1] /\ link.stream > 0
      BY <2>2 DEF MasterCommand, Types
    <3>2. link' \in Links /\ UNCHANGED <<link.open, link.dump>>
      BY <3>1, LinkOf
    <3> QED
      BY <2>2, <3>2 DEF MasterCommand, process, sync
  <2> QED
    BY <2>1, <2>2
<1>2. Types'
  BY <1>1, IncrOf DEF Propagate, Types
<1>3. LogFollows'
  BY <1>1 DEF Propagate, LogFollows, CopiesAgreeUnlessInDoubt
<1>4. SubFollows'
  BY <1>1, IncrOf, NoDumpAssumption
  DEF Propagate, SubFollows, CopiesAgreeUnlessInDoubt, Types, Datasets
<1>5. ConnectedIsExact'
  <2>1. CASE who = "own"
    BY <2>1, <1>1 DEF LocalWrite, ConnectedIsExact, CopiesAgreeUnlessInDoubt
  <2>2. CASE who = "m"
    <3>1. link \in Links /\ link' = [link EXCEPT !.stream = @ - 1] /\ link.stream > 0
      BY <2>2 DEF MasterCommand, Types
    <3>2. link'.stream = link.stream - 1 /\ link.stream \in Nat
      BY <3>1, LinkOf
    <3>3. data' = Dataset(data.m + 1, data.own) /\ doubt' = doubt
      BY <2>2, IncrOf DEF MasterCommand, Propagate, Types
    <3>4. ASSUME data = Dataset(master - link.stream, 0)
          PROVE  data' = Dataset(master' - link'.stream, 0)
      BY <1>1, <3>2, <3>3, <3>4 DEF Dataset, Types
    <3> QED
      BY <1>1, <3>3, <3>4 DEF ConnectedIsExact, CopiesAgreeUnlessInDoubt
  <2> QED
    BY <2>1, <2>2
<1>6. RewriteFollows'
  BY <1>1 DEF Propagate, RewriteFollows
<1>7. DownIsQuiet' /\ DumpAndStream' /\ StreamOn'
  BY <1>1 DEF DownIsQuiet, DumpAndStream, StreamOn
<1> QED
  BY <1>2, <1>3, <1>4, <1>5, <1>6, <1>7 DEF CopiesAgreeUnlessInDoubt

\* The children, and the slave's own slave.
LEMMA ChildStep ==
  SlaveInv /\ (\/ SubSyncs \/ BgsaveCommand \/ SaverEnds \/ OrphanEnds
               \/ BackgroundSaveDoneHandler \/ BgrewriteaofCommand \/ RewriterEnds
               \/ BackgroundRewriteDoneHandler)
    => SlaveInv'
<1> SUFFICES ASSUME SlaveInv PROVE
      /\ SubSyncs \/ BgsaveCommand \/ BackgroundSaveDoneHandler => SlaveInv'
      /\ SaverEnds \/ OrphanEnds => SlaveInv'
      /\ BgrewriteaofCommand \/ RewriterEnds => SlaveInv'
      /\ BackgroundRewriteDoneHandler => SlaveInv'
  OBVIOUS
<1> USE DEF SlaveInv, Types, DownIsQuiet, DumpAndStream, StreamOn, RewriteFollows,
            CopiesAgreeUnlessInDoubt, ConnectedIsExact, LogFollows, SubFollows,
            process, sync, files, children
<1>1. ASSUME SubSyncs \/ BgsaveCommand \/ BackgroundSaveDoneHandler PROVE SlaveInv'
  BY <1>1 DEF SubSyncs, BgsaveCommand, BackgroundSaveDoneHandler, Serving
<1>2. ASSUME SaverEnds \/ OrphanEnds PROVE SlaveInv'
  <2>1. PICK d \in Datasets : Overwrites(d)
    BY <1>2 DEF SaverEnds, OrphanEnds
  <2>2. /\ UNCHANGED <<up, appendonly, pc, replstate, tmp, data, log, image, rewriter, rewritten>>
        /\ UNCHANGED <<sub, master, link>> /\ orphans' \subseteq orphans
    BY <1>2 DEF SaverEnds, OrphanEnds
  <2>3. disk' \in Files /\ disk' # NoDump
    BY <2>1, FileOf DEF Overwrites, States
  <2>4. Types' /\ DownIsQuiet' /\ StreamOn' /\ RewriteFollows'
    BY <2>1, <2>2, <2>3 DEF Overwrites
  <2>5. DumpAndStream'
    BY <2>1, <2>2, <2>3 DEF Overwrites
  <2> QED
    BY <2>1, <2>2, <2>4, <2>5 DEF Overwrites
<1>3. ASSUME BgrewriteaofCommand \/ RewriterEnds PROVE SlaveInv'
  BY <1>3 DEF BgrewriteaofCommand, RewriterEnds, RewriteFork, Serving
<1>4. ASSUME BackgroundRewriteDoneHandler PROVE SlaveInv'
  BY <1>4 DEF BackgroundRewriteDoneHandler, Serving
<1> QED
  BY <1>1, <1>2, <1>3, <1>4

\* syncWithMaster up to the load, and all the ways to leave it.
LEMMA SyncBegins ==
  SlaveInv /\ (\/ Connect \/ Ask \/ ReadCount \/ ReadBlock \/ RenameDump
               \/ LinkError \/ TimesOut \/ CallFails)
    => SlaveInv'
<1> SUFFICES ASSUME SlaveInv PROVE
      /\ Connect \/ Ask \/ ReadCount \/ ReadBlock => SlaveInv'
      /\ RenameDump => SlaveInv'
      /\ LinkError \/ TimesOut \/ CallFails => SlaveInv'
  OBVIOUS
<1> USE DEF SlaveInv, Types, DownIsQuiet, DumpAndStream, StreamOn, RewriteFollows,
            CopiesAgreeUnlessInDoubt, ConnectedIsExact, LogFollows, SubFollows,
            process, files, children, Step, Heard
<1>1. ASSUME Connect \/ Ask \/ ReadCount \/ ReadBlock PROVE SlaveInv'
  <2>1. CASE Connect
    BY <2>1, LinkOf DEF Connect
  <2>2. CASE Ask
    BY <2>2 DEF Ask
  <2>3. CASE ReadCount
    BY <2>3 DEF ReadCount, States
  <2>4. CASE ReadBlock
    <3>1. tmp' \in [parts : Nat, state : States]
      BY <2>4 DEF ReadBlock, States
    <3> QED
      BY <2>4, <3>1 DEF ReadBlock
  <2> QED
    BY <1>1, <2>1, <2>2, <2>3, <2>4
<1>2. ASSUME RenameDump PROVE SlaveInv'
  <2>1. disk' \in Files /\ disk' # NoDump /\ disk'.data = Dataset(link.dump, 0)
    <3>1. link.dump \in Nat /\ tmp.state \in States
      BY <1>2, LinkOf DEF RenameDump
    <3>2. Dataset(link.dump, 0) \in Datasets
      BY <3>1 DEF Dataset, Datasets
    <3> QED
      BY <1>2, <3>1, <3>2, FileOf DEF RenameDump
  <2> QED
    BY <1>2, <2>1 DEF RenameDump
<1>3. ASSUME LinkError \/ TimesOut \/ CallFails PROVE SlaveInv'
  <2>1. replstate = "connect" /\ GiveUp
    BY <1>3 DEF LinkError, TimesOut, CallFails, Waiting
  <2> QED
    BY <2>1, LinkOf DEF GiveUp
<1> QED
  BY <1>1, <1>2, <1>3

\* The server is gone.
LEMMA DeathStep ==
  ASSUME SlaveInv, up, Dies, doubt' = doubt,
         UNCHANGED <<appendonly, replstate, tmp, data, disk, log, image, rewritten, master>>
  PROVE  SlaveInv'
BY LinkOf
DEF SlaveInv, Types, DownIsQuiet, DumpAndStream, StreamOn, RewriteFollows, Dies,
       CopiesAgreeUnlessInDoubt, ConnectedIsExact, LogFollows, SubFollows

\* The load failed: the dataset is empty, and every copy of it is in doubt.
LEMMA EmptyStep ==
  ASSUME SlaveInv, up, pc = "renamed", EmptyDb,
         UNCHANGED <<appendonly, tmp, disk, log, image, master>>
  PROVE  SlaveInv'
<1>1. /\ pc' = "cron" /\ replstate' = "connect" /\ data' \in Datasets
      /\ link' \in Links /\ up'
      /\ UNCHANGED <<up, appendonly, sub, orphans, rewriter, rewritten>>
  BY LinkOf DEF EmptyDb, SlaveInv, DumpAndStream, Empty, Dataset, Datasets
<1>2. /\ sub' # NoDump => "reloaded" \in doubt'
      /\ appendonly' => "log" \in doubt' /\ "refused" \in doubt'
      /\ "refused" \in doubt' => "log" \in doubt'
  BY DEF EmptyDb, Reloaded, SlaveInv, RewriteFollows
<1>3. Types'
  BY <1>1 DEF SlaveInv, Types
<1>4. ConnectedIsExact' /\ LogFollows' /\ SubFollows' /\ RewriteFollows'
  BY <1>1, <1>2 DEF ConnectedIsExact, LogFollows, SubFollows, RewriteFollows
<1>5. DownIsQuiet' /\ DumpAndStream' /\ StreamOn'
  BY <1>1 DEF DownIsQuiet, DumpAndStream, StreamOn
<1> QED
  BY <1>3, <1>4, <1>5 DEF SlaveInv, CopiesAgreeUnlessInDoubt

\* The dump is loaded: the dataset is the master's at the SYNC.
LEMMA LoadStep == SlaveInv /\ LoadDump => SlaveInv'
<1> SUFFICES ASSUME SlaveInv, LoadDump PROVE SlaveInv'
  OBVIOUS
<1>1. CASE disk.state = "torn" /\ Dies /\ UNCHANGED <<replstate, data, rewritten, used, doubt>>
  BY <1>1, DeathStep DEF LoadDump
<1>2. CASE EmptyDb
  BY <1>2, EmptyStep DEF LoadDump
<1>3. CASE Load
  <2>1. /\ up' /\ pc' = "cron" /\ replstate' = "connected" /\ data' = disk.data
        /\ UNCHANGED <<up, appendonly, tmp, disk, log, image, master, link, sub, orphans>>
        /\ "overwritten" \in doubt' <=> "overwritten" \in doubt
        /\ sub # NoDump => "reloaded" \in doubt'
        /\ appendonly => "log" \in doubt'
        /\ "refused" \in doubt' => "log" \in doubt'
        /\ appendonly => "refused" \in doubt' \/ rewritten' = disk.data
        /\ rewritten' = rewritten \/ rewritten' = disk.data
    BY <1>3 DEF Load, LoadDump, Reloaded, RewriteFork, SlaveInv, DumpAndStream
  <2>2. disk \in Files /\ link.dump \in Nat /\ link.dump + link.stream = master
    BY LinkOf DEF LoadDump, SlaveInv, DumpAndStream, Types
  <2>3. Types'
    BY <2>1, <2>2 DEF SlaveInv, Types, Files
  <2>4. ConnectedIsExact'
    <3>1. "overwritten" \notin doubt => disk.data = Dataset(link.dump, 0)
      BY DEF LoadDump, SlaveInv, DumpAndStream
    <3>2. link.dump = master - link.stream
      BY <2>2 DEF SlaveInv, Types, Links
    <3> QED
      BY <2>1, <3>1, <3>2 DEF ConnectedIsExact
  <2>5. LogFollows' /\ SubFollows' /\ RewriteFollows'
    BY <2>1 DEF LogFollows, SubFollows, RewriteFollows
  <2>6. DownIsQuiet' /\ DumpAndStream' /\ StreamOn'
    BY <2>1, <2>2, NoDumpAssumption DEF DownIsQuiet, DumpAndStream, StreamOn
  <2> QED
    BY <2>3, <2>4, <2>5, <2>6 DEF SlaveInv, CopiesAgreeUnlessInDoubt
<1> QED
  BY <1>1, <1>2, <1>3 DEF LoadDump

\* SLAVEOF, the loss of the link, and what the master does.
LEMMA LinkStep ==
  SlaveInv /\ (MasterLost \/ SlaveofCommand \/ MasterWrites \/ MasterForks \/ LinkFails)
    => SlaveInv'
<1> SUFFICES ASSUME SlaveInv PROVE
      /\ MasterLost \/ SlaveofCommand => SlaveInv'
      /\ MasterWrites => SlaveInv'
      /\ MasterForks \/ LinkFails => SlaveInv'
  OBVIOUS
<1> USE DEF SlaveInv, Types, DownIsQuiet, DumpAndStream, StreamOn, RewriteFollows,
            CopiesAgreeUnlessInDoubt, ConnectedIsExact, LogFollows, SubFollows,
            process, sync, files, children
<1>1. ASSUME MasterLost \/ SlaveofCommand PROVE SlaveInv'
  <2>1. CASE MasterLost
    BY <2>1, LinkOf DEF MasterLost, FreeMaster, Serving
  <2>2. CASE SlaveofCommand
    BY <2>2, LinkOf DEF SlaveofCommand, Serving
  <2> QED
    BY <1>1, <2>1, <2>2
<1>2. ASSUME MasterWrites PROVE SlaveInv'
  <2>1. link' \in Links /\ link'.dump = link.dump /\ link'.open = link.open
        /\ link'.stream = IF link.dump = NoDump THEN link.stream ELSE link.stream + 1
    BY <1>2 DEF MasterWrites, Links
  <2>2. link.stream \in Nat /\ link.dump \in Nat \cup {NoDump} /\ master' = master + 1
    BY <1>2, LinkOf DEF MasterWrites
  <2>3. Types'
    BY <1>2, <2>1, <2>2 DEF MasterWrites
  <2>4. DumpAndStream'
    BY <1>2, <2>1, <2>2 DEF MasterWrites
  <2>5. ConnectedIsExact'
    <3>1. up /\ replstate = "connected" => master' - link'.stream = master - link.stream
      BY <2>1, <2>2
    <3> QED
      BY <1>2, <2>1, <3>1 DEF MasterWrites
  <2> QED
    BY <1>2, <2>1, <2>3, <2>4, <2>5 DEF MasterWrites
<1>3. ASSUME MasterForks \/ LinkFails PROVE SlaveInv'
  <2>1. CASE MasterForks
    <3>1. link' \in Links /\ link'.dump = master /\ link'.stream = link.stream /\ pc = "asked"
      BY <2>1 DEF MasterForks, Links
    <3> QED
      BY <2>1, <3>1, NoDumpAssumption DEF MasterForks
  <2>2. CASE LinkFails
    <3>1. link' \in Links /\ UNCHANGED <<link.dump, link.stream>> /\ (link'.open => link.open)
      BY <2>2, ZenonT(30) DEF LinkFails, Links
    <3> QED
      BY <2>2, <3>1 DEF LinkFails
  <2> QED
    BY <1>3, <2>1, <2>2
<1> QED
  BY <1>1, <1>2, <1>3

LEMMA RestartStep == SlaveInv /\ Restart => SlaveInv'
BY NoDumpAssumption
DEF SlaveInv, Types, DownIsQuiet, DumpAndStream, StreamOn, RewriteFollows, Restart, OnDisk, Empty,
    CopiesAgreeUnlessInDoubt, ConnectedIsExact, LogFollows, SubFollows, sync, files, children,
    Dataset, Datasets, Files

LEMMA SlaveStep == SlaveInv /\ [Next]_vars => SlaveInv'
<1>1. SlaveInv /\ UNCHANGED vars => SlaveInv'
  BY DEF SlaveInv, Types, DownIsQuiet, DumpAndStream, StreamOn, RewriteFollows,
         CopiesAgreeUnlessInDoubt, ConnectedIsExact, LogFollows, SubFollows,
         vars, process, sync, files, children
<1>2. SlaveInv /\ Crash => SlaveInv'
  BY DeathStep DEF Crash
<1> QED
  BY <1>1, <1>2, WriteStep, ChildStep, SyncBegins, LoadStep, LinkStep, RestartStep
  DEF Next, SyncStep

\* The dataset of a slave, its append only file and its own slave are what they
\* stand for in every reachable state, but for the ways in `doubt', a load that
\* failed after emptyDb among them (syncWithMaster, rdbLoad, call,
\* backgroundRewriteDoneHandler).
THEOREM CopiesAlwaysAgree == Spec => []CopiesAgreeUnlessInDoubt
<1>1. SlaveInv => CopiesAgreeUnlessInDoubt
  BY DEF SlaveInv
<1> QED
  BY <1>1, Initially, SlaveStep, PTL DEF Spec

=============================================================================
