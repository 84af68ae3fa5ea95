------------------------------ MODULE AofProofs ------------------------------
(***************************************************************************)
(* What holds of the append only file for every number of clients,         *)
(* databases, commands, forks, switches and restarts: the server always    *)
(* waits for the children it has, and never writes to a descriptor it has  *)
(* closed; and the log in the file, with what waits to be written to it,   *)
(* rebuilds the dataset, or after a crash one of the turn it interrupted.  *)
(***************************************************************************)
EXTENDS Aof, InductionFacts, SequenceTheorems, TLAPS

-----------------------------------------------------------------------------
(* Children.                                                               *)

\* The pids and the children change together, in the steps that fork, kill,
\* reap or restart; every other step leaves them all alone.
ChildState == <<rewritePid, rewriter, savePid, saver, orphan>>

LEMMA InitChildren == Init => ChildrenKnown
  BY DEF Init, ChildrenKnown

LEMMA QuietChildren ==
  ASSUME ChildrenKnown, UNCHANGED ChildState
  PROVE  ChildrenKnown'
  BY DEF ChildrenKnown, ChildState

LEMMA ForkChildren ==
  ASSUME ChildrenKnown, ~rewritePid, Fork
  PROVE  ChildrenKnown'
  BY DEF ChildrenKnown, Fork

LEMMA KillChildren ==
  ASSUME ChildrenKnown, savePid, NEW r, KillSaver(r)
  PROVE  ChildrenKnown'
  BY DEF ChildrenKnown, KillSaver, Exited

\* wait3 may return any of the children: each branch of serverCron clears
\* the pid of the child it takes it for.
LEMMA ReapChildren ==
  ASSUME ChildrenKnown, Reap
  PROVE  ChildrenKnown'
  BY DEF ChildrenKnown, Reap, BackgroundRewriteDoneHandler, Exited

LEMMA CronChildren ==
  ASSUME ChildrenKnown, ServerCron
  PROVE  ChildrenKnown'
  <1>1. CASE Reap
    BY <1>1, ReapChildren
  <1>2. CASE AutoSave
    BY <1>2 DEF AutoSave, ChildrenKnown
  <1>3. CASE UNCHANGED children
    BY <1>3, QuietChildren DEF children, ChildState
  <1> QED
    BY <1>1, <1>2, <1>3 DEF ServerCron, children

LEMMA NextChildren ==
  ASSUME ChildrenKnown, [Next]_vars
  PROVE  ChildrenKnown'
  <1>1. ASSUME NEW c \in Clients, NEW db \in DBs, NEW more \in BOOLEAN, Write(c, db, more)
        PROVE  ChildrenKnown'
    BY <1>1, QuietChildren DEF Write, children, ChildState
  <1>2. ASSUME NEW c \in Clients, NEW more \in BOOLEAN, BgrewriteaofCommand(c, more)
        PROVE  ChildrenKnown'
    BY <1>2, ForkChildren DEF BgrewriteaofCommand
  <1>3. ASSUME NEW c \in Clients, NEW more \in BOOLEAN, BgsaveCommand(c, more)
        PROVE  ChildrenKnown'
    BY <1>3 DEF BgsaveCommand, ChildrenKnown
  <1>4. ASSUME NEW c \in Clients, NEW more \in BOOLEAN, StopAppendOnly(c, more)
        PROVE  ChildrenKnown'
    <2>1. CASE savePid
      BY <1>4, <2>1, KillChildren DEF StopAppendOnly
    <2>2. CASE ~savePid
      BY <1>4, <2>2, QuietChildren DEF StopAppendOnly, children, ChildState
    <2> QED
      BY <2>1, <2>2
  <1>5. ASSUME NEW c \in Clients, NEW more \in BOOLEAN, StartAppendOnly(c, more)
        PROVE  ChildrenKnown'
    <2>1. CASE UNCHANGED children
      BY <2>1, QuietChildren DEF children, ChildState
    <2>2. CASE ~rewritePid /\ Fork
      BY <2>2, ForkChildren
    <2> QED
      BY <1>5, <2>1, <2>2 DEF StartAppendOnly
  <1>6. ASSUME NEW c \in Clients, StopAppendOnlyFails(c)
        PROVE  ChildrenKnown'
    BY <1>6, QuietChildren DEF StopAppendOnlyFails, FlushFails, children, ChildState
  <1>7. ASSUME NEW c \in Clients, ShutdownCommand(c)
        PROVE  ChildrenKnown'
    BY <1>7 DEF ShutdownCommand, ChildrenKnown
  <1>8. ASSUME NEW c \in Clients, OtherCommand(c) \/ SendReplyToClient(c)
        PROVE  ChildrenKnown'
    BY <1>8, QuietChildren DEF OtherCommand, SendReplyToClient, children, ChildState
  <1>9. CASE RewriterExits \/ SaverExits
    BY <1>9 DEF RewriterExits, SaverExits, ChildrenKnown
  <1>10. CASE Start
    BY <1>10 DEF Start, ChildrenKnown
  <1>11. CASE BeforeSleep \/ BeforeSleepFails \/ NoCron \/ Crash \/ CheckAofFix
    BY <1>11, QuietChildren
    DEF BeforeSleep, BeforeSleepFails, FlushFails, NoCron, Crash, CheckAofFix,
        children, ChildState
  <1>12. CASE UNCHANGED vars
    BY <1>12, QuietChildren DEF vars, children, ChildState
  <1> QED
    BY <1>1, <1>2, <1>3, <1>4, <1>5, <1>6, <1>7, <1>8, <1>9, <1>10, <1>11, <1>12,
       CronChildren
    DEF Next, Command

\* No child is forgotten: whichever child wait3 returns, and whatever
\* stopAppendOnly and SHUTDOWN have killed, a child that runs or has not been
\* waited for is one serverCron still waits for.
THEOREM ChildrenAlwaysKnown == Spec => []ChildrenKnown
  BY InitChildren, NextChildren, PTL DEF Spec

-----------------------------------------------------------------------------
(* The descriptor startAppendOnly closes and keeps.                        *)

\* With the append only file off nothing waits to be written: stopAppendOnly
\* flushes first, and feedAppendOnlyFile is not called.
OffIsFlushed == ~appendonly => aofbuf = <<>>

FdInv == StaleFdNeverWritten /\ OffIsFlushed

LEMMA NextFd ==
  ASSUME FdInv, [Next]_vars
  PROVE  FdInv'
  <1> USE DEF FdInv, StaleFdNeverWritten, OffIsFlushed
  <1>1. ASSUME NEW c \in Clients, NEW db \in DBs, NEW more \in BOOLEAN, Write(c, db, more)
        PROVE  FdInv'
    BY <1>1 DEF Write
  <1>2. ASSUME NEW c \in Clients, NEW more \in BOOLEAN,
               BgrewriteaofCommand(c, more) \/ BgsaveCommand(c, more)
        PROVE  FdInv'
    BY <1>2 DEF BgrewriteaofCommand, BgsaveCommand
  <1>3. ASSUME NEW c \in Clients, NEW more \in BOOLEAN, StopAppendOnly(c, more)
        PROVE  FdInv'
    BY <1>3 DEF StopAppendOnly
  <1>4. ASSUME NEW c \in Clients, NEW more \in BOOLEAN, StartAppendOnly(c, more)
        PROVE  FdInv'
    BY <1>4 DEF StartAppendOnly, RewriteRefused
  <1>5. ASSUME NEW c \in Clients,
               StopAppendOnlyFails(c) \/ ShutdownCommand(c) \/ OtherCommand(c)
                 \/ SendReplyToClient(c)
        PROVE  FdInv'
    <2>1. UNCHANGED <<appendonly, appendfd, aofbuf>>
      <3>1. CASE StopAppendOnlyFails(c)
        BY <3>1 DEF StopAppendOnlyFails, FlushFails
      <3>2. CASE ShutdownCommand(c) \/ OtherCommand(c)
        BY <3>2 DEF ShutdownCommand, OtherCommand
      <3>3. CASE SendReplyToClient(c)
        BY <3>3 DEF SendReplyToClient, server
      <3> QED
        BY <1>5, <3>1, <3>2, <3>3
    <2> QED
      BY <2>1
  <1>6. CASE ServerCron
    <2>1. UNCHANGED <<appendonly, aofbuf>>
      BY <1>6 DEF ServerCron
    <2>2. appendfd' = "stale" => appendfd = "stale"
      BY <1>6 DEF ServerCron, Reap, AutoSave, BackgroundRewriteDoneHandler, NewFile
    <2> QED
      BY <2>1, <2>2
  <1>7. CASE BeforeSleep \/ BeforeSleepFails \/ NoCron \/ Crash \/ CheckAofFix \/ Start
    BY <1>7 DEF BeforeSleep, BeforeSleepFails, FlushFails, NoCron, Crash, CheckAofFix,
                Start, server
  <1>8. CASE RewriterExits \/ SaverExits \/ UNCHANGED vars
    BY <1>8 DEF RewriterExits, SaverExits, vars, server
  <1> QED
    BY <1>1, <1>2, <1>3, <1>4, <1>5, <1>6, <1>7, <1>8 DEF Next, Command

\* Nothing is ever written to the descriptor startAppendOnly has closed and
\* still remembers, which by then may be a client's socket.
THEOREM StaleFdNeverUsed == Spec => []StaleFdNeverWritten
  <1>1. Init => FdInv
    BY DEF Init, FdInv, StaleFdNeverWritten, OffIsFlushed
  <1>2. FdInv => StaleFdNeverWritten
    BY DEF FdInv
  <1> QED
    BY <1>1, <1>2, NextFd, PTL DEF Spec

-----------------------------------------------------------------------------
(* What loadAppendOnlyFile does with one more command.                     *)

Commands == [op : {"select", "incr", "set"}, arg : Nat]

\* The database selected after the last command.
Selected(log) == SelectedAt(log, Len(log))

\* The commands of a log that change database db, the last of them that sets
\* its counter, and the counter they leave.
Mine(log, db) == {i \in DOMAIN log : log[i].op # "select" /\ SelectedAt(log, i) = db}
Sets(log, db) == {i \in Mine(log, db) : log[i].op = "set"}
From(log, db) == IF Sets(log, db) = {} THEN 0 ELSE Max(Sets(log, db))
Counter(log, db) ==
  (IF From(log, db) = 0 THEN 0 ELSE log[From(log, db)].arg)
    + Cardinality({i \in Mine(log, db) : i > From(log, db)})

LEMMA ReplayIsCounters == \A log : Replay(log) = [db \in DBs |-> Counter(log, db)]
  BY DEF Replay, Mine, Sets, From, Counter

\* What comes behind does not change what was selected.
LEMMA SelectedBefore ==
  ASSUME NEW log \in Seq(Commands), NEW more \in Seq(Commands), NEW i \in 0 .. Len(log)
  PROVE  SelectedAt(log \o more, i) = SelectedAt(log, i)
  <1> DEFINE selects == {j \in 1 .. i : log[j].op = "select"}
  <1>1. \A j \in 1 .. i : (log \o more)[j] = log[j]
    OBVIOUS
  <1>2. {j \in 1 .. i : (log \o more)[j].op = "select"} = selects
    BY <1>1
  <1>3. SelectedAt(log, i) = IF selects = {} THEN 0 ELSE log[Max(selects)].arg
    BY DEF SelectedAt
  <1>4. SelectedAt(log \o more, i) = IF selects = {} THEN 0 ELSE (log \o more)[Max(selects)].arg
    BY <1>2 DEF SelectedAt
  <1>5. selects # {} => Max(selects) \in 1 .. i
    <2>1. selects \subseteq 0 .. i /\ i \in Nat
      OBVIOUS
    <2> HIDE DEF selects
    <2>2. selects # {} => Max(selects) \in selects
      BY <2>1, GreatestElement
    <2> QED
      BY <2>2 DEF selects
  <1> HIDE DEF selects
  <1> QED
    BY <1>1, <1>3, <1>4, <1>5

LEMMA SelectedAfter ==
  ASSUME NEW log \in Seq(Commands), NEW c \in Commands
  PROVE  Selected(log \o <<c>>) = IF c.op = "select" THEN c.arg ELSE Selected(log)
  <1> DEFINE n == Len(log)
             all == log \o <<c>>
             selects == {j \in 1 .. n + 1 : all[j].op = "select"}
             before == {j \in 1 .. n : log[j].op = "select"}
  <1>1. /\ n \in Nat /\ all[n + 1] = c /\ Len(all) = n + 1
        /\ \A j \in 1 .. n : all[j] = log[j]
    OBVIOUS
  <1>2. Selected(all) = IF selects = {} THEN 0 ELSE all[Max(selects)].arg
    BY <1>1 DEF Selected, SelectedAt
  <1>3. Selected(log) = IF before = {} THEN 0 ELSE log[Max(before)].arg
    BY DEF Selected, SelectedAt
  <1>4. selects = before \cup (IF c.op = "select" THEN {n + 1} ELSE {})
    BY <1>1
  <1>5. /\ before \subseteq 0 .. n + 1 /\ selects \subseteq 0 .. n + 1
        /\ n \in Nat /\ n + 1 \in Nat
    BY <1>1
  <1>7. \A j \in before : j \in 1 .. n
    BY <1>1
  <1> HIDE DEF n, all, selects, before
  <1>8. CASE c.op = "select"
    <2>1. n + 1 \in selects
      BY <1>4, <1>8
    <2>2. Max(selects) \in selects /\ Max(selects) >= n + 1
      BY <1>5, <2>1, GreatestElement
    <2>3. Max(selects) \in 0 .. n + 1
      BY <1>5, <2>2
    <2>4. Max(selects) = n + 1
      BY <1>5, <2>2, <2>3
    <2> QED
      BY <1>1, <1>2, <1>8, <2>1, <2>4 DEF all
  <1>9. CASE c.op # "select"
    <2>1. selects = before
      BY <1>4, <1>9
    <2>2. before # {} => Max(before) \in 1 .. n
      BY <1>5, <1>7, GreatestElement
    <2> QED
      BY <1>1, <1>2, <1>3, <1>9, <2>1, <2>2 DEF all
  <1> QED
    BY <1>8, <1>9

LEMMA ArgIsNat ==
  ASSUME NEW log \in Seq(Commands), NEW i \in 1 .. Len(log)
  PROVE  log[i].arg \in Nat
  <1>1. log[i] \in Commands
    OBVIOUS
  <1> QED
    BY <1>1 DEF Commands

\* The positions a command of a log can have.
LEMMA MineBounded ==
  ASSUME NEW log \in Seq(Commands), NEW db
  PROVE  /\ Mine(log, db) \subseteq 1 .. Len(log) /\ IsFiniteSet(Mine(log, db))
         /\ From(log, db) \in 0 .. Len(log)
         /\ From(log, db) # 0 => From(log, db) \in Sets(log, db)
         /\ \A i \in Sets(log, db) : From(log, db) >= i
         /\ Counter(log, db) \in Nat
  <1>1. Mine(log, db) \subseteq 1 .. Len(log) /\ Sets(log, db) \subseteq 0 .. Len(log)
    BY DEF Mine, Sets
  <1>2. IsFiniteSet(Mine(log, db))
    BY <1>1, FS_Interval, FS_Subset
  <1>3. /\ From(log, db) \in 0 .. Len(log)
        /\ From(log, db) # 0 => From(log, db) \in Sets(log, db)
        /\ \A i \in Sets(log, db) : From(log, db) >= i
    BY <1>1, GreatestElement DEF From
  <1>4. Cardinality({i \in Mine(log, db) : i > From(log, db)}) \in Nat
    <2>1. IsFiniteSet({i \in Mine(log, db) : i > From(log, db)})
      BY <1>2, FS_Subset
    <2> QED
      BY <2>1, FS_CardinalityType
  <1>5. From(log, db) # 0 => log[From(log, db)].arg \in Nat
    <2>1. \A i \in 1 .. Len(log) : log[i].arg \in Nat
      BY ArgIsNat
    <2> QED
      BY <1>1, <1>3, <2>1 DEF Sets, Mine
  <1> QED
    BY <1>1, <1>2, <1>3, <1>4, <1>5 DEF Counter

LEMMA MineAfter ==
  ASSUME NEW log \in Seq(Commands), NEW c \in Commands, NEW db
  PROVE  Mine(log \o <<c>>, db) = Mine(log, db)
           \cup (IF c.op # "select" /\ Selected(log) = db THEN {Len(log) + 1} ELSE {})
  <1> DEFINE n == Len(log)
             all == log \o <<c>>
  <1>1. /\ n \in Nat /\ all[n + 1] = c /\ DOMAIN all = 1 .. n + 1
        /\ \A j \in 1 .. n : all[j] = log[j]
        /\ DOMAIN log = 1 .. n /\ Len(all) = n + 1
    OBVIOUS
  <1>2. \A i \in 1 .. n : SelectedAt(all, i) = SelectedAt(log, i)
    <2>1. <<c>> \in Seq(Commands)
      OBVIOUS
    <2>2. \A i \in 1 .. n : i \in 0 .. Len(log)
      OBVIOUS
    <2> QED
      BY <2>1, <2>2, SelectedBefore
  <1>3. c.op # "select" => SelectedAt(all, n + 1) = Selected(log)
    BY <1>1, SelectedAfter DEF Selected
  <1> HIDE DEF n, all
  <1> QED
    BY <1>1, <1>2, <1>3 DEF Mine, n, all

\* SELECT changes no counter, INCR adds one to the counter of the selected
\* database, SET replaces it.
LEMMA CounterAfter ==
  ASSUME NEW log \in Seq(Commands), NEW c \in Commands, NEW db
  PROVE  Counter(log \o <<c>>, db) =
           IF c.op = "select" \/ Selected(log) # db THEN Counter(log, db)
           ELSE IF c.op = "set" THEN c.arg ELSE Counter(log, db) + 1
  <1> DEFINE n == Len(log)
             all == log \o <<c>>
             M == Mine(log, db)
             late == {i \in M : i > From(log, db)}
  <1>1. /\ n \in Nat /\ all[n + 1] = c /\ \A j \in 1 .. n : all[j] = log[j]
    OBVIOUS
  <1>2. /\ M \subseteq 1 .. n /\ IsFiniteSet(M) /\ From(log, db) \in 0 .. n
        /\ Counter(log, db) \in Nat
    BY MineBounded
  <1>3. Counter(log, db) = (IF From(log, db) = 0 THEN 0 ELSE log[From(log, db)].arg)
                             + Cardinality(late)
    BY DEF Counter
  <1>4. IsFiniteSet(late) /\ n + 1 \notin late
    <2>1. IsFiniteSet(late)
      BY <1>2, FS_Subset
    <2> QED
      BY <1>2, <2>1
  <1>5. \A i \in M : all[i].op = log[i].op
    BY <1>1, <1>2
  <1>6. CASE c.op = "select" \/ Selected(log) # db
    <2>1. Mine(all, db) = M
      <3>1. Mine(all, db) = M \cup (IF c.op # "select" /\ Selected(log) = db THEN {n + 1} ELSE {})
        BY MineAfter
      <3>2. ~ (c.op # "select" /\ Selected(log) = db)
        BY <1>6
      <3> HIDE DEF M, all
      <3> QED
        BY <3>1, <3>2
    <2>2. Sets(all, db) = Sets(log, db)
      BY <1>5, <2>1 DEF Sets
    <2>3. From(all, db) = From(log, db)
      BY <2>2 DEF From
    <2>4. From(log, db) # 0 => all[From(log, db)] = log[From(log, db)]
      BY <1>1, <1>2
    <2> HIDE DEF n, all
    <2> QED
      BY <1>3, <1>6, <2>1, <2>3, <2>4 DEF Counter, all
  <1>7. CASE c.op = "incr" /\ Selected(log) = db
    <2>1. Mine(all, db) = M \cup {n + 1}
      BY <1>7, MineAfter
    <2>2. Sets(all, db) = Sets(log, db)
      BY <1>1, <1>5, <1>7, <2>1 DEF Sets
    <2>3. From(all, db) = From(log, db)
      BY <2>2 DEF From
    <2>4. From(log, db) # 0 => all[From(log, db)] = log[From(log, db)]
      BY <1>1, <1>2
    <2>5. {i \in Mine(all, db) : i > From(log, db)} = late \cup {n + 1}
      BY <1>1, <1>2, <2>1
    <2>6. Cardinality(late \cup {n + 1}) = Cardinality(late) + 1
      BY <1>4, FS_AddElement
    <2>7. Counter(all, db) = (IF From(log, db) = 0 THEN 0 ELSE log[From(log, db)].arg)
                               + (Cardinality(late) + 1)
      BY <2>3, <2>4, <2>5, <2>6 DEF Counter
    <2>8. Cardinality(late) \in Nat /\ (From(log, db) # 0 => log[From(log, db)].arg \in Nat)
      <3>1. Cardinality(late) \in Nat
        BY <1>4, FS_CardinalityType
      <3>2. From(log, db) # 0 => log[From(log, db)].arg \in Nat
        <4>1. \A i \in 1 .. Len(log) : log[i].arg \in Nat
          BY ArgIsNat
        <4> QED
          BY <1>2, <4>1
      <3> QED
        BY <3>1, <3>2
    <2> HIDE DEF n, all, late
    <2> QED
      BY <1>3, <1>7, <2>7, <2>8 DEF all
  <1>8. CASE c.op = "set" /\ Selected(log) = db
    <2>1. Mine(all, db) = M \cup {n + 1}
      BY <1>8, MineAfter
    <2>2. n + 1 \in Sets(all, db) /\ Sets(all, db) \subseteq 0 .. n + 1
      BY <1>1, <1>2, <1>8, <2>1 DEF Sets
    <2>3. From(all, db) = n + 1
      <3>1. Max(Sets(all, db)) \in Sets(all, db) /\ Max(Sets(all, db)) >= n + 1
        BY <1>1, <2>2, GreatestElement
      <3>2. Max(Sets(all, db)) = n + 1
        BY <1>1, <2>2, <3>1
      <3> QED
        BY <2>2, <3>2 DEF From
    <2>4. {i \in Mine(all, db) : i > From(all, db)} = {}
      BY <1>1, <1>2, <2>1, <2>3
    <2>5. Counter(all, db) = c.arg + 0
      <3>1. Cardinality({i \in Mine(all, db) : i > From(all, db)}) = 0
        BY <2>4, FS_EmptySet
      <3>2. From(all, db) # 0 /\ all[From(all, db)] = c
        BY <1>1, <2>3
      <3> HIDE DEF all
      <3> QED
        BY <3>1, <3>2 DEF Counter
    <2> QED
      BY <1>8, <2>5 DEF Commands
  <1> QED
    BY <1>6, <1>7, <1>8 DEF Commands

LEMMA ReplayTyped ==
  ASSUME NEW log \in Seq(Commands)
  PROVE  Replay(log) \in [DBs -> Nat]
  BY MineBounded, ReplayIsCounters

LEMMA ReplayNothing == Replay(<<>>) = Empty /\ Selected(<<>>) = 0
  <1>1. SelectedAt(<<>>, 0) = 0 /\ Len(<<>>) = 0
    BY DEF SelectedAt
  <1>2. ASSUME NEW db PROVE Counter(<<>>, db) = 0
    <2>1. Mine(<<>>, db) = {} /\ Sets(<<>>, db) = {}
      BY DEF Mine, Sets
    <2>2. {i \in Mine(<<>>, db) : i > From(<<>>, db)} = {}
      BY <2>1
    <2>3. Cardinality({i \in Mine(<<>>, db) : i > From(<<>>, db)}) = 0
      BY <2>2, FS_EmptySet
    <2>4. From(<<>>, db) = 0
      BY <2>1 DEF From
    <2> QED
      BY <2>3, <2>4 DEF Counter
  <1> QED
    BY <1>1, <1>2, ReplayIsCounters DEF Empty, Selected

LEMMA ReplaySelect ==
  ASSUME NEW log \in Seq(Commands), NEW db \in Nat
  PROVE  /\ log \o <<Select(db)>> \in Seq(Commands)
         /\ Replay(log \o <<Select(db)>>) = Replay(log)
         /\ Selected(log \o <<Select(db)>>) = db
  <1>1. Select(db) \in Commands /\ Select(db).op = "select" /\ Select(db).arg = db
    BY DEF Select, Commands
  <1>2. \A e \in DBs : Counter(log \o <<Select(db)>>, e) = Counter(log, e)
    BY <1>1, CounterAfter
  <1> QED
    BY <1>1, <1>2, SelectedAfter, ReplayIsCounters

LEMMA ReplayIncr ==
  ASSUME NEW log \in Seq(Commands), NEW db \in DBs, Selected(log) = db
  PROVE  /\ log \o <<Incr>> \in Seq(Commands)
         /\ Replay(log \o <<Incr>>) = [Replay(log) EXCEPT ![db] = @ + 1]
         /\ Selected(log \o <<Incr>>) = db
  <1>1. Incr \in Commands /\ Incr.op = "incr"
    BY DEF Incr, Commands
  <1>2. \A e \in DBs : Counter(log \o <<Incr>>, e)
                         = IF e = db THEN Counter(log, e) + 1 ELSE Counter(log, e)
    BY <1>1, CounterAfter
  <1> QED
    BY <1>1, <1>2, SelectedAfter, ReplayIsCounters

LEMMA CounterSetTo ==
  ASSUME NEW log \in Seq(Commands), NEW db \in Nat, NEW v \in Nat
  PROVE  /\ log \o <<Select(db), SetTo(v)>> \in Seq(Commands)
         /\ \A e \in DBs : Counter(log \o <<Select(db), SetTo(v)>>, e)
                           = IF e = db THEN v ELSE Counter(log, e)
  <1> DEFINE mid == log \o <<Select(db)>>
             all == log \o <<Select(db), SetTo(v)>>
  <1>1. /\ Select(db) \in Commands /\ Select(db).op = "select"
        /\ SetTo(v) \in Commands /\ SetTo(v).op = "set" /\ SetTo(v).arg = v
    BY DEF Select, SetTo, Commands
  <1>2. all = mid \o <<SetTo(v)>> /\ mid \in Seq(Commands) /\ all \in Seq(Commands)
    BY <1>1
  <1>3. Selected(mid) = db /\ \A e : Counter(mid, e) = Counter(log, e)
    BY <1>1, CounterAfter, ReplaySelect
  <1> HIDE DEF mid
  <1>4. ASSUME NEW e \in DBs PROVE Counter(all, e) = IF e = db THEN v ELSE Counter(log, e)
    <2> DEFINE c == SetTo(v)
    <2>0. c \in Commands /\ c.op = "set" /\ c.arg = v
      BY <1>1
    <2> HIDE DEF c
    <2>1. Counter(mid \o <<c>>, e) =
            IF c.op = "select" \/ Selected(mid) # e THEN Counter(mid, e)
            ELSE IF c.op = "set" THEN c.arg ELSE Counter(mid, e) + 1
      BY <1>2, <2>0, CounterAfter
    <2> QED
      BY <1>2, <1>3, <2>0, <2>1 DEF c
  <1> QED
    BY <1>2, <1>4

-----------------------------------------------------------------------------
(* rewriteAppendOnlyFile writes a log that rebuilds the dataset.           *)

LEMMA DBsBounded == Max(DBs) \in DBs /\ \A db \in DBs : db \in 0 .. Max(DBs)
  <1>1. PICK n \in Nat : DBs \subseteq 0 .. n
    BY DBsAssumption, FiniteIsBounded
  <1>2. Max(DBs) \in DBs /\ \A db \in DBs : Max(DBs) >= db
    BY <1>1, DBsAssumption, GreatestElement
  <1> QED
    BY <1>2, DBsAssumption

LEMMA RewriteRebuilds ==
  ASSUME NEW dataset \in [DBs -> Nat]
  PROVE  Rewrite(dataset) \in Seq(Commands) /\ Replay(Rewrite(dataset)) = dataset
  <1> DEFINE Part(n) == IF n \in DBs /\ dataset[n] # 0
                          THEN <<Select(n), SetTo(dataset[n])>> ELSE <<>>
             M == Max(DBs)
             Parts(f) == f = [n \in 0 .. M |-> (IF n = 0 THEN <<>> ELSE f[n - 1]) \o Part(n)]
  <1>1. Rewrite(dataset) = (CHOOSE f : Parts(f))[M]
    BY DEF Rewrite
  <1>m. M \in Nat
    BY DBsBounded, DBsAssumption
  <1>2. M \in Nat /\ \A n \in 0 .. M : Part(n) \in Seq(Commands)
    <2>2. ASSUME NEW n \in DBs PROVE <<Select(n), SetTo(dataset[n])>> \in Seq(Commands)
      <3>1. Select(n) \in Commands /\ SetTo(dataset[n]) \in Commands
        BY DBsAssumption DEF Select, SetTo, Commands
      <3> QED
        BY <3>1
    <2> QED
      BY <1>m, <2>2
  <1>3. \E f : Parts(f)
    <2> DEFINE F == [x \in Seq(Commands) \X (0 .. M) |-> x[1] \o Part(x[2])]
    <2>0. PICK f : Recursive(f, M, Part(0), F)
      <3> HIDE DEF F, Part, M
      <3> QED
        BY <1>m, RecursionExists
    <2>1. f = [i \in 0 .. M |-> IF i = 0 THEN Part(0) ELSE F[<<f[i - 1], i>>]]
      <3> HIDE DEF F, Part, M
      <3> QED
        BY <2>0 DEF Recursive
    <2> DEFINE P == {n \in Nat : n \in 0 .. M => f[n] \in Seq(Commands)}
    <2> HIDE DEF Part, M
    <2>2. 0 \in P
      BY <1>2, <2>1
    <2>3. ASSUME NEW n \in Nat, n \in P PROVE n + 1 \in P
      <3>1. CASE n + 1 \in 0 .. M
        <4>1. f[n] \in Seq(Commands) /\ Part(n + 1) \in Seq(Commands)
          BY <1>2, <2>3, <3>1
        <4>2. f[n + 1] = F[<<f[n], n + 1>>]
          <5>1. n + 1 # 0 /\ (n + 1) - 1 = n
            OBVIOUS
          <5> QED
            BY <2>1, <3>1, <5>1
        <4>3. F[<<f[n], n + 1>>] = f[n] \o Part(n + 1)
          BY <3>1, <4>1
        <4>4. f[n + 1] \in Seq(Commands)
          <5> HIDE DEF F, P
          <5> QED
            BY <4>1, <4>2, <4>3
        <4> QED
          BY <4>4
      <3> QED
        BY <3>1
    <2>4. Nat \subseteq P
      <3> HIDE DEF P
      <3> QED
        BY <2>2, <2>3, InductiveSet
    <2>5. ASSUME NEW n \in 0 .. M
          PROVE  f[n] = (IF n = 0 THEN <<>> ELSE f[n - 1]) \o Part(n)
      <3>1. CASE n = 0
        BY <1>2, <2>1, <3>1
      <3>2. CASE n # 0
        <4>1. n - 1 \in 0 .. M /\ n - 1 \in Nat
          BY <1>2, <3>2
        <4>2. f[n - 1] \in Seq(Commands)
          BY <2>4, <4>1
        <4>3. f[n] = F[<<f[n - 1], n>>]
          BY <2>1, <3>2
        <4> QED
          BY <3>2, <4>2, <4>3
      <3> QED
        BY <3>1, <3>2
    <2>6. f = [n \in 0 .. M |-> f[n]]
      BY <2>1
    <2>7. Parts(f)
      BY <2>5, <2>6
    <2> QED
      BY <2>7
  <1>4. PICK f : f = (CHOOSE g : Parts(g)) /\ Parts(f)
    <2> HIDE DEF Parts
    <2> QED
      BY <1>3
  <1> DEFINE Good(n) == /\ f[n] \in Seq(Commands)
                        /\ \A db \in DBs :
                             Counter(f[n], db) = IF db <= n THEN dataset[db] ELSE 0
             Q == {n \in Nat : n \in 0 .. M => Good(n)}
  <1>5. ASSUME NEW n \in 0 .. M, NEW log \in Seq(Commands), f[n] = log \o Part(n),
               \A db \in DBs : Counter(log, db) = IF db < n THEN dataset[db] ELSE 0
        PROVE  Good(n)
    <2>1. CASE n \in DBs /\ dataset[n] # 0
      <3>1. f[n] = log \o <<Select(n), SetTo(dataset[n])>>
        BY <1>5, <2>1
      <3>2. n \in Nat /\ dataset[n] \in Nat
        BY <2>1
      <3>3. f[n] \in Seq(Commands)
            /\ \A e \in DBs : Counter(f[n], e) = IF e = n THEN dataset[n] ELSE Counter(log, e)
        <4> DEFINE v == dataset[n]
                   all == f[n]
        <4>1. v \in Nat /\ all = log \o <<Select(n), SetTo(v)>>
          BY <3>1, <3>2
        <4> HIDE DEF v, all, Part, M
        <4>2. /\ log \o <<Select(n), SetTo(v)>> \in Seq(Commands)
              /\ \A e \in DBs : Counter(log \o <<Select(n), SetTo(v)>>, e)
                                = IF e = n THEN v ELSE Counter(log, e)
          BY <3>2, <4>1, CounterSetTo
        <4> QED
          BY <4>1, <4>2 DEF v, all
      <3>4. ASSUME NEW db \in DBs
            PROVE  Counter(f[n], db) = IF db <= n THEN dataset[db] ELSE 0
        <4>1. db \in Nat /\ n \in Nat
          BY <2>1, DBsAssumption
        <4>2. Counter(f[n], db) = IF db = n THEN dataset[n] ELSE Counter(log, db)
          BY <3>3
        <4>3. Counter(log, db) = IF db < n THEN dataset[db] ELSE 0
          BY <1>5
        <4> HIDE DEF Part, M
        <4> QED
          BY <4>1, <4>2, <4>3
      <3> QED
        BY <3>3, <3>4
    <2>2. CASE ~ (n \in DBs /\ dataset[n] # 0)
      <3>1. f[n] = log
        BY <1>5, <2>2
      <3> QED
        BY <1>m, <1>5, <2>2, <3>1, DBsAssumption, SMTT(30)
    <2> QED
      BY <2>1, <2>2
  <1>6. 0 \in Q
    <2>1. f[0] = <<>> \o Part(0)
      BY <1>2, <1>4, SMTT(30)
    <2>2. \A db \in DBs : Counter(<<>>, db) = IF db < 0 THEN dataset[db] ELSE 0
      BY ReplayNothing, ReplayIsCounters, DBsAssumption DEF Empty
    <2> HIDE DEF Part, M
    <2>3. Good(0)
      <3>1. <<>> \in Seq(Commands) /\ 0 \in 0 .. M
        BY <1>m
      <3> QED
        BY <1>5, <2>1, <2>2, <3>1
    <2> QED
      BY <2>3
  <1>7. ASSUME NEW n \in Nat, n \in Q PROVE n + 1 \in Q
    <2>1. CASE n + 1 \in 0 .. M
      <3>1. Good(n)
        BY <1>7, <2>1, <1>2
      <3>2. f[n + 1] = f[n] \o Part(n + 1)
        <4>1. n + 1 # 0 /\ (n + 1) - 1 = n
          OBVIOUS
        <4> HIDE DEF Part, M
        <4> QED
          BY <1>4, <2>1, <4>1
      <3>3. \A db \in DBs : Counter(f[n], db) = IF db < n + 1 THEN dataset[db] ELSE 0
        BY <3>1, DBsAssumption
      <3> HIDE DEF Part, M
      <3>4. Good(n + 1)
        BY <1>5, <2>1, <3>1, <3>2, <3>3
      <3> QED
        BY <3>4
    <2> QED
      BY <2>1
  <1>8. Nat \subseteq Q
    <2> HIDE DEF Q
    <2> QED
      BY <1>6, <1>7, InductiveSet
  <1>9. Good(M)
    BY <1>2, <1>8
  <1>10. Replay(f[M]) = dataset
    <2>1. \A db \in DBs : Counter(f[M], db) = dataset[db]
      BY <1>9, DBsBounded
    <2> QED
      BY <2>1, ReplayIsCounters
  <1> QED
    BY <1>1, <1>4, <1>9, <1>10

-----------------------------------------------------------------------------
(* What the log says while the server runs.                                *)

\* A log from which the dataset can be rebuilt, and behind which
\* feedAppendOnlyFile may go on with appendseldb.
Logged(log) ==
  /\ Replay(log) = Dataset
  /\ appendseldb # -1 => Selected(log) = appendseldb

\* A log that rebuilds a dataset of this turn.
Been(log) == \E n \in turnStart .. Len(lineage) : Replay(log) = lineage[n]

Exact == based /\ ~doubled

DataTyped ==
  /\ lineage \in Seq([DBs -> Nat]) /\ lineage # <<>>
  /\ turnStart \in 1 .. Len(lineage)
  /\ file = [log |-> file.log, torn |-> file.torn] /\ file.log \in Seq(Commands)
  /\ aofbuf \in Seq(Commands)
  /\ bgrewritebuf \in Seq(Commands) /\ temp \in Seq(Commands)
  /\ appendseldb \in DBs \cup {-1}

\* based, covers and the buffers follow the switches of the server.
Modes ==
  /\ OffIsFlushed
  /\ based => appendonly
  /\ covers => appendonly /\ rewritePid
  /\ ~rewritePid => bgrewritebuf = <<>>

\* The file with what waits for it, the rewritten file with the difference,
\* every place where a write can be cut, and the file itself.
FileLogged == Alive /\ Exact => Logged(file.log \o aofbuf)
RewriteLogged == Alive /\ covers => Logged(temp \o bgrewritebuf)
CutsBeen ==
  Alive /\ Exact => \A m \in 0 .. Len(aofbuf) : Been(file.log \o SubSeq(aofbuf, 1, m))
FileBeen == Exact => Been(file.log)

LogInv == DataTyped /\ Modes /\ FileLogged /\ RewriteLogged /\ CutsBeen /\ FileBeen

LogState == <<lineage, file, appendonly, appendseldb, aofbuf, bgrewritebuf, rewritePid,
              temp, turnStart, based, covers, doubled>>

LEMMA QuietLog ==
  ASSUME LogInv, UNCHANGED LogState, Alive' => Alive
  PROVE  LogInv'
  BY DEF LogInv, DataTyped, Modes, OffIsFlushed, FileLogged, RewriteLogged, CutsBeen,
         FileBeen, LogState, Logged, Been, Exact, Dataset

LEMMA InitLog == Init => LogInv
  <1> SUFFICES ASSUME Init PROVE LogInv
    OBVIOUS
  <1>1. /\ lineage = <<Empty>> /\ turnStart = 1 /\ file = [log |-> <<>>, torn |-> FALSE]
        /\ aofbuf = <<>> /\ bgrewritebuf = <<>> /\ temp = <<>> /\ appendseldb = -1
        /\ appendonly = TRUE /\ covers = FALSE
    BY DEF Init
  <1>2. Empty \in [DBs -> Nat] /\ Dataset = Empty
    BY <1>1 DEF Empty, Dataset
  <1>3. DataTyped /\ Modes
    BY <1>1, <1>2 DEF DataTyped, Modes, OffIsFlushed
  <1>4. file.log = <<>> /\ <<>> \o <<>> = <<>> /\ SubSeq(<<>>, 1, 0) = <<>>
    BY <1>1
  <1>5. Been(<<>>)
    <2>1. 1 \in turnStart .. Len(lineage) /\ lineage[1] = Empty
      BY <1>1
    <2> QED
      BY <2>1, ReplayNothing DEF Been
  <1>6. FileLogged
    BY <1>1, <1>2, <1>4, ReplayNothing DEF FileLogged, Logged
  <1>7. CutsBeen
    <2>1. \A m \in 0 .. Len(aofbuf) : m = 0
      BY <1>1
    <2>2. file.log \o SubSeq(aofbuf, 1, 0) = <<>>
      BY <1>1, <1>4
    <2> QED
      BY <1>5, <2>1, <2>2 DEF CutsBeen
  <1> QED
    BY <1>1, <1>3, <1>4, <1>5, <1>6, <1>7 DEF LogInv, FileBeen, RewriteLogged

\* What the proofs below use of the invariant.
LEMMA DatasetTyped ==
  ASSUME DataTyped
  PROVE  /\ Dataset \in [DBs -> Nat] /\ Len(lineage) \in turnStart .. Len(lineage)
         /\ Dataset = lineage[Len(lineage)]
  BY DEF DataTyped, Dataset

-----------------------------------------------------------------------------
(* Commands.                                                               *)

\* Sequences of one and two elements, and where they can be cut.
LEMMA ShortSeqs ==
  ASSUME NEW S, NEW a \in S, NEW b \in S
  PROVE  /\ <<a>> \in Seq(S) /\ <<a, b>> \in Seq(S) /\ <<a>> \o <<b>> = <<a, b>>
         /\ \A m \in 0 .. Len(<<a>>) : SubSeq(<<a>>, 1, m) \in {<<>>, <<a>>}
         /\ \A m \in 0 .. Len(<<a, b>>) :
              SubSeq(<<a, b>>, 1, m) \in {<<>>, <<a>>, <<a, b>>}
  <1>1. <<a>> \in Seq(S) /\ Len(<<a>>) = 1 /\ <<a>>[1] = a
    OBVIOUS
  <1>2. /\ <<a, b>> \in Seq(S) /\ Len(<<a, b>>) = 2
        /\ <<a, b>>[1] = a /\ <<a, b>>[2] = b
    OBVIOUS
  <1>3. <<a>> \o <<b>> = <<a, b>>
    <2> DEFINE s == <<a>>
               t == <<b>>
               u == <<a, b>>
    <2>1. /\ s \in Seq(S) /\ Len(s) = 1 /\ s[1] = a
          /\ t \in Seq(S) /\ Len(t) = 1 /\ t[1] = b
          /\ u \in Seq(S) /\ Len(u) = 2 /\ u[1] = a /\ u[2] = b
      OBVIOUS
    <2> HIDE DEF s, t, u
    <2>2. s \o t \in Seq(S) /\ Len(s \o t) = 2 /\ (s \o t)[1] = a /\ (s \o t)[2] = b
      <3>1. /\ s \o t \in Seq(S) /\ Len(s \o t) = Len(s) + Len(t)
            /\ \A i \in 1 .. Len(s) + Len(t) :
                 (s \o t)[i] = IF i <= Len(s) THEN s[i] ELSE t[i - Len(s)]
        BY <2>1, ConcatProperties
      <3>2. 1 \in 1 .. 1 + 1 /\ 2 \in 1 .. 1 + 1 /\ ~(2 <= 1) /\ 2 - 1 = 1 /\ 1 + 1 = 2
        OBVIOUS
      <3> QED
        BY <2>1, <3>1, <3>2
    <2>3. \A i \in 1 .. 2 : i = 1 \/ i = 2
      OBVIOUS
    <2>4. s \o t = u
      BY <2>1, <2>2, <2>3, SeqEqual
    <2> QED
      BY <2>4 DEF s, t, u
  <1>4. SubSeq(<<a>>, 1, 0) = <<>> /\ SubSeq(<<a, b>>, 1, 0) = <<>>
    BY SubSeqEmpty
  <1>5. SubSeq(<<a>>, 1, 1) = <<a>> /\ SubSeq(<<a, b>>, 1, 2) = <<a, b>>
    BY <1>1, <1>2, SubSeqFull
  <1>6. SubSeq(<<a, b>>, 1, 1) = <<a>>
    <2> DEFINE s == <<a, b>>
               t == <<a>>
    <2>1. s \in Seq(S) /\ Len(s) = 2 /\ s[1] = a /\ t \in Seq(S) /\ Len(t) = 1 /\ t[1] = a
      BY <1>1, <1>2
    <2> HIDE DEF s, t
    <2>2. SubSeq(s, 1, 1) \in Seq(S) /\ Len(SubSeq(s, 1, 1)) = 1 /\ SubSeq(s, 1, 1)[1] = a
      BY <2>1
    <2>3. SubSeq(s, 1, 1) = t
      BY <2>1, <2>2, SeqEqual
    <2> QED
      BY <2>3 DEF s, t
  <1>7. \A m \in 0 .. 1 : m = 0 \/ m = 1
    OBVIOUS
  <1>8. \A m \in 0 .. 2 : m = 0 \/ m = 1 \/ m = 2
    OBVIOUS
  <1> QED
    BY <1>1, <1>2, <1>3, <1>4, <1>5, <1>6, <1>7, <1>8

\* What feedAppendOnlyFile appends when sel is selected.
Buf(sel, db) == (IF db = sel THEN <<>> ELSE <<Select(db)>>) \o <<Incr>>

LEMMA BufTyped == \A sel, db : db \in DBs => Buf(sel, db) \in Seq(Commands)
  <1>1. ASSUME NEW db \in DBs PROVE Incr \in Commands /\ Select(db) \in Commands
    BY DBsAssumption DEF Incr, Select, Commands
  <1>2. ASSUME NEW sel, NEW db \in DBs PROVE Buf(sel, db) \in Seq(Commands)
    <2>1. CASE db = sel
      <3>1. Buf(sel, db) = <<Incr>>
        BY <2>1 DEF Buf
      <3> QED
        BY <1>1, <3>1
    <2>2. CASE db # sel
      <3>1. Buf(sel, db) = <<Select(db)>> \o <<Incr>>
        BY <2>2 DEF Buf
      <3>2. <<Select(db)>> \in Seq(Commands) /\ <<Incr>> \in Seq(Commands)
        BY <1>1
      <3> QED
        BY <3>1, <3>2
    <2> QED
      BY <2>1, <2>2
  <1> QED
    BY <1>2

LEMMA BufAppended ==
  ASSUME NEW log \in Seq(Commands), NEW db \in DBs, NEW sel \in DBs \cup {-1},
         sel # -1 => Selected(log) = sel
  PROVE  /\ Buf(sel, db) \in Seq(Commands)
         /\ Replay(log \o Buf(sel, db)) = [Replay(log) EXCEPT ![db] = @ + 1]
         /\ Selected(log \o Buf(sel, db)) = db
         /\ \A m \in 0 .. Len(Buf(sel, db)) :
              Replay(log \o SubSeq(Buf(sel, db), 1, m))
                \in {Replay(log), Replay(log \o Buf(sel, db))}
  <1>1. Incr \in Commands /\ Select(db) \in Commands /\ db \in Nat
    BY DBsAssumption DEF Incr, Select, Commands
  <1>2. CASE db = sel
    <2>1. Buf(sel, db) = <<Incr>> /\ <<Incr>> \in Seq(Commands)
      BY <1>1, <1>2, ShortSeqs DEF Buf
    <2>2. Selected(log) = db
      BY <1>2, DBsAssumption
    <2>3. \A m \in 0 .. Len(<<Incr>>) : SubSeq(<<Incr>>, 1, m) \in {<<>>, <<Incr>>}
      BY <1>1, ShortSeqs
    <2>4. log \o <<>> = log
      OBVIOUS
    <2> QED
      BY <2>1, <2>2, <2>3, <2>4, ReplayIncr
  <1>3. CASE db # sel
    <2> DEFINE mid == log \o <<Select(db)>>
    <2>1. Buf(sel, db) = <<Select(db), Incr>> /\ <<Select(db), Incr>> \in Seq(Commands)
      BY <1>1, <1>3, ShortSeqs DEF Buf
    <2>2. log \o <<Select(db), Incr>> = mid \o <<Incr>>
      BY <1>1
    <2>3. mid \in Seq(Commands) /\ Replay(mid) = Replay(log) /\ Selected(mid) = db
      BY <1>1, ReplaySelect
    <2>4. \A m \in 0 .. Len(<<Select(db), Incr>>) :
            SubSeq(<<Select(db), Incr>>, 1, m)
              \in {<<>>, <<Select(db)>>, <<Select(db), Incr>>}
      BY <1>1, ShortSeqs
    <2>5. log \o <<>> = log
      OBVIOUS
    <2>6. /\ Replay(mid \o <<Incr>>) = [Replay(mid) EXCEPT ![db] = @ + 1]
          /\ Selected(mid \o <<Incr>>) = db
      <3> HIDE DEF mid
      <3> QED
        BY <2>3, ReplayIncr
    <2>7. \A m \in 0 .. Len(Buf(sel, db)) :
            Replay(log \o SubSeq(Buf(sel, db), 1, m))
              \in {Replay(log), Replay(log \o Buf(sel, db))}
      BY <2>1, <2>3, <2>4, <2>5
    <2> HIDE DEF mid
    <2> QED
      BY <2>1, <2>2, <2>3, <2>6, <2>7
  <1> QED
    BY <1>2, <1>3

\* A buffer behind a buffer, cut somewhere.
LEMMA CutAppended ==
  ASSUME NEW S, NEW a \in Seq(S), NEW b \in Seq(S), NEW m \in 0 .. Len(a \o b)
  PROVE  \/ m \in 0 .. Len(a) /\ SubSeq(a \o b, 1, m) = SubSeq(a, 1, m)
         \/ /\ m - Len(a) \in 0 .. Len(b)
            /\ SubSeq(a \o b, 1, m) = a \o SubSeq(b, 1, m - Len(a))
  <1>1. Len(a \o b) = Len(a) + Len(b) /\ m \in Nat /\ Len(a) \in Nat /\ Len(b) \in Nat
    OBVIOUS
  <1>2. CASE m <= Len(a)
    <2>1. m \in 0 .. Len(a)
      BY <1>1, <1>2
    <2>2. SubSeq(a \o b, 1, m) = SubSeq(a, 1, m)
      BY <1>1, <2>1, SeqEqual
    <2> QED
      BY <2>1, <2>2
  <1>3. CASE m > Len(a)
    <2>1. m - Len(a) \in 0 .. Len(b)
      BY <1>1, <1>3
    <2>2. SubSeq(a \o b, 1, m) = a \o SubSeq(b, 1, m - Len(a))
      BY <1>1, <2>1, SeqEqual
    <2> QED
      BY <2>1, <2>2
  <1> QED
    BY <1>1, <1>2, <1>3

LEMMA WriteLog ==
  ASSUME LogInv, NEW c \in Clients, NEW db \in DBs, NEW more \in BOOLEAN,
         Write(c, db, more)
  PROVE  LogInv'
  <1> DEFINE buf == Buf(appendseldb, db)
             next == [Dataset EXCEPT ![db] = @ + 1]
  <1>1. /\ lineage' = Append(lineage, next)
        /\ UNCHANGED <<file, appendonly, rewritePid, temp, turnStart, based, covers, doubled,
                       phase>>
    BY DEF Write, children, history
  <1>4. DataTyped /\ Modes /\ FileLogged /\ RewriteLogged /\ CutsBeen /\ FileBeen
    BY DEF LogInv
  <1>5. /\ next \in [DBs -> Nat] /\ Dataset' = next
        /\ lineage' \in Seq([DBs -> Nat]) /\ Len(lineage') = Len(lineage) + 1
        /\ Len(lineage) \in Nat /\ turnStart \in 1 .. Len(lineage)
        /\ \A n \in 1 .. Len(lineage) : lineage'[n] = lineage[n]
    <2>1. next \in [DBs -> Nat] /\ lineage \in Seq([DBs -> Nat])
          /\ turnStart \in 1 .. Len(lineage)
      BY <1>4, DatasetTyped DEF DataTyped
    <2> HIDE DEF next
    <2> QED
      BY <1>1, <2>1 DEF Dataset
  <1> DEFINE BeenNow(data) == \E n \in turnStart' .. Len(lineage') : data = lineage'[n]
  <1>7. \A log : Been(log) => BeenNow(Replay(log))
    <2>1. ASSUME NEW log, NEW n \in turnStart .. Len(lineage), Replay(log) = lineage[n]
          PROVE  BeenNow(Replay(log))
      <3>1. n \in 1 .. Len(lineage) /\ n \in turnStart' .. Len(lineage')
        BY <1>1, <1>5
      <3> QED
        BY <1>5, <2>1, <3>1
    <2> QED
      BY <2>1 DEF Been
  <1>8. BeenNow(Dataset) /\ BeenNow(next)
    <2>1. Len(lineage) \in turnStart' .. Len(lineage') /\ Len(lineage) \in 1 .. Len(lineage)
          /\ Len(lineage') \in turnStart' .. Len(lineage')
      BY <1>1, <1>5
    <2>2. lineage'[Len(lineage)] = Dataset /\ lineage'[Len(lineage')] = next
      BY <1>5, <2>1 DEF Dataset
    <2> QED
      BY <2>1, <2>2
  <1>6. FileBeen'
    <2>1. file' = file /\ based' = based /\ doubled' = doubled
      BY <1>1
    <2> HIDE DEF BeenNow
    <2>2. Exact => BeenNow(Replay(file.log))
      BY <1>4, <1>7 DEF FileBeen
    <2>3. Been(file.log)' <=> BeenNow(Replay(file'.log))
      BY DEF Been, BeenNow
    <2> QED
      BY <2>1, <2>2, <2>3 DEF FileBeen, Exact
  <1>2. CASE appendonly
    <2>1. /\ aofbuf' = aofbuf \o buf /\ appendseldb' = db
          /\ bgrewritebuf' = IF rewritePid THEN bgrewritebuf \o buf ELSE bgrewritebuf
      BY <1>2 DEF Write, Feed, Buf
    <2>2. buf \in Seq(Commands)
      BY BufTyped
    <2>3. DataTyped'
      BY <1>1, <1>4, <1>5, <2>1, <2>2, SMTT(30) DEF DataTyped
    <2>4. Modes'
      BY <1>1, <1>2, <1>4, <2>1 DEF Modes, OffIsFlushed
    <2>5. ASSUME NEW log \in Seq(Commands), Logged(log)
          PROVE  /\ Replay(log \o buf) = next /\ Selected(log \o buf) = db
                 /\ \A m \in 0 .. Len(buf) : BeenNow(Replay(log \o SubSeq(buf, 1, m)))
      <3>1. appendseldb \in DBs \cup {-1} /\ (appendseldb # -1 => Selected(log) = appendseldb)
        BY <1>4, <2>5 DEF DataTyped, Logged
      <3>2. /\ Replay(log \o buf) = [Replay(log) EXCEPT ![db] = @ + 1]
            /\ Selected(log \o buf) = db
            /\ \A m \in 0 .. Len(buf) :
                 Replay(log \o SubSeq(buf, 1, m)) \in {Replay(log), Replay(log \o buf)}
        BY <3>1, BufAppended
      <3>3. Replay(log) = Dataset
        BY <2>5 DEF Logged
      <3> HIDE DEF buf, BeenNow
      <3> QED
        BY <1>8, <3>2, <3>3
    <2> HIDE DEF buf, next, BeenNow
    <2>10. Dataset' = next /\ Exact' = Exact /\ Alive' = Alive
      BY <1>1, <1>5 DEF Exact, Alive
    <2>11. /\ file.log \in Seq(Commands) /\ aofbuf \in Seq(Commands)
           /\ temp \in Seq(Commands) /\ bgrewritebuf \in Seq(Commands)
      BY <1>4 DEF DataTyped
    <2>6. FileLogged'
      <3>1. ASSUME Alive, Exact PROVE Replay(file.log \o (aofbuf \o buf)) = next
                                      /\ Selected(file.log \o (aofbuf \o buf)) = db
        <4>1. (file.log \o aofbuf) \o buf = file.log \o (aofbuf \o buf)
              /\ file.log \o aofbuf \in Seq(Commands)
          <5> DEFINE log == file.log
          <5>1. log \in Seq(Commands)
            BY <2>11
          <5> HIDE DEF log
          <5>2. (log \o aofbuf) \o buf = log \o (aofbuf \o buf)
                /\ log \o aofbuf \in Seq(Commands)
            BY <2>2, <2>11, <5>1, ConcatAssociative, ConcatProperties, SMTT(30)
          <5> QED
            BY <5>2 DEF log
        <4> QED
          BY <1>4, <2>5, <3>1, <4>1 DEF FileLogged
      <3>2. file' = file
        BY <1>1
      <3> QED
        BY <2>1, <2>10, <3>1, <3>2 DEF FileLogged, Logged
    <2>7. RewriteLogged'
      <3>1. ASSUME Alive, covers PROVE Replay(temp \o (bgrewritebuf \o buf)) = next
                                      /\ Selected(temp \o (bgrewritebuf \o buf)) = db
        <4>1. (temp \o bgrewritebuf) \o buf = temp \o (bgrewritebuf \o buf)
              /\ temp \o bgrewritebuf \in Seq(Commands)
          BY <2>2, <2>11
        <4> QED
          BY <1>4, <2>5, <3>1, <4>1 DEF RewriteLogged
      <3>2. temp' = temp /\ covers' = covers /\ (covers => rewritePid)
        BY <1>1, <1>4 DEF Modes
      <3> QED
        BY <2>1, <2>10, <3>1, <3>2 DEF RewriteLogged, Logged
    <2>8. CutsBeen'
      <3>1. ASSUME Alive, Exact, NEW m \in 0 .. Len(aofbuf \o buf)
            PROVE  BeenNow(Replay(file.log \o SubSeq(aofbuf \o buf, 1, m)))
        <4>1. CASE m \in 0 .. Len(aofbuf) /\ SubSeq(aofbuf \o buf, 1, m) = SubSeq(aofbuf, 1, m)
          BY <1>4, <1>7, <3>1, <4>1 DEF CutsBeen
        <4>2. CASE /\ m - Len(aofbuf) \in 0 .. Len(buf)
                   /\ SubSeq(aofbuf \o buf, 1, m) = aofbuf \o SubSeq(buf, 1, m - Len(aofbuf))
          <5> DEFINE k == m - Len(aofbuf)
                     cut == SubSeq(buf, 1, k)
          <5>1. k \in 0 .. Len(buf) /\ SubSeq(aofbuf \o buf, 1, m) = aofbuf \o cut
            BY <4>2
          <5>2. cut \in Seq(Commands)
            <6> HIDE DEF k
            <6> QED
              BY <2>2, <5>1
          <5>3. BeenNow(Replay((file.log \o aofbuf) \o cut))
            <6>1. file.log \o aofbuf \in Seq(Commands) /\ Logged(file.log \o aofbuf)
              BY <1>4, <2>11, <3>1 DEF FileLogged
            <6> HIDE DEF k
            <6> QED
              BY <2>5, <5>1, <6>1
          <5> HIDE DEF k, cut
          <5>4. (file.log \o aofbuf) \o cut = file.log \o (aofbuf \o cut)
            <6> DEFINE log == file.log
            <6>1. log \in Seq(Commands)
              BY <2>11
            <6> HIDE DEF log
            <6>2. (log \o aofbuf) \o cut = log \o (aofbuf \o cut)
              BY <2>11, <5>2, <6>1, ConcatAssociative, SMTT(30)
            <6> QED
              BY <6>2 DEF log
          <5> QED
            BY <5>1, <5>3, <5>4
        <4> QED
          BY <2>2, <2>11, <4>1, <4>2, CutAppended
      <3>2. file' = file
        BY <1>1
      <3> QED
        BY <2>1, <2>10, <3>1, <3>2 DEF CutsBeen, Been, BeenNow
    <2> QED
      BY <1>6, <2>3, <2>4, <2>6, <2>7, <2>8 DEF LogInv
  <1>3. CASE ~appendonly
    <2>1. UNCHANGED <<aofbuf, bgrewritebuf, appendseldb>>
      BY <1>3 DEF Write
    <2>2. DataTyped' /\ Modes'
      BY <1>1, <1>4, <1>5, <2>1 DEF DataTyped, Modes, OffIsFlushed
    <2>3. ~based' /\ ~covers'
      BY <1>1, <1>3, <1>4 DEF Modes
    <2> QED
      BY <2>2, <2>3 DEF LogInv, FileLogged, RewriteLogged, CutsBeen, FileBeen, Exact
  <1> QED
    BY <1>2, <1>3

\* A log of this turn's last dataset is one of this turn's datasets.
LEMMA LoggedIsBeen ==
  ASSUME DataTyped, NEW log, Logged(log)
  PROVE  Been(log)
  <1>1. Len(lineage) \in turnStart .. Len(lineage)
    BY DEF DataTyped
  <1> QED
    BY <1>1 DEF Logged, Been, Dataset

\* With the child, the commands that follow are kept for its file as well.
LEMMA ForkLog ==
  ASSUME LogInv, ~rewritePid, Fork, covers' => appendonly', appendonly => appendonly',
         UNCHANGED <<lineage, file, aofbuf, bgrewritebuf, phase, turnStart, based, doubled>>
  PROVE  LogInv'
  <1>1. DataTyped /\ Modes /\ FileLogged /\ CutsBeen /\ FileBeen
    BY DEF LogInv
  <1>2. /\ rewritePid' = TRUE /\ temp' = Rewrite(Dataset) /\ appendseldb' = -1
        /\ bgrewritebuf' = <<>> /\ Dataset' = Dataset
    BY <1>1 DEF Fork, Modes, Dataset
  <1>3. temp' \in Seq(Commands) /\ Replay(temp') = Dataset /\ temp' \o <<>> = temp'
    <2>1. Dataset \in [DBs -> Nat]
      BY <1>1, DatasetTyped
    <2> QED
      BY <1>2, <2>1, RewriteRebuilds, ConcatEmptySeq
  <1>4. DataTyped' /\ Modes'
    BY <1>1, <1>2, <1>3 DEF DataTyped, Modes, OffIsFlushed
  <1>5. RewriteLogged'
    BY <1>2, <1>3 DEF RewriteLogged, Logged
  <1>6. FileLogged' /\ CutsBeen' /\ FileBeen'
    BY <1>1, <1>2 DEF FileLogged, CutsBeen, FileBeen, Logged, Been, Exact, Alive
  <1> QED
    BY <1>4, <1>5, <1>6 DEF LogInv

LEMMA BgrewriteaofLog ==
  ASSUME LogInv, NEW c \in Clients, NEW more \in BOOLEAN, BgrewriteaofCommand(c, more)
  PROVE  LogInv'
  BY ForkLog DEF BgrewriteaofCommand

LEMMA FlushedTyped ==
  ASSUME DataTyped
  PROVE  /\ Flushed = [log |-> Flushed.log, torn |-> Flushed.torn]
         /\ Flushed.log = file.log \o (IF appendfd = "open" THEN aofbuf ELSE <<>>)
         /\ Flushed.log \in Seq(Commands)
  <1>1. /\ file = [log |-> file.log, torn |-> file.torn]
        /\ file.log \in Seq(Commands) /\ aofbuf \in Seq(Commands)
    BY DEF DataTyped
  <1>2. CASE appendfd = "open"
    <2>1. Flushed = [log |-> file.log \o aofbuf, torn |-> file.torn]
      BY <1>1, <1>2 DEF Flushed
    <2>2. file.log \o aofbuf \in Seq(Commands)
      BY <1>1, ConcatProperties
    <2> QED
      BY <1>2, <2>1, <2>2
  <1>3. CASE appendfd # "open"
    <2>1. Flushed = file /\ file.log \o <<>> = file.log
      BY <1>1, <1>3, ConcatEmptySeq DEF Flushed
    <2> QED
      BY <1>1, <1>3, <2>1
  <1> QED
    BY <1>2, <1>3

\* Off: the file is no longer one to start from.
LEMMA StopLog ==
  ASSUME LogInv, NEW c \in Clients, NEW more \in BOOLEAN, StopAppendOnly(c, more)
  PROVE  LogInv'
  <1>1. DataTyped /\ Modes
    BY DEF LogInv
  <1>2. /\ file' = Flushed /\ aofbuf' = <<>> /\ appendseldb' = -1
        /\ based' = FALSE /\ lineage' = lineage /\ turnStart' = turnStart
    BY DEF StopAppendOnly
  <1>3. /\ covers' = FALSE /\ bgrewritebuf' \in {<<>>, bgrewritebuf}
        /\ rewritePid' = rewritePid /\ temp' = temp
    <2>1. CASE savePid
      <3>1. PICK r : KillSaver(r)
        BY <2>1 DEF StopAppendOnly
      <3> QED
        BY <3>1 DEF KillSaver
    <2>2. CASE ~savePid
      BY <2>2 DEF StopAppendOnly, children
    <2> QED
      BY <2>1, <2>2
  <1>4. file' = [log |-> file'.log, torn |-> file'.torn] /\ file'.log \in Seq(Commands)
    BY <1>1, <1>2, FlushedTyped
  <1>5. DataTyped' /\ Modes'
    <2>0. <<>> \in Seq(Commands)
      OBVIOUS
    <2>1. <<>> \in Seq(Commands) /\ bgrewritebuf' \in Seq(Commands)
      BY <1>1, <1>3, <2>0 DEF DataTyped
    <2>2. DataTyped'
      BY <1>1, <1>2, <1>3, <1>4, <2>1 DEF DataTyped
    <2>3. Modes'
      BY <1>1, <1>2, <1>3 DEF Modes, OffIsFlushed
    <2> QED
      BY <2>2, <2>3
  <1> QED
    BY <1>2, <1>3, <1>5
    DEF LogInv, FileLogged, RewriteLogged, CutsBeen, FileBeen, Exact

\* On again: until the first rewrite has ended the file is the old one.
LEMMA StartOnlyLog ==
  ASSUME LogInv, NEW c \in Clients, NEW more \in BOOLEAN, StartAppendOnly(c, more)
  PROVE  LogInv'
  <1>1. DataTyped /\ Modes /\ RewriteLogged
    BY DEF LogInv
  <1>2. /\ UNCHANGED <<lineage, file, aofbuf, bgrewritebuf, phase, turnStart, based, doubled>>
        /\ ~appendonly /\ ~based /\ ~covers
    BY <1>1 DEF StartAppendOnly, Modes
  <1>3. CASE ~rewritePid /\ Fork /\ appendonly' = TRUE /\ covers' = TRUE
    BY <1>2, <1>3, ForkLog
  <1>4. CASE UNCHANGED <<children, appendseldb, covers>> /\ appendonly' \in BOOLEAN
    <2>1. DataTyped' /\ Modes'
      BY <1>1, <1>2, <1>4 DEF DataTyped, Modes, OffIsFlushed, children
    <2> QED
      BY <1>2, <1>4, <2>1 DEF LogInv, FileLogged, RewriteLogged, CutsBeen, FileBeen, Exact
  <1> QED
    BY <1>3, <1>4 DEF StartAppendOnly, RewriteRefused

\* A flush moves what waits into the file, where it was already counted.
LEMMA BeforeSleepLog ==
  ASSUME LogInv, BeforeSleep
  PROVE  LogInv'
  <1>1. DataTyped /\ Modes /\ FileLogged /\ RewriteLogged /\ Alive
    BY DEF LogInv, BeforeSleep, Alive
  <1>2. /\ aofbuf' = <<>> /\ turnStart' = Len(lineage) /\ Alive'
        /\ UNCHANGED <<lineage, appendonly, appendseldb, bgrewritebuf, rewritePid, temp,
                       based, covers, doubled>>
    BY DEF BeforeSleep, Alive, children
  <1>3. /\ file'.log = file.log \o aofbuf /\ file'.log \in Seq(Commands)
        /\ file' = [log |-> file'.log, torn |-> file'.torn]
    <2>1. file' = Flushed /\ (aofbuf = <<>> \/ appendfd = "open")
      BY DEF BeforeSleep
    <2> QED
      BY <1>1, <2>1, FlushedTyped
  <1>4. DataTyped'
    BY <1>1, <1>2, <1>3 DEF DataTyped
  <1>5. Modes'
    BY <1>1, <1>2 DEF Modes, OffIsFlushed
  <1>6. file'.log \o <<>> = file'.log /\ SubSeq(<<>>, 1, 0) = <<>>
    BY <1>3, ConcatEmptySeq, SubSeqEmpty
  <1>7. Exact' => Logged(file.log)'
    <2>1. Exact => Replay(file'.log) = Dataset
                   /\ (appendseldb # -1 => Selected(file'.log) = appendseldb)
      BY <1>1, <1>3 DEF FileLogged, Logged
    <2> QED
      BY <1>2, <2>1 DEF Exact, Logged, Dataset
  <1>8. Exact' => Been(file.log)'
    <2>1. Len(lineage') \in turnStart' .. Len(lineage')
      BY <1>4 DEF DataTyped
    <2> QED
      BY <1>7, <2>1 DEF Logged, Been, Dataset
  <1>9. FileLogged' /\ FileBeen'
    BY <1>2, <1>6, <1>7, <1>8 DEF FileLogged, FileBeen
  <1>10. CutsBeen'
    <2>1. \A m \in 0 .. Len(<<>>) : m = 0
      OBVIOUS
    <2> QED
      BY <1>2, <1>6, <1>8, <2>1 DEF CutsBeen, Been
  <1>11. RewriteLogged'
    BY <1>1, <1>2 DEF RewriteLogged, Logged, Dataset
  <1> QED
    BY <1>4, <1>5, <1>9, <1>10, <1>11 DEF LogInv

\* What a failing write leaves in the file is one of the places to cut at.
LEMMA FlushFailsLog ==
  ASSUME LogInv, Alive, FlushFails
  PROVE  LogInv'
  <1>1. DataTyped /\ Modes /\ CutsBeen /\ FileBeen
    BY DEF LogInv
  <1>2. /\ ~Alive'
        /\ UNCHANGED <<lineage, appendonly, appendseldb, aofbuf, bgrewritebuf, rewritePid,
                       temp, turnStart, based, covers, doubled>>
    BY DEF FlushFails, Alive, children, history
  <1>3. \E m \in 0 .. Len(aofbuf) : file'.log = file.log \o SubSeq(aofbuf, 1, m)
    <2>1. CASE file' = file
      <3>1. 0 \in 0 .. Len(aofbuf) /\ SubSeq(aofbuf, 1, 0) = <<>>
        BY <1>1, SubSeqEmpty DEF DataTyped
      <3>2. file.log \o <<>> = file.log
        BY <1>1, ConcatEmptySeq DEF DataTyped
      <3> QED
        BY <2>1, <3>1, <3>2
    <2>2. ASSUME NEW n \in 0 .. Len(aofbuf) - 1,
                 file' = [log |-> file.log \o SubSeq(aofbuf, 1, n), torn |-> TRUE]
          PROVE  \E m \in 0 .. Len(aofbuf) : file'.log = file.log \o SubSeq(aofbuf, 1, m)
      <3>1. n \in 0 .. Len(aofbuf)
        BY <1>1 DEF DataTyped
      <3> QED
        BY <2>2, <3>1
    <2> QED
      BY <2>1, <2>2 DEF FlushFails
  <1>4. PICK m \in 0 .. Len(aofbuf) : file'.log = file.log \o SubSeq(aofbuf, 1, m)
    BY <1>3
  <1>5. file'.log \in Seq(Commands)
    <2>1. SubSeq(aofbuf, 1, m) \in Seq(Commands) /\ file.log \in Seq(Commands)
      BY <1>1 DEF DataTyped
    <2> QED
      BY <1>4, <2>1
  <1>6. file' = [log |-> file'.log, torn |-> file'.torn]
    BY <1>1 DEF FlushFails, DataTyped
  <1>7. DataTyped' /\ Modes'
    BY <1>1, <1>2, <1>5, <1>6 DEF DataTyped, Modes, OffIsFlushed
  <1>8. FileBeen'
    <2>1. Exact => Been(file.log \o SubSeq(aofbuf, 1, m))
      BY <1>1 DEF CutsBeen
    <2>2. Exact => \E n \in turnStart .. Len(lineage) : Replay(file'.log) = lineage[n]
      BY <1>4, <2>1 DEF Been
    <2> QED
      BY <1>2, <2>2 DEF FileBeen, Been, Exact
  <1> QED
    BY <1>2, <1>7, <1>8 DEF LogInv, FileLogged, RewriteLogged, CutsBeen

\* A rewrite that has ended well: the child's file with the difference is the
\* log, and with nothing left in aofbuf it is the whole log.
LEMMA NewFileLog ==
  ASSUME LogInv, Alive, Alive', NewFile, bgrewritebuf' = <<>>, temp' = <<>>, ~covers',
         UNCHANGED <<lineage, appendonly, aofbuf, turnStart>>
  PROVE  LogInv'
  <1>1. DataTyped /\ Modes /\ RewriteLogged
    BY DEF LogInv
  <1>2. /\ file' = [log |-> temp \o bgrewritebuf, torn |-> FALSE]
        /\ appendseldb' \in {-1, appendseldb}
        /\ based' = covers /\ (~doubled' => ~(appendonly /\ aofbuf # <<>>))
    BY DEF NewFile
  <1>3. temp \o bgrewritebuf \in Seq(Commands) /\ <<>> \in Seq(Commands)
    <2>1. temp \in Seq(Commands) /\ bgrewritebuf \in Seq(Commands)
      BY <1>1 DEF DataTyped
    <2> QED
      BY <2>1, ConcatProperties
  <1>4. DataTyped'
    BY <1>1, <1>2, <1>3 DEF DataTyped
  <1>5. Modes'
    BY <1>1, <1>2 DEF Modes, OffIsFlushed
  <1>6. Exact' => /\ aofbuf' = <<>> /\ file'.log = temp \o bgrewritebuf
                  /\ Logged(temp \o bgrewritebuf)
    BY <1>1, <1>2 DEF Exact, Modes, OffIsFlushed, RewriteLogged
  <1>7. file'.log \o <<>> = file'.log /\ SubSeq(<<>>, 1, 0) = <<>>
    BY <1>2, <1>3, ConcatEmptySeq, SubSeqEmpty
  <1>8. Exact' => Logged(file.log)'
    BY <1>2, <1>6 DEF Logged, Dataset
  <1>9. Exact' => Been(file.log)'
    <2>1. Len(lineage') \in turnStart' .. Len(lineage')
      BY <1>4 DEF DataTyped
    <2> QED
      BY <1>8, <2>1 DEF Logged, Been, Dataset
  <1>10. FileLogged' /\ FileBeen'
    BY <1>6, <1>7, <1>8, <1>9 DEF FileLogged, FileBeen
  <1>11. CutsBeen'
    <2>1. \A m \in 0 .. Len(<<>>) : m = 0
      OBVIOUS
    <2> QED
      BY <1>6, <1>7, <1>9, <2>1 DEF CutsBeen, Been
  <1>12. RewriteLogged'
    BY DEF RewriteLogged
  <1> QED
    BY <1>4, <1>5, <1>10, <1>11, <1>12 DEF LogInv

\* A rewrite that has failed: the old file goes on.
LEMMA FailedLog ==
  ASSUME LogInv, Alive, Alive', bgrewritebuf' = <<>>, temp' = <<>>, ~covers',
         UNCHANGED <<file, appendseldb, based, doubled, lineage, appendonly, aofbuf, turnStart>>
  PROVE  LogInv'
  <1>1. DataTyped /\ Modes /\ FileLogged /\ CutsBeen /\ FileBeen
    BY DEF LogInv
  <1>2. <<>> \in Seq(Commands)
    OBVIOUS
  <1>3. DataTyped'
    BY <1>1, <1>2 DEF DataTyped
  <1>4. Modes'
    BY <1>1 DEF Modes, OffIsFlushed
  <1>5. FileLogged' /\ CutsBeen' /\ FileBeen'
    BY <1>1 DEF FileLogged, CutsBeen, FileBeen, Logged, Been, Exact, Dataset
  <1> QED
    BY <1>3, <1>4, <1>5 DEF LogInv, RewriteLogged

LEMMA DoneLog ==
  ASSUME LogInv, Alive, Alive', NEW status, BackgroundRewriteDoneHandler(status),
         UNCHANGED <<lineage, appendonly, aofbuf, turnStart>>
  PROVE  LogInv'
  <1>1. bgrewritebuf' = <<>> /\ temp' = <<>> /\ ~covers'
    BY DEF BackgroundRewriteDoneHandler
  <1>2. CASE NewFile
    BY <1>1, <1>2, NewFileLog
  <1>3. CASE UNCHANGED <<file, appendfd, appendseldb, based, doubled>>
    BY <1>1, <1>3, FailedLog
  <1> QED
    BY <1>2, <1>3 DEF BackgroundRewriteDoneHandler

LEMMA CronLog ==
  ASSUME LogInv, ServerCron
  PROVE  LogInv'
  <1>1. Alive /\ Alive' /\ UNCHANGED <<lineage, appendonly, aofbuf, turnStart>>
    BY DEF ServerCron, TurnOver, Alive
  <1>2. CASE Reap
    <2>1. CASE \E status : BackgroundRewriteDoneHandler(status)
      BY <1>1, <2>1, DoneLog
    <2>2. CASE UNCHANGED <<file, appendfd, appendseldb, bgrewritebuf, based, covers,
                           doubled, rewritePid, rewriter, temp, renamed, orphan>>
      BY <1>1, <2>2, QuietLog DEF LogState
    <2> QED
      BY <1>2, <2>1, <2>2 DEF Reap
  <1>3. CASE AutoSave
    BY <1>1, <1>3, QuietLog DEF AutoSave, LogState
  <1>4. CASE UNCHANGED <<file, appendfd, appendseldb, bgrewritebuf, based, covers, doubled,
                         children>>
    BY <1>1, <1>4, QuietLog DEF LogState, children
  <1> QED
    BY <1>2, <1>3, <1>4 DEF ServerCron

\* A restart: the dataset is what the file rebuilds.
LEMMA StartLog ==
  ASSUME LogInv, Start
  PROVE  LogInv'
  <1>1. DataTyped
    BY DEF LogInv
  <1>2. /\ lineage' = <<Replay(file.log)>> /\ turnStart' = 1 /\ file' = file
        /\ aofbuf' = <<>> /\ bgrewritebuf' = <<>> /\ temp' = <<>>
        /\ appendseldb' = -1 /\ appendonly' = TRUE /\ covers' = FALSE
    BY DEF Start
  <1>3. file.log \in Seq(Commands) /\ Replay(file.log) \in [DBs -> Nat]
    BY <1>1, ReplayTyped DEF DataTyped
  <1>4. /\ lineage' \in Seq([DBs -> Nat]) /\ Len(lineage') = 1
        /\ lineage'[1] = Replay(file.log)
    BY <1>2, <1>3
  <1>5. file.log \o <<>> = file.log /\ SubSeq(<<>>, 1, 0) = <<>> /\ <<>> \in Seq(Commands)
    BY <1>3, ConcatEmptySeq, SubSeqEmpty
  <1>6. 1 \in turnStart' .. Len(lineage')
    BY <1>2, <1>4
  <1>7. DataTyped'
    BY <1>1, <1>2, <1>3, <1>4, <1>5, <1>6 DEF DataTyped
  <1>8. Modes'
    BY <1>2 DEF Modes, OffIsFlushed
  <1>9. Logged(file.log)' /\ Been(file.log)'
    BY <1>2, <1>4, <1>6 DEF Logged, Been, Dataset
  <1>10. FileLogged' /\ FileBeen'
    BY <1>2, <1>5, <1>9 DEF FileLogged, FileBeen
  <1>11. CutsBeen'
    <2>1. \A m \in 0 .. Len(<<>>) : m = 0
      OBVIOUS
    <2>2. ASSUME NEW m \in 0 .. Len(aofbuf')
          PROVE  file'.log \o SubSeq(aofbuf', 1, m) = file'.log
      BY <1>2, <1>5, <2>1
    <2> QED
      BY <1>9, <2>2 DEF CutsBeen, Been
  <1> QED
    BY <1>2, <1>7, <1>8, <1>10, <1>11 DEF LogInv, RewriteLogged

LEMMA FixLog ==
  ASSUME LogInv, CheckAofFix
  PROVE  LogInv'
  <1>1. DataTyped /\ Modes /\ FileBeen
    BY DEF LogInv
  <1>2. /\ file'.log = file.log /\ ~Alive' /\ file' = [log |-> file'.log, torn |-> file'.torn]
        /\ UNCHANGED <<lineage, appendonly, appendseldb, aofbuf, bgrewritebuf, rewritePid,
                       temp, turnStart, based, covers, doubled>>
    BY <1>1 DEF CheckAofFix, DataTyped, children, loop, history, Alive
  <1>3. DataTyped' /\ Modes'
    BY <1>1, <1>2 DEF DataTyped, Modes, OffIsFlushed
  <1>4. FileBeen'
    BY <1>1, <1>2 DEF FileBeen, Been, Exact
  <1> QED
    BY <1>2, <1>3, <1>4 DEF LogInv, FileLogged, RewriteLogged, CutsBeen

LEMMA NextLog ==
  ASSUME LogInv, [Next]_vars
  PROVE  LogInv'
  <1>1. ASSUME NEW c \in Clients,
               \/ \E more \in BOOLEAN : BgsaveCommand(c, more)
               \/ OtherCommand(c) \/ ShutdownCommand(c) \/ SendReplyToClient(c)
        PROVE  LogInv'
    <2>1. CASE \E more \in BOOLEAN : BgsaveCommand(c, more)
      BY <2>1, QuietLog DEF BgsaveCommand, LogState, history, Alive
    <2>2. CASE OtherCommand(c)
      BY <2>2, QuietLog DEF OtherCommand, LogState, children, history, Alive
    <2>3. CASE ShutdownCommand(c)
      <3>1. UNCHANGED LogState /\ Alive
        BY <2>3 DEF ShutdownCommand, Reads, LogState, history, Alive
      <3> QED
        BY <3>1, QuietLog
    <2>4. CASE SendReplyToClient(c)
      BY <2>4, QuietLog DEF SendReplyToClient, LogState, server, children, Alive
    <2> QED
      BY <1>1, <2>1, <2>2, <2>3, <2>4
  <1>2. CASE \E c \in Clients : StopAppendOnlyFails(c)
    <2>1. Alive /\ FlushFails
      BY <1>2 DEF StopAppendOnlyFails, Reads, Alive
    <2> QED
      BY <2>1, FlushFailsLog
  <1>3. CASE BeforeSleepFails
    <2>1. Alive /\ FlushFails
      BY <1>3 DEF BeforeSleepFails, Alive
    <2> QED
      BY <2>1, FlushFailsLog
  <1>4. CASE NoCron \/ RewriterExits \/ SaverExits \/ Crash
    <2>1. UNCHANGED LogState /\ Alive
      BY <1>4 DEF NoCron, RewriterExits, SaverExits, Crash, TurnOver, Alive, LogState,
                  server, children, history
    <2> QED
      BY <2>1, QuietLog
  <1>5. CASE UNCHANGED vars
    BY <1>5, QuietLog DEF vars, LogState, server, children, loop, history, Alive
  <1>6. CASE Command
    BY <1>1, <1>2, <1>6, WriteLog, BgrewriteaofLog, StopLog, StartOnlyLog DEF Command
  <1> QED
    BY <1>1, <1>3, <1>4, <1>5, <1>6, BeforeSleepLog, CronLog, StartLog, FixLog DEF Next

LEMMA LogAlways == Spec => []LogInv
  BY InitLog, NextLog, PTL DEF Spec

\* What is in the file and what waits to be written to it always rebuild the
\* dataset: no command is lost, repeated or replayed into another database
\* by flushes, rewrites that end in any way, CONFIG SET or restarts, as long
\* as no rewrite ended with commands still waiting.
THEOREM AofAlwaysExact == Spec => []AofExactUnlessDoubled
  <1>1. LogInv => AofExactUnlessDoubled
    BY DEF LogInv, FileLogged, Exact, Logged, AofExactUnlessDoubled
  <1> QED
    BY <1>1, LogAlways, PTL

\* Wherever a crash, a failed or a short write stops the server, the file
\* rebuilds a dataset the server had in the turn it was in, or at its start.
THEOREM CrashAlwaysLosesOneTurn == Spec => []CrashLosesOneTurn
  <1>1. LogInv => CrashLosesOneTurn
    BY DEF LogInv, FileBeen, Exact, Been, CrashLosesOneTurn
  <1> QED
    BY <1>1, LogAlways, PTL
=============================================================================
