-------------------------------- MODULE VmIO --------------------------------
(***************************************************************************)
(* Virtual memory with I/O threads (redis.c 8854-9968).  The value of a    *)
(* key is swapped out in two jobs, PREPARE_SWAP and DO_SWAP, and loaded by *)
(* one; a job goes from newjobs to a thread (io_processing) to processed,  *)
(* and a byte in the pipe tells the main thread to complete it.            *)
(*                                                                         *)
(* The main thread's handlers are atomic but for waitEmptyIOJobsQueue,     *)
(* which lets the threads go on before a fork.  vmCancelThreadedIOJob      *)
(* spins while a thread has the job: a handler that would spin waits       *)
(* instead (Cancellable), nothing else being visible to the threads.       *)
(* A value is read and written by its version; it takes Size pages.        *)
(***************************************************************************)
EXTENDS Integers, Sequences, FiniteSets, SequencesExt, FiniteSetsExt, Functions

CONSTANTS
  Keys, Clients,
  Size,        \* value -> the pages it takes on disk
  VmPages,     \* server.vm_pages
  MaxThreads,  \* server.vm_max_threads
  PipeSize,    \* bytes the pipe holds before a writer blocks
  MaxErrors,   \* bound: how many swap writes cannot seek, or fall short
  Requests     \* what a client may send: the accesses [op, key, val] of a command
               \* to its keys, or of the commands of a transaction, in order

Values == DOMAIN Size
Pages == 0..(VmPages - 1)
Threads == 1..MaxThreads

None == "none"
Lost == "lost"

\* What has no value, and no key, is neither.
ASSUME VmAssumption ==
  /\ Size \in [Values -> 1..VmPages]
  /\ {VmPages, MaxThreads, PipeSize} \subseteq Nat \ {0} /\ MaxErrors \in Nat
  /\ {None, Lost} \cap (Keys \cup Values) = {}

\* "replace" is what RENAME and SORT STORE do to their target if the key they
\* come from, looked up before, is there; "mset" is MSET with one of its keys.
Accesses ==
  [op : {"get", "del"}, key : Keys, val : {None}]
  \cup [op : {"set", "append", "mset"}, key : Keys, val : Values]
  \cup [op : {"replace"}, key : Keys, val : Values, from : Keys]

ASSUME RequestsAssumption == \A accesses \in Requests : accesses \in Seq(Accesses) \ {<<>>}

VARIABLES
  vm,          \* the server: see Init
  waitfork,    \* the main thread is in waitEmptyIOJobsQueue
  child,       \* a saving child runs
  image,       \* the keys its image has in the swap file: [page, val]
  errors       \* how many swap writes could not seek

vars == <<vm, waitfork, child, image, errors>>
forks == <<waitfork, child, image>>

Absent == [storage |-> "absent", val |-> None, page |-> 0, pages |-> 0]
NoCmd == <<>>
KeysOf(accesses) ==   \* those that may be canceled: dictReplace does not look
  {accesses[i].key : i \in {i \in DOMAIN accesses : accesses[i].op # "replace"}}
Job(type, k, val, page) ==
  [type |-> type, key |-> k, val |-> val, page |-> page, pages |-> 0, canceled |-> FALSE]
NoJob == Job("none", None, None, 0)

Init ==
  /\ vm = [key |-> [k \in Keys |-> Absent],  \* db->dict: key object and value
           used |-> {},                          \* vm_bitmap
           file |-> [p \in Pages |-> None],      \* the swap file
           newjobs |-> <<>>, processed |-> <<>>, pipe |-> 0,
           thread |-> [t \in Threads |-> "off"],
           job |-> [t \in Threads |-> NoJob],    \* io_processing
           io_keys |-> [k \in Keys |-> <<>>],    \* db->io_keys: key -> clients
           wants |-> [c \in Clients |-> <<>>],   \* c->io_keys
           cmd |-> [c \in Clients |-> NoCmd],    \* argv under REDIS_IO_WAIT
           ready |-> <<>>,                       \* io_ready_clients
           panic |-> FALSE,                      \* the process is gone: an assertion
                                                 \* has failed, or _exit
           stranded |-> {},                      \* history: the suspended clients
                                                 \* one of whose keys was dropped
           data |-> [k \in Keys |-> None],       \* history: what was stored last, or
                                                 \* Lost when the code has lost it
           risked |-> {},                        \* history: the keys whose swap, if
                                                 \* it completes, loses the value
           torn |-> 0]                           \* how many swap writes fell short
  /\ waitfork = FALSE /\ child = FALSE /\ image = <<>> /\ errors = 0

IoWait(s, c) == s.cmd[c] # NoCmd

-----------------------------------------------------------------------------
(* Pages of the swap file.                                                 *)

Run(page, count) == page .. (page + count - 1)

\* The first n contiguous free pages from base on, wrapping once; a run that
\* straddles base is not seen.  base, vm_next_page, is any page here: it follows
\* the last allocation and is reset every 65536 searches.  (The random jump
\* over crowded regions starts after 1024 pages.)
FindContiguousPages(s, n, base) ==
  LET This(offset) == base + offset - (IF base + offset >= VmPages THEN VmPages ELSE 0)
      numfree[offset \in -1..(VmPages - 1)] ==
        IF offset = -1 \/ This(offset) \in s.used THEN 0
        ELSE (IF This(offset) = 0 THEN 0 ELSE numfree[offset - 1]) + 1
      found == {offset \in Pages : numfree[offset] = n}
  IN  IF found = {} THEN -1 ELSE This(Min(found)) - (n - 1)

\* Mutant of MarkPagesFree: the first page only.
MarkPageFree(s, page, count) == [s EXCEPT !.used = @ \ {page}]

MarkPagesFree(s, page, count) == [s EXCEPT !.used = @ \ Run(page, count)]

\* Mutant of MarkPagesUsed: the first page only.
MarkPageUsed(s, page, count) == [s EXCEPT !.used = @ \cup {page}]

MarkPagesUsed(s, page, count) == [s EXCEPT !.used = @ \cup Run(page, count)]

\* An object is there when all its pages are; there is none in a torn one.
ReadObjectFromSwap(s, page) ==
  LET v == s.file[page]
  IN  IF v # None /\ \A p \in Run(page, Size[v]) : p \in Pages /\ s.file[p] = v
        THEN v ELSE None

\* _redisAssert or _exit(1), of the main thread or of another.
Gone(s) == [s EXCEPT !.panic = TRUE]

-----------------------------------------------------------------------------
(* Jobs: queueing, completing and cancelling them in the main thread.      *)

\* pthread_create is tried until it succeeds.
SpawnIOThread(s) ==
  [s EXCEPT !.thread[Min({t \in Threads : s.thread[t] = "off"})] = "take"]

QueueIOJob(s, job) ==
  LET queued == [s EXCEPT !.newjobs = Append(@, job)]
  IN  IF \E t \in Threads : s.thread[t] = "off" THEN SpawnIOThread(queued) ELSE queued

SwapObjectThreaded(s, k) ==
  QueueIOJob([s EXCEPT !.key[k].storage = "SWAPPING"],
             Job("PREPARE_SWAP", k, s.key[k].val, 0))

\* vmCancelThreadedIOJob does not have to spin.
Cancellable(s, keys) ==
  \A t \in Threads : s.thread[t] = "work" => s.job[t].key \notin keys

FreePagesOf(s, job) ==
  IF job.type = "DO_SWAP" THEN MarkPagesFree(s, job.page, job.pages) ELSE s

UndoStorage(s, k) ==
  [s EXCEPT !.key[k].storage = IF @ = "LOADING" THEN "SWAPPED" ELSE "MEMORY",
            !.risked = @ \ {k}]

CancelThreadedIOJob(s, k) ==
  LET Active(list) == {i \in DOMAIN list : ~list[i].canceled /\ list[i].key = k}
      new == Active(s.newjobs)
      done == Active(s.processed)
  IN  CASE new # {} ->
             LET i == Min(new)
             IN  UndoStorage(FreePagesOf([s EXCEPT !.newjobs = RemoveAt(@, i)],
                                         s.newjobs[i]), k)
        [] new = {} /\ done # {} ->
             LET i == Min(done)
             IN  UndoStorage(FreePagesOf([s EXCEPT !.processed[i].canceled = TRUE],
                                         s.processed[i]), k)
        [] OTHER -> Gone(s)   \* assert(1 != 1)

-----------------------------------------------------------------------------
(* Clients waiting for swapped keys.                                       *)

\* waitForSwappedKey.
WaitForSwappedKey(s, c, k) ==
  CASE s.key[k].storage \in {"absent", "MEMORY"} -> s
    [] s.key[k].storage = "SWAPPING" -> CancelThreadedIOJob(s, k)
    [] OTHER ->
         LET blocked == [s EXCEPT !.wants[c] = Append(@, k), !.io_keys[k] = Append(@, c)]
         IN  IF s.key[k].storage = "LOADING" THEN blocked
             ELSE QueueIOJob([blocked EXCEPT !.key[k].storage = "LOADING"],
                             Job("LOAD", k, None, s.key[k].page))

DontWaitForSwappedKey(s, c, k) ==
  [s EXCEPT !.wants[c] = RemoveFirst(@, k), !.io_keys[k] = RemoveFirst(@, c)]

\* The loop of handleClientsBlockedOnSwappedKey, once: a client that waits for
\* nothing else is ready.
HandleFirstClient(s, k) ==
  LET c == Head(s.io_keys[k])
      t == DontWaitForSwappedKey(s, c, k)
  IN  IF t.wants[c] = <<>> THEN [t EXCEPT !.ready = Append(@, c)] ELSE t

\* Mutant of HandleClientsBlockedOnSwappedKey: the first client only.
HandleOneClient(s, k) == IF s.io_keys[k] = <<>> THEN s ELSE HandleFirstClient(s, k)

\* As many times as there are clients, the first of those left.
HandleClientsBlockedOnSwappedKey(s, k) ==
  LET len == Len(s.io_keys[k])
      after[i \in 0..len] == IF i = 0 THEN s ELSE HandleFirstClient(after[i - 1], k)
  IN  after[len]

-----------------------------------------------------------------------------
(* Commands.                                                               *)

\* The key has its value in memory again, and its pages are free.
Loaded(s, k, v) ==
  MarkPagesFree([s EXCEPT !.key[k].storage = "MEMORY", !.key[k].val = v],
                s.key[k].page, s.key[k].pages)

\* vmGenericLoadObject.
LoadObject(s, k) ==
  LET v == ReadObjectFromSwap(s, s.key[k].page)
  IN  IF v = None THEN Gone(s) ELSE Loaded(s, k, v)

\* lookupKey and vmLoadObject.  It asserts that a key on disk has no value.
LookupKey(s, k) ==
  CASE s.key[k].storage \in {"absent", "MEMORY"} -> s
    [] s.key[k].storage = "SWAPPING" -> CancelThreadedIOJob(s, k)
    [] OTHER ->
         IF s.key[k].val # None THEN Gone(s)
         ELSE IF s.key[k].storage = "SWAPPED" THEN LoadObject(s, k)
         ELSE HandleClientsBlockedOnSwappedKey(LoadObject(CancelThreadedIOJob(s, k), k), k)

\* decrRefCount of the key object that deleteKey drops.
DropKey(s, k) ==
  LET t == IF s.key[k].storage \in {"LOADING", "SWAPPING"}
             THEN CancelThreadedIOJob(s, k) ELSE s
      u == IF s.key[k].storage \in {"LOADING", "SWAPPED"}
             THEN MarkPagesFree(t, s.key[k].page, s.key[k].pages) ELSE t
  IN  [u EXCEPT !.key[k] = Absent, !.data[k] = None, !.risked = @ \ {k},
                !.stranded = @ \cup ToSet(s.io_keys[k])]

DeleteIfSwapped(s, k) ==
  IF s.key[k].storage \in {"absent", "MEMORY"} THEN s ELSE DropKey(s, k)

\* setGenericCommand: a new key object, or a new value for one in memory.
SetKey(s, k, v) ==
  [DeleteIfSwapped(s, k) EXCEPT !.key[k] = [Absent EXCEPT !.storage = "MEMORY", !.val = v],
                               !.data[k] = v]

\* APPEND, RPUSH, ...: the value is changed in place.
ChangeKey(s, k, v) ==
  LET t == LookupKey(s, k)
  IN  IF t.panic THEN t
      ELSE [t EXCEPT !.key[k].storage = IF @ = "absent" THEN "MEMORY" ELSE @,
                     !.key[k].val = v, !.data[k] = IF @ = Lost THEN Lost ELSE v]

\* Mutant of ReplaceKey: the key object is as new, but nothing is undone for it.
ReplaceKeyInMemory(s, k, v) ==
  [s EXCEPT !.key[k] = [Absent EXCEPT !.storage = "MEMORY", !.val = v], !.data[k] = v]

\* dictReplace without deleteIfSwapped: a new value for the key object that is
\* there, whatever its storage.  A key on disk keeps the old value there; one
\* that is being swapped out still has the old value in its job.
ReplaceKey(s, k, v) ==
  [s EXCEPT !.key[k].storage = IF @ = "absent" THEN "MEMORY" ELSE @,
            !.key[k].val = v,
            !.data[k] = IF s.key[k].storage \in {"SWAPPED", "LOADING"} THEN Lost ELSE v,
            !.risked = IF s.key[k].storage = "SWAPPING" THEN @ \cup {k} ELSE @]

\* What cmd->proc does with one of its keys.
Call(s, access) ==
  LET k == access.key
  IN  CASE access.op = "get"     -> LookupKey(s, k)
        [] access.op = "set"     -> SetKey(s, k, access.val)
        [] access.op = "append"  -> ChangeKey(s, k, access.val)
        [] access.op = "del"     -> DropKey(s, k)
        [] access.op = "mset"    -> ReplaceKey(s, k, access.val)
        [] access.op = "replace" ->
             IF s.key[access.from].storage = "absent" THEN s
             ELSE ReplaceKey(s, k, access.val)

\* processCommand calls one command, execCommand all those that were queued.
ExecCommand(s, accesses) ==
  LET after[i \in 0..Len(accesses)] ==
        CASE i = 0 -> s
          [] i # 0 /\ after[i - 1].panic -> after[i - 1]
          [] OTHER -> Call(after[i - 1], accesses[i])
  IN  after[Len(accesses)]

\* cmdTable has vm_firstkey for the commands that read and for MSET, not for
\* SET and DEL, nor for the target of RENAME and SORT.
Preloads(access) == access.op \in {"get", "append", "mset"}

WaitForMultipleSwappedKeys(s, c, access) ==
  IF Preloads(access) THEN WaitForSwappedKey(s, c, access.key) ELSE s

\* The keys of every command are waited for before the first is executed.
ExecBlockClientOnSwappedKeys(s, c, accesses) ==
  LET after[i \in 0..Len(accesses)] ==
        IF i = 0 THEN s ELSE WaitForMultipleSwappedKeys(after[i - 1], c, accesses[i])
  IN  after[Len(accesses)]

\* A client that waits for a key is suspended with its command.
BlockClientOnSwappedKeys(s, c, accesses) ==
  LET t == ExecBlockClientOnSwappedKeys(s, c, accesses)
  IN  IF t.wants[c] # <<>> THEN [t EXCEPT !.cmd[c] = accesses] ELSE t

\* The main thread is free to run a handler.
MainRuns == ~waitfork /\ ~vm.panic

\* processCommand.
ProcessCommand(c) ==
  \E accesses \in Requests :
    LET s == BlockClientOnSwappedKeys(vm, c, accesses)
    IN  /\ MainRuns /\ ~IoWait(vm, c)
        /\ Cancellable(vm, KeysOf(accesses))
        /\ vm' = IF IoWait(s, c) THEN s ELSE ExecCommand(s, accesses)
        /\ UNCHANGED <<forks, errors>>

\* beforeSleep resumes the clients that have all their keys.
CanResume ==
  /\ MainRuns /\ vm.ready # <<>>
  /\ Cancellable(vm, UNION {KeysOf(vm.cmd[c]) : c \in ToSet(vm.ready)})

Resume(s, c) ==
  ExecCommand([s EXCEPT !.ready = Tail(@), !.cmd[c] = NoCmd, !.stranded = @ \ {c}], s.cmd[c])

BeforeSleep ==
  /\ CanResume
  /\ vm' = LET after[i \in 0..Len(vm.ready)] ==
                 IF i = 0 THEN vm ELSE Resume(after[i - 1], vm.ready[i])
           IN  after[Len(vm.ready)]
  /\ UNCHANGED <<forks, errors>>

\* Mutant of FreeClient: the client is left in the lists of its keys.
FreeClientOnly(c) ==
  /\ MainRuns /\ IoWait(vm, c)
  /\ vm' = [vm EXCEPT !.ready = RemoveFirst(@, c), !.cmd[c] = NoCmd, !.wants[c] = <<>>,
                      !.stranded = @ \ {c}]
  /\ UNCHANGED <<forks, errors>>

\* freeClient.
FreeClient(c) ==
  /\ MainRuns /\ IoWait(vm, c)
  /\ vm' = LET after[i \in 0..Len(vm.wants[c])] ==
                 IF i = 0 THEN vm
                 ELSE DontWaitForSwappedKey(after[i - 1], c, Head(after[i - 1].wants[c]))
           IN  [after[Len(vm.wants[c])]
                  EXCEPT !.ready = RemoveFirst(@, c), !.cmd[c] = NoCmd,
                         !.stranded = @ \ {c}]
  /\ UNCHANGED <<forks, errors>>

-----------------------------------------------------------------------------
(* Swapping out and completing jobs.                                       *)

\* Mutant of CanSwapOut: a child does not forbid swapping.
CanSwapAlways == TRUE

CanSwapOut == ~child

\* The keys that may be the best: computeObjectSwappability ranks random keys by
\* age and estimated size, which are not kept here.
Swappable(s) == {k \in Keys : s.key[k].storage = "MEMORY"}

\* One key is queued, if there is one.
SwapOneObject(s) == {SwapObjectThreaded(s, k) : k \in Swappable(s)}

\* serverCron over vm_max_memory.
ServerCron ==
  /\ MainRuns /\ CanSwapOut
  /\ vm' \in SwapOneObject(vm)
  /\ UNCHANGED <<forks, errors>>

\* vmThreadedIOCompletedJob, the three kinds of job.
CompleteLoad(s, job) ==
  HandleClientsBlockedOnSwappedKey(Loaded(s, job.key, job.val), job.key)

CompletePrepareSwap(s, job, base) ==
  LET page == FindContiguousPages(s, job.pages, base)
  IN  IF ~CanSwapOut \/ page = -1 THEN UndoStorage(s, job.key)
      ELSE QueueIOJob(MarkPagesUsed(s, page, job.pages),
                      [job EXCEPT !.type = "DO_SWAP", !.page = page])

CompleteDoSwap(s, job) ==
  [s EXCEPT !.panic = @ \/ s.key[job.key].storage # "SWAPPING",
            !.key[job.key] = [storage |-> "SWAPPED", val |-> None,
                              page |-> job.page, pages |-> job.pages],
            !.data[job.key] = IF job.key \in s.risked THEN Lost ELSE @,
            !.risked = @ \ {job.key}]

\* What is swapped after a DO_SWAP: nothing below the limit; above it, keys are
\* queued until there are as many jobs as threads, and one more.
MoreSwaps(s) ==
  LET swaps[i \in 0..MaxThreads] ==
        IF i = 0 THEN {s} \cup SwapOneObject(s)
        ELSE swaps[i - 1] \cup UNION {SwapOneObject(t) :
               t \in {u \in swaps[i - 1] : Len(u.newjobs) \in Len(s.newjobs) + 1 .. MaxThreads}}
  IN  swaps[MaxThreads]

\* The main thread takes the n oldest processed jobs, the last of them alive.
TakeProcessed(n) ==
  [vm EXCEPT !.processed = SubSeq(@, n + 1, Len(@)), !.pipe = @ - n,
             !.panic = /\ ~vm.processed[n].canceled
                       /\ vm.key[vm.processed[n].key].storage = "absent"]

Complete(s, job, trytoswap) ==
  \/ job.canceled /\ vm' = s
  \/ ~job.canceled /\ job.type = "LOAD" /\ vm' = CompleteLoad(s, job)
  \/ /\ ~job.canceled /\ job.type = "PREPARE_SWAP"
     /\ \E base \in Pages : vm' = CompletePrepareSwap(s, job, base)
  \/ /\ ~job.canceled /\ job.type = "DO_SWAP"
     /\ vm' \in LET t == CompleteDoSwap(s, job)
               IN  IF trytoswap /\ CanSwapOut THEN MoreSwaps(t) ELSE {t}

\* The pipe is read up to the first job that is not canceled.
CompletedJobs(trytoswap) ==
  \E n \in 1..vm.pipe :
    /\ \A i \in 1..(n - 1) : vm.processed[i].canceled
    /\ vm.processed[n].canceled => n = vm.pipe
    /\ \E s \in {TakeProcessed(n)} : Complete(s, vm.processed[n], trytoswap)

ThreadedIOCompletedJob ==
  /\ MainRuns /\ CompletedJobs(TRUE)
  /\ UNCHANGED <<forks, errors>>

-----------------------------------------------------------------------------
(* I/O threads.                                                            *)

\* Mutant of TakeJob: a thread does not exit.
TakeOrStay(t) ==
  /\ vm.thread[t] = "take" /\ vm.newjobs # <<>>
  /\ vm' = [vm EXCEPT !.thread[t] = "work", !.job[t] = Head(vm.newjobs), !.newjobs = Tail(@)]
  /\ UNCHANGED <<forks, errors>>

TakeJob(t) ==
  /\ vm.thread[t] = "take"
  /\ vm' = IF vm.newjobs = <<>> THEN [vm EXCEPT !.thread[t] = "off"]
           ELSE [vm EXCEPT !.thread[t] = "work", !.job[t] = Head(vm.newjobs),
                           !.newjobs = Tail(@)]
  /\ UNCHANGED <<forks, errors>>

\* vmWriteObjectOnSwap gets n of the pages of the job written: nothing looks at
\* what rdbSaveObject and fflush return.
WriteObjectOnSwap(s, job, n) ==
  [s EXCEPT !.file = [p \in Pages |-> IF p \in Run(job.page, n) THEN job.val ELSE @[p]],
            !.risked = IF n < job.pages THEN @ \cup {job.key} ELSE @,
            !.torn = IF n < job.pages THEN @ + 1 ELSE @]

\* The thread is done with its job.
Processed(s, t, job) ==
  [s EXCEPT !.processed = Append(@, job), !.job[t] = NoJob, !.thread[t] = "signal"]

ProcessLoad(t, job) ==
  /\ job.type = "LOAD"
  /\ vm' = LET v == ReadObjectFromSwap(vm, job.page)
           IN  IF v = None THEN Gone(vm) ELSE Processed(vm, t, [job EXCEPT !.val = v])
  /\ UNCHANGED errors

ProcessPrepareSwap(t, job) ==
  /\ job.type = "PREPARE_SWAP"
  /\ vm' = Processed(vm, t, [job EXCEPT !.pages = Size[job.val]])
  /\ UNCHANGED errors

\* Mutant of ProcessDoSwap: not even a failed fseeko does.
ProcessDoSwapUncanceled(t, job) ==
  /\ job.type = "DO_SWAP"
  /\ \/ vm' = Processed(WriteObjectOnSwap(vm, job, job.pages), t, job) /\ UNCHANGED errors
     \/ /\ vm.torn + errors < MaxErrors /\ errors' = errors + 1
        /\ vm' = Processed(vm, t, job)

\* Only a failed fseeko cancels the job.
ProcessDoSwap(t, job) ==
  /\ job.type = "DO_SWAP"
  /\ \/ /\ \E n \in 0..job.pages :
             /\ n = job.pages \/ vm.torn + errors < MaxErrors
             /\ vm' = Processed(WriteObjectOnSwap(vm, job, n), t, job)
        /\ UNCHANGED errors
     \/ /\ vm.torn + errors < MaxErrors /\ errors' = errors + 1
        /\ vm' = Processed(vm, t, [job EXCEPT !.canceled = TRUE])

ProcessJob(t) ==
  /\ vm.thread[t] = "work"
  /\ \/ ProcessLoad(t, vm.job[t])
     \/ ProcessPrepareSwap(t, vm.job[t])
     \/ ProcessDoSwap(t, vm.job[t])
  /\ UNCHANGED forks

\* The write blocks while the pipe is full.
SignalMain(t) ==
  /\ vm.thread[t] = "signal" /\ vm.pipe < PipeSize
  /\ vm' = [vm EXCEPT !.pipe = @ + 1, !.thread[t] = "take"]
  /\ UNCHANGED <<forks, errors>>

IOThreadEntryPoint(t) == ~vm.panic /\ (TakeJob(t) \/ ProcessJob(t) \/ SignalMain(t))

-----------------------------------------------------------------------------
(* Forking: BGSAVE, BGREWRITEAOF.                                          *)

\* waitEmptyIOJobsQueue begins; any command may ask for a save.
StartSave == MainRuns /\ ~child /\ waitfork' = TRUE /\ UNCHANGED <<vm, child, image, errors>>

QueuesEmpty == vm.newjobs = <<>> /\ \A t \in Threads : vm.thread[t] = "off"

WaitEmptyIOJobsQueue ==
  /\ waitfork /\ ~vm.panic /\ ~QueuesEmpty
  /\ CompletedJobs(FALSE)
  /\ UNCHANGED <<forks, errors>>

OnDisk == {k \in Keys : vm.key[k].storage \in {"SWAPPED", "LOADING"}}

\* fork: the child will preview the values on disk of the keys it inherits; what
\* is lost when it starts is lost for it.
Fork ==
  /\ waitfork /\ ~vm.panic /\ QueuesEmpty
  /\ waitfork' = FALSE /\ child' = TRUE
  /\ image' = [k \in {k \in OnDisk : vm.data[k] # Lost} |->
                 [page |-> vm.key[k].page, val |-> vm.data[k]]]
  /\ UNCHANGED <<vm, errors>>

ChildExits ==
  /\ child /\ MainRuns /\ child' = FALSE /\ image' = <<>>
  /\ UNCHANGED <<vm, waitfork, errors>>

-----------------------------------------------------------------------------
Next ==
  \/ \E c \in Clients : ProcessCommand(c) \/ FreeClient(c)
  \/ BeforeSleep \/ ServerCron \/ ThreadedIOCompletedJob
  \/ \E t \in Threads : IOThreadEntryPoint(t)
  \/ StartSave \/ WaitEmptyIOJobsQueue \/ Fork \/ ChildExits

\* The threads are scheduled.  Each turn of the event loop serves the pipe and
\* runs beforeSleep, between handlers that may disable them for a while: strong
\* fairness, with ENABLED written out.  The wait before a fork is a loop.
PipeReadable == MainRuns /\ vm.pipe > 0
MustDrain == waitfork /\ ~vm.panic /\ ~QueuesEmpty /\ vm.pipe > 0

Fairness ==
  /\ \A t \in Threads : WF_vars(IOThreadEntryPoint(t))
  /\ []<>PipeReadable => []<><<ThreadedIOCompletedJob>>_vars
  /\ []<>CanResume => []<><<BeforeSleep>>_vars
  /\ <>[]MustDrain => []<><<WaitEmptyIOJobsQueue>>_vars
  /\ WF_vars(Fork)

Spec == Init /\ [][Next]_vars /\ Fairness

-----------------------------------------------------------------------------
(* Properties.                                                             *)

JobTypes == {"LOAD", "PREPARE_SWAP", "DO_SWAP"}
JobRecords ==
  [type : JobTypes, key : Keys, val : Values \cup {None}, page : Pages,
   pages : 0..VmPages, canceled : BOOLEAN]

\* Types of the variables, and of the structures the threads share with the
\* main thread: at most one byte per processed job, no job in two hands.
TypeOK ==
  /\ vm.key \in [Keys -> [storage : {"absent", "MEMORY", "SWAPPING", "SWAPPED", "LOADING"},
                          val : Values \cup {None}, page : Pages, pages : 0..VmPages]]
  /\ vm.data \in [Keys -> Values \cup {None, Lost}]
  /\ vm.risked \subseteq {k \in Keys : vm.key[k].storage = "SWAPPING"}
  /\ vm.used \subseteq Pages
  /\ vm.file \in [Pages -> Values \cup {None}]
  /\ vm.newjobs \in Seq(JobRecords) /\ vm.processed \in Seq(JobRecords)
  /\ vm.pipe <= Min({PipeSize, Len(vm.processed)})
  /\ vm.job \in [Threads -> JobRecords \cup {NoJob}]
  /\ \A t \in Threads : (vm.thread[t] = "work") <=> (vm.job[t] # NoJob)
  /\ vm.io_keys \in [Keys -> Seq(Clients)] /\ vm.wants \in [Clients -> Seq(Keys)]
  /\ vm.cmd \in [Clients -> Requests \cup {NoCmd}] /\ vm.ready \in Seq(Clients)
  /\ vm.stranded \subseteq {c \in Clients : IoWait(vm, c)}
  /\ errors \in 0..MaxErrors /\ {waitfork, child, vm.panic} \subseteq BOOLEAN

\* The value of a key is what was stored last: in memory until its swap is
\* complete, on its own pages after that, whatever jobs were canceled, retried
\* or overtaken by a synchronous load (lookupKey, vmThreadedIOCompletedJob).
\* The code loses a value in three ways, each marked when it happens: dictReplace
\* over a key on disk, over one that is being swapped when the swap completes,
\* and a swap write that fell short.  Undoing the swap in time saves the others.
ValuesKept ==
  \A k \in Keys :
    LET key == vm.key[k]
    IN  \/ vm.data[k] = Lost
        \/ key.storage = "absent" /\ vm.data[k] = None
        \/ key.storage \in {"MEMORY", "SWAPPING"} /\ key.val = vm.data[k]
        \/ /\ key.storage \in {"SWAPPED", "LOADING"}
           /\ key.val = None /\ key.pages = Size[vm.data[k]]
           /\ ReadObjectFromSwap(vm, key.page) = vm.data[k]

\* The jobs of a list about a key that nobody has canceled.
JobsIn(list, k) ==
  {list[i] : i \in {i \in DOMAIN list : list[i].key = k /\ ~list[i].canceled}}

ActiveJobs(s, k) == JobsIn(s.newjobs, k) \cup JobsIn(s.processed, k) \cup JobsIn(s.job, k)

JobCount(s, k) ==
  LET In(list) == Cardinality({i \in DOMAIN list : list[i].key = k /\ ~list[i].canceled})
  IN  In(s.newjobs) + In(s.processed) + In(s.job)

\* A key that is being swapped or loaded has exactly one job that is not
\* canceled, of its kind, in one of the three lists, and no other key has any:
\* so vmCancelThreadedIOJob finds what it looks for ("We should never reach
\* this", redis.c:9607) and the completed job's key is there.  Not so once the
\* write of a DO_SWAP could not seek: the thread marks the job canceled and
\* leaves the key SWAPPING.  The process goes down only if that happened, or
\* over a key whose value is lost.
JobsMatchKeys ==
  errors = 0 =>
    /\ vm.panic => \E k \in Keys : vm.data[k] = Lost
    /\ \A k \in Keys :
         /\ JobCount(vm, k) = (IF vm.key[k].storage \in {"SWAPPING", "LOADING"} THEN 1 ELSE 0)
         /\ \A job \in ActiveJobs(vm, k) :
              (job.type = "LOAD") <=> (vm.key[k].storage = "LOADING")

\* The pages that hold the value of a key, or that its DO_SWAP is to write.
PagesOf(s, k) ==
  (IF s.key[k].storage \in {"SWAPPED", "LOADING"} THEN Run(s.key[k].page, s.key[k].pages) ELSE {})
  \cup UNION {Run(job.page, job.pages) : job \in {j \in ActiveJobs(s, k) : j.type = "DO_SWAP"}}

\* The pages of the bitmap are those of the keys on disk and of the DO_SWAP jobs
\* under way, each page of one of them only; a failed write leaves its pages
\* behind (vmMarkPagesUsed, vmMarkPagesFree and every way a job can end).
PagesHaveOneOwner ==
  /\ \A k1, k2 \in Keys : k1 # k2 => PagesOf(vm, k1) \cap PagesOf(vm, k2) = {}
  /\ \A k \in Keys : PagesOf(vm, k) \subseteq vm.used
  /\ errors = 0 => vm.used \subseteq UNION {PagesOf(vm, k) : k \in Keys}

\* Both: what the main thread, the threads and the bitmap hold of a key.
JobsAndPagesMatchKeys == JobsMatchKeys /\ PagesHaveOneOwner

\* What a forked child still has to read from the swap file, if it was there
\* when it started, stays there until it exits, although its keys are loaded,
\* deleted and overwritten meanwhile (vmCanSwapOut, vmPreviewObject).
ImageIntact == \A k \in DOMAIN image : ReadObjectFromSwap(vm, image[k].page) = image[k].val

\* db->io_keys and the io_keys of the clients say the same, and a suspended
\* client either waits for a key or is in io_ready_clients, once (redis.c:2039).
WaitersAgree ==
  /\ \A c \in Clients, k \in Keys :
       Cardinality({i \in DOMAIN vm.wants[c] : vm.wants[c][i] = k})
         = Cardinality({i \in DOMAIN vm.io_keys[k] : vm.io_keys[k][i] = c})
  /\ \A c \in Clients :
       Cardinality({i \in DOMAIN vm.ready : vm.ready[i] = c})
         = (IF IoWait(vm, c) /\ vm.wants[c] = <<>> THEN 1 ELSE 0)

\* A suspended client is resumed unless one of its keys is deleted or overwritten
\* under it: every load completes or is overtaken by lookupKey, and both tell
\* every client that waits (redis.c:9951).
ClientsResume ==
  \A c \in Clients : IoWait(vm, c) ~> (~IoWait(vm, c) \/ c \in vm.stranded \/ vm.panic)

\* The main thread gets out of waitEmptyIOJobsQueue, although the threads it
\* waits for may be blocked on the pipe that it reads itself (redis.c:9689).
WaitEnds == waitfork ~> (~waitfork \/ vm.panic)

\* VirtualMemorySpecification.html: clients are paused until their values are
\* loaded.  A client whose key is deleted meanwhile is paused for good.
EveryClientResumes == \A c \in Clients : IoWait(vm, c) ~> (~IoWait(vm, c) \/ vm.panic)

=============================================================================
