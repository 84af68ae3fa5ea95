# A verification development of Redis 2.0.0

TLA+ models of the server in `src/redis-2.0.0-src`, the TLC runs that check
them, and proofs TLAPS checks. The repository also holds Redis 1.3.6
(`src/redis-1.3.6-src`, the previous release of the same server) and a few
experiments (`src/test`); the models follow 2.0.0.

Line numbers are those of `src/redis-2.0.0-src/redis.c` unless a file is named.

## 1. The system

Redis is one process and one thread of commands (the I/O threads of the
virtual memory apart). `aeMain` turns forever: `beforeSleep`, `poll`, the
handlers of the sockets that fired, then `serverCron` when its timer is due.
Children are forked to save (`BGSAVE`) and to rewrite the append only file
(`BGREWRITEAOF`); slaves are clients of their master. Around the server are
`redis-cli`, `redis-benchmark` and two programs that check files.

| Component | State | Operations | Talks to |
|---|---|---|---|
| dict (`dict.c`) | two tables, `rehashidx`, `iterators`, `dict_can_resize` | add, replace, delete, find, random, iterate, expand, resize, rehash | every data structure; serverCron resizes and rehashes, children suspend it |
| append only file (8224-8850) | `aofbuf`, `bgrewritebuf`, `appendfd`, `appendseldb`, `appendonly`, `bgrewritechildpid` | feed, flush, rewrite, reap, switch on and off, load | `call`, `beforeSleep`, `serverCron`, `CONFIG SET`, the file |
| snapshots (3373-4190, 1317-1337) | `dirty`, `dirty_before_bgsave`, `bgsavechildpid`, `dump.rdb` | SAVE, BGSAVE, reap, load, FLUSHALL, SHUTDOWN | replication: a slave starts from a dump |
| replication, master (2456, 7854-8023) | `slaves`; per slave `replstate`, `reply`, `slaveseldb`, `repldbfd` | SYNC, feed, end of BGSAVE, bulk, stream, free | snapshots, `call`, event loop |
| replication, slave (7792-7852, 8025-8157) | `replstate`, `master`, `masterhost`, the temporary dump | connect, load, SLAVEOF | serverCron, rdbLoad, the slave's own children, log and slaves |
| event loop (`ae.c`, `ae_epoll.c`) | file events and masks, `maxfd`, timers | create and delete events, poll, dispatch, timers | everything |
| clients (2003-2905) | `querybuf`, `bulklen`, `argv`, `reply`, `sentlen`, flags | accept, read, parse, dispatch, reply, free | commands |
| blocking lists (7617-7788) | `blockingkeys`, per client keys and timeout | BLPOP, hand over, time out | push commands, freeClient, serverCron |
| MULTI/EXEC (7480-7586) | queue per client | queue, EXEC, DISCARD | `call`, blocking commands |
| keys and values (3030-3153, 4249-7205) | a dict of keys, a dict of expire times | the commands | dict, adlist, sds, zipmap, skip list |
| expiry, maxmemory (7367-7476, 1499-1529, 8180-8222) | `expires` | EXPIRE, lazy and active expiry, freeing | lookups, rewrite |
| virtual memory (8854-9970) | key storage, page bitmap, four job queues, `io_keys` | swap out, load, cancel, wake | I/O threads, every lookup, forks |
| publish/subscribe (10182-10445) | channels and patterns, two indexes | subscribe, unsubscribe, publish | clients |
| configuration (1654-1990, 9975-10178) | the `server` struct | the file, CONFIG GET, SET, RESETSTAT | the append only file |
| structures | `adlist.c`, `sds.c`, `zipmap.c`, `pqsort.c`, `lzf_*.c`, skip list (5441-5735) | | the commands |
| `redis-cli.c` | options, connection, what is unread | one command, a prompt, MONITOR, SUBSCRIBE | the server's replies |
| `redis-benchmark.c` | clients with half read replies, counters | connect, send, read, count, replace, next test | event loop, the server's replies |

What makes them correct, and what is hard to test in them:

* **dict**: each key in one chain; exact counters (the scan at `dict.c:218`
  has no other bound); a safe iterator that misses and repeats nothing and
  never holds a freed entry although commands go on during the walk.
* **append only file**: the file and `aofbuf` rebuild the dataset at every
  moment, through a rewrite that runs beside the writes; a crash loses the
  current turn at most; the two children share one `wait3`, and `CONFIG SET`
  kills and waits in between.
* **snapshots and replication**: a slave is an exact copy of its master,
  whichever of the shared BGSAVEs it started from; `server.dirty` decides both
  propagation and saving; forks are refused, children killed, links lost. The
  slave is a server as well, with children, a log and slaves of its own.
* **clients and event loop**: requests and replies are cut anywhere; handlers
  free one another's clients and take one another's events away.
* **blocking lists, MULTI, virtual memory, pub/sub**: clients parked in several
  places at once and woken by a command, a timer or a thread.
* **expiry**: no message says that a key has expired; two servers must not come
  apart although each expires by its own clock.
* **structures and formats**: counts and lengths kept beside the data, several
  encodings of one value, chosen by range.

Every hazard, at its line, with the properties that watch it, is in
`PROJECT.json` under `hazards`.

## 2. The modules

`EXTENDS` goes upwards; MC modules give constants small values.

| Module | What it is |
|---|---|
| `KeyValueMap` | abstract: what a caller of `dict.c` may rely on, a map |
| `Dict`, `DictProofs` | `dict.c`, the safe iterator and serverCron's work on tables; implements `KeyValueMap` |
| `Aof`, `AofProofs` | the append only file inside the turn of the event loop |
| `Replication`, `ReplicationProofs` | the master's side of replication and the snapshots it rests on |
| `Slave`, `SlaveProofs` | the slave's side: `syncWithMaster` step by step, SLAVEOF, its own children, log and slave |
| `FairQueue` | abstract: what blocking pops promise, one queue in order of arrival |
| `BlockingPop`, `BlockingProofs` | BLPOP, BRPOP, pushes, RPOPLPUSH, MULTI and EXEC on the C stack; implements `FairQueue` |
| `Dataset`, `Queries` | the commands on mathematical values; what they do to `server.dirty` and to expire times |
| `Keyspace` | two servers that run the same commands with clocks of their own, and the rewritten log |
| `VmIO`, `VmIOProofs` | virtual memory with I/O threads |
| `Broadcast` | abstract: what publish/subscribe promises |
| `PubSub` | the two indexes of subscriptions; implements `Broadcast` |
| `Networking`, `NetworkingProofs` | clients: reading, parsing, dispatch, writing; extends `PubSub` |
| `Strings`, `Adlist`, `Sds`, `Skiplist`, `Zipmap`, `Hashes` | the representations of values |
| `Pqsort`, `Glob`, `Lzf` | algorithms against what they compute |
| `Rdb`, `CheckDump`, `Digest` | dump.rdb, `redis-check-dump`, DEBUG DIGEST |
| `Config` | redis.conf and CONFIG |
| `Cli` | `redis-cli.c` and the replies it reads |
| `Ae` | `ae.c` over epoll |
| `Bench` | `redis-benchmark.c`: clients, tests, passes of the event loop |
| `Objects` | one object of any of these kinds, the calls on it and what is expected of it |
| `InductionFacts` | least and greatest elements, induction and recursion on naturals, lists with an element removed, for the proofs |
| `MC...` | instances for TLC (`Aof` and `Slave` are instantiated by their `.cfg` alone) |

### Dict

`d` is the C structure (`ht0`, `ht1`, `rehashidx`); a chain is the set of its
keys, since no property depends on the order within a chain, and the iterator
keeps what is left of its chain (`rest`) and `nextEntry` (`next`). `Hash` and
the capacities `Sizes` are constants: the proofs hold for any hash function
and any set of capacities with the assumptions in the module. An action is one
call, rehash step included. `must` and `seen` are history variables: the keys
a walk has to return (there from its start on) and those it has returned.

`ActiveRehashing` is the directive `activerehashing` (1454): with `no`,
`IncrementallyRehash` does nothing and a rehash goes on only when commands come.
With `yes` it is the rehash of a main dict of a database, the only ones
`incrementallyRehash` looks at (1305), and `RehashEnds` is claimed for these.

Callers obey what the callers in `redis.c` obey: `serverCron` and the emptying
of a database run between walks; while a walk is open a caller deletes nothing
but the entry the walk has just returned.

`ImplementsMap` is the refinement: `KeyValueMap` with the dict's content as its
map and the return value as its answer.

### Aof

A turn is: `BeforeSleep` (flush, then poll: it chooses what fires), handlers of
the clients that fired, readable before writable for each client
(`ae.c:aeProcessEvents`), then `ServerCron` or, when its timer is not due,
`NoCron`. This order is where most of the behaviour comes from, so it is kept
exactly. Children exit at any moment in between, and a crash may happen
anywhere.

A write is an INCR of a database's one counter. That is the smallest datum in
which a lost, a repeated and a misdirected command each show. The log is a
sequence of `select`, `incr` and `set` (what the rewrite emits); `Replay` is
`loadAppendOnlyFile` on it. `file.torn` says that the file ends in the middle
of a command.

`appendfd` is `"stale"` after `startAppendOnly` has closed the file and kept
its number. `orphan` is how a BGSAVE child ended that `stopAppendOnly` wanted to
kill when the `wait3` there has returned another child: `serverCron` later takes
its exit status for that of the rewrite. The signal may come too late, so the
status may be a success; what then becomes of the file depends on `renamed`,
whether the rewrite child left its temporary file where the handler opens it.
`StaleFdNeverWritten` watches what is written through a stale descriptor, not
what its close at the end of a rewrite (1377) does to a connection that was
given the number.

History variables: `lineage` (the dataset after each write), `turnStart`,
`based` (the file began with
a full dataset: not after CONFIG SET, until the first rewrite ends), `covers`
(the difference buffer has missed nothing), `doubled` (section 4).

Two clients' handlers interleave only through the state both see; a reply
leaves only from its own client's handler. One client that may execute several
commands in a turn (`more`) and be writable in the same turn therefore
produces every order of executing, logging, answering and reaping, and the
runs use one.

### Replication

One server, its snapshots, and its slaves. `copy[s]` stands for the slave's
side: the dump it will load, then its dataset and selected database; it
changes when the slave is sent commands, so that `After(copy[s], reply[s])` is
what the slave will be. `slaves` is the list, in order, because `syncCommand`
copies the buffer of the first slave that waits.

Handlers are atomic: none of them depends on the order inside a turn except
through the child's exit, which is an action of its own (`ChildSaves`,
`ChildFails`) that may fall between any two commands.

`doubt[s]` is a history variable with the ways in which the code loses track of
a slave (section 4): `copied`, `killed`, `forgotten`, `refused`, `flushall`.
The main invariant is that a slave not in doubt is an exact copy: the five ways
are the only ones.

### Slave

The other end, in the detail Replication leaves out. `pc` is where
`syncWithMaster` is: it blocks the server, so that between two of its steps
only the master, the link, children and crashes move. `tmp` and `disk` are the
two dump files, each with its state: whole, torn by a short write, or without its
signature; `saver`, `image` and `orphans`
are the slave's own BGSAVE child and those of earlier lives, whose rename of
`dump.rdb` may fall between the slave's rename (8115) and its load (8122);
`log`, `rewriter` and `rewritten` are its append only file; `sub` is a slave of
the slave. Datasets are two counters, the master's INCRs and the slave's own.

A load that fails with an error (the file cannot be opened or has no
signature: 4080-4093, 8122) comes after `emptyDb`: `EmptyDb` leaves an empty
dataset and the slave not connected, while its log and its own slave keep the
old dataset. A file that ends early ends the process instead (4186).

`doubt` names how the copies may come apart: `written` (a client wrote to a
slave), `overwritten` (a child's dump was loaded in place of the master's),
`log` (the log waits for a rewrite after a load), `refused` (that rewrite was
refused, 1561, or not asked for, after a load that failed), `reloaded` (the
slave's own slave was not told of a dataset reloaded or emptied).

### BlockingPop

Commands nest: a push that finds a blocked client hands the element over and
runs the requests that this client has sent in the meantime, inside the push,
inside an EXEC perhaps. `stack` is therefore the C stack, and only its top frame
moves. `waiting` is `db->blockingkeys`, `blockingkeys` the client's side of it.
`own` in a frame separates the changes of a command from those of the commands
nested in it; `misfed` is a history variable that says when the two were mixed
up in the propagation. `ImplementsFairQueue` maps the order of arrival and the
keys of each waiting client to the abstract queue. A BLPOP that names a key
twice is left out (`WellFormed`), as it would enter one queue twice.

RPOPLPUSH goes on with a list node that the requests of the client it serves
may have freed; the behaviour of the program is then undefined, and
`NodeStaysAlive` keeps such requests out.

### Dataset, Queries and Keyspace

`Dataset` has every command that changes a key as an operator from datasets to
sets of datasets (more than one when it draws a random element or follows the
order of a hash table). What decides the properties is kept exactly: which
lookup a command uses (`lookupKeyRead` deletes a key whose time has passed,
`lookupKeyWrite` deletes any volatile key), when `server.dirty` is incremented,
when an empty value is deleted. An expire time is `"no"`, `"later"` or `"due"`.

`Keyspace` runs a command on the master and, when it changed `dirty`, on a copy
that stands for a slave and for the server that later loads the log. Time
passes on each separately, each expires and frees keys as it likes.
`Queries` has the replies of the commands that read, SORT without STORE among
them.

### VmIO

`vm` is the server's state: keys with their storage, the bitmap (`used`, a set
of pages), the swap file, `newjobs`, the job of each thread, `processed`, the
bytes in the pipe, `io_keys` and `io_ready_clients`. Handlers of the main thread
are atomic except for `waitEmptyIOJobsQueue`, which lets threads go on. `data`
is what each key should hold. A request is a sequence of accesses to keys: those
of a command, or those of the commands of a transaction, which EXEC looks
through for swapped keys before it runs any (`ExecBlockClientOnSwappedKeys`).
What a resumed client has sent in the meantime is a `ProcessCommand` after
`BeforeSleep`. Loops of the code are recursive functions over the number of
rounds, so that they can be proved about. `Swappable` are the keys
`computeObjectSwappability` gives a score: which of them scores best is left
open. SET and DEL undo what is under way for the key they overwrite
(`deleteIfSwapped`, `deleteKey`); `ReplaceKey` is `dictReplace` without it, as in
MSET, in RENAME and in SORT STORE. A swap write may cover any number of its
pages (`WriteObjectOnSwap`), since nobody looks at what it returns; only a seek
that fails cancels the job. `vm.panic` stands for the failures of `redisAssert`
and the `_exit(1)` of a read that finds no object (section 4); the server stops
there. In `data` a value is `Lost` when the code has lost it, and `risked` holds
the keys whose swap will lose it if it completes. `stranded` is a history
variable: the suspended clients whose key was deleted or overwritten.

### PubSub and Networking

`PubSub` is the indexes alone; `Networking` extends it with clients whose
commands they are. A byte is a token (a word, a
number, an end of line); `IobufLen`, `GlueReplyUpTo`, `MaxWritePerEvent` and
the other sizes are small constants. A handler runs in steps, one per round of
its loop, and nothing else runs meanwhile; each read and each write moves any
number of tokens. `executed`, `promised` and `wire` are history variables:
the requests answered, all the tokens of the replies and those written.

### Objects

The other modules without variables are operators, and `Objects` is their state
machine: one object of one kind, changed by the calls on it. `StructureOK`
says what is well formed; `ValueOf` is the abstraction function, to `Dataset`'s
values where there is one, so that `CommandsAgree` is a simulation step by step
between the encodings and `Dataset`. A redis-cli process with its connection,
a loop of `ae.c` and a redis-benchmark process are objects here too, since each
is driven by calls from outside and depends on no other component's
interleaving; their expected behaviour is stated call by call in `Cli`, `Ae` and
`Bench`. A call on redis-benchmark is one pass of its event loop, over one or
two of its clients.

Machine words are narrow (`Byte` 16 values, `LongMax` 131071, levels up to 3),
so that wrap-around, the second length encoding and the cap on free cells all
happen.

## 3. The runs

| Run | Bounds | What it shows |
|---|---|---|
| `dict_walk` | 3 keys of which two collide, 1 value, 1 iterator, one chain per cron batch | tables sound; the cursor always finds a chain; a walk follows no freed entry, misses and repeats nothing; the dict is a map; serverCron finishes a rehash |
| `aof_rewrite` | 1 client, 2 databases, 3 writes, 1 rewrite, 1 restart or crash | `AofExactUnlessDoubled`, `CrashLosesOneTurn` |
| `aof_switch` | 1 client, 2 databases, 2 writes, 2 rewrites, 1 BGSAVE, 2 switches | no child is forgotten, nothing is written to a closed descriptor, a rewrite that has ended is reaped |
| `repl_sync` | 2 slaves, 2 databases, 2 writes or FLUSHALLs, 1 SAVE or BGSAVE, 2 SYNCs, 2 faults | a slave not in doubt is exact; waiters agree; waiters have a BGSAVE; a slave that waits ends up online or disconnected |
| `slave_sync` | a dump of 2 reads, 2 writes of the master, 1 of a client, 1 child, 1 SLAVEOF, 1 fault, 1 crash | dataset, log and sub-slave agree with the master but in the five named ways; a slave connects in the end |
| `blocking` | 3 clients, 2 lists, 6 requests among 2 pushes, 2 pops, RENAME, RPOPLPUSH, MULTI, EXEC, DISCARD, QUIT | waiting clients are served in order and exactly once; the propagated commands rebuild the lists; timeouts are answered |
| `keyspace` | 2 keys, 2 elements, numbers to 2, lists of 2, every command; 3 elements in both keys together, 2 when one is volatile | a master and its copy agree; reads never show the expired; no empty values; a rewritten log rebuilds the dataset |
| `vm` | 2 keys, 2 clients, a transaction that names a key twice and another once, SET, DEL, MSET with RENAME, values of 1 and 2 pages in a file of 2, 1 thread, a pipe of 1 byte, 1 write that fails or falls short | values are lost only where they are marked as lost; jobs, pages and keys match until the code loses track; a child's image stays intact; the tables of waiting clients agree |
| `vm_progress` | as `vm`, with clients that wait for each other's keys and no failed write | clients resume; the wait before a fork ends |
| `client` | a subscriber and a publisher, 1 channel, 1 pattern, 3 scripts each, buffers of 2 to 4 tokens | commands as sent, replies in order, subscriptions match, every message once, requests answered |
| `structures` | values of up to 3 elements, 2 fields, 2 descriptors, 2 timers, a benchmark of up to 2 clients and 2 requests through its 14 tests | structures whole, answers and changes those of the value, dump files give it back |
| `vm_stranded` | as `vm_progress`; expected to fail | a client waiting for a key that is deleted while it loads is never resumed |

Why these bounds suffice for the cases that matter: three keys and capacities
2, 4, 8 give an expansion, a rehash with a collision, an expansion refused
during one, and a shrink; two databases make every SELECT matter; two writes
around a fork give one before it, in the dump, and one after, in the buffer (in
`repl_sync` a FLUSHALL may take the place of either), and a third gives a flush
in between; two slaves are needed to share a BGSAVE or to miss one; two reads give a dump lost in the middle; three clients give
one that pushes and two that compete, in an order of arrival that differs from
the order of the keys; a value of one page and one of two in a file of two give
a full file and a hole that is too small; a pipe of one byte blocks the second
write, which is the case `WaitEnds` is about; buffers shorter than a request
cut it anywhere; three elements and three levels give a first, a middle and a
last node, and a zipmap of two fields gives reuse, growth, shrinking and the
conversion. Every bound is a constant that appears in a guard (`MaxWrites`,
`MaxForks`, `MaxSaves`, `MaxSwitches`, `MaxCrashes`, `MaxSyncs`,
`MaxFaults`, `MaxLocal`, `MaxChildren`, `Limit`, `MaxRequests`, `MaxErrors`,
`Accepted`, `Scripts`, `MaxLength`, `MaxSeconds`, `MaxTimers`) or the guard
itself carries a comment that says it is a bound.

The runs other than `dict_walk` do not check deadlock: a server that has exited
for good, or one whose bounded supply of commands is used up and whose buffers
are empty, stops.

`AnswersAgree` also carries the checks of pure algorithms, over bounded inputs:
every array of up to five elements of three values and every slice of it, six
permutations of seven elements (the median of three); every pattern of up to
three characters and every string of up to three over two letters; every
string of six to nine cells for lzf; every line of up to three special
characters for the functions that split and quote.

Fairness, and why the code gives it:

* `Dict`: serverCron's rehash runs again and again (strong fairness, because
  commands and the resize policy disable it for a while).
* `Aof`: the loop turns, each handler of a turn runs, and the timer comes due
  infinitely often (strong fairness of `ServerCron` against `NoCron`).
* `Replication`: a child ends, `serverCron` reaps it, links take what is sent.
* `Slave`: `syncWithMaster` goes on from step to step, a master answers SYNC,
  a rewriting child ends and is reaped. Nothing is assumed of the link: it may
  be lost or go silent.
* `BlockingPop`: the server executes (weak), and the timeout of a client that
  goes on waiting is over at some time (strong: commands come in between).
* `VmIO`: threads are scheduled (weak); each turn of the loop serves the pipe
  and runs `beforeSleep` (strong, with the guards written out); the wait before
  a fork is a loop, and is followed by the fork.
* `Networking`: a handler that runs ends; a socket with something to read, or
  with an event installed and a peer that reads, is served in the end.

Nothing is assumed of commands, faults, crashes or disconnections.

## 4. Where the code and its documentation part

One has a run, `vm_stranded`: a client that waits for a swapped key is woken
only by the completed LOAD job. Deleting or overwriting the key while it loads
cancels the job (3034-3041) and wakes nobody; `VirtualMemorySpecification`
says that clients are restarted when their values were loaded. `ClientsResume`
is the part that holds.

The others were met while modelling. Each model has the behaviour, and where a
property must except it, a history variable names it.

Append only file and snapshots:

* A rewrite may end with commands still in `aofbuf`, since file events run
  before timers; they are in the new file too and are appended again (1353),
  against "safe to merge" (8762). History variable `doubled`.
* A socket readable and writable in one turn is answered before the flush,
  against "required to write the AOF before replying" (8225).
* SHUTDOWN does not flush `aofbuf` (4204), against "without the lost of any
  data" (`ShutdownCommand`).
* CONFIG SET appendonly no: "rewrite operation in progress? kill it" (8820); it
  kills the BGSAVE child, which nothing tells the slaves that wait for it.
* CONFIG SET appendonly yes whose file cannot be opened answers "-ERR Unable to
  turn on AOF" (10017) and leaves the append only file on without a file
  (8839); the next flush exits.
* A rewrite skips the EXPIREAT of a key whose time has passed (8683): the key
  comes back without one.
* FLUSHALL between the exit of a child and its reaping makes
  `dirty - dirty_before_bgsave` (1325) count fewer changes than were made.
* `rdbSaveTime` stores times in 32 bits; `rdbSavedObjectLen` asserts that the
  result is not 1 where its functions return -1 for an error; DEBUG DIGEST
  marks an expire time with a string that a member may also be.

Replication:

* A slave that joins a BGSAVE copies a buffer but not the database selected at
  its end (7909), against "Perfect, ... copy the buffer" (7884): `copied`.
* A BGSAVE child killed by a signal counts as success (1336), and the old dump
  is sent, against 7969: `killed`.
* FLUSHALL with one unsaved change leaves `dirty` as it was and is not
  propagated (6820), against "exact copies" (`ReplicationHowto`): `flushall`.
* A refused fork at the end of a BGSAVE leaves its slaves in `WAIT_BGSAVE_END`
  with no BGSAVE to wait for: the clean-up looks for the other state (8018):
  `refused`. A killed BGSAVE is `forgotten`.
* A slave's own BGSAVE child may rename its file over the dump received before
  it is loaded; after a load the log is stale until a rewrite, which is refused
  while a child runs, and nobody looks at the answer (1561); a slave of the
  slave is not told of the new dataset. A master that falls silent during the
  dump blocks the slave for good, since those reads have no timeout (8097). A
  short write of the dump is not noticed (8105): the server exits when it loads
  it and cannot start again, or, when the signature is missing, goes on with an
  empty dataset that neither its log nor its own slave hears of. The temporary
  file stays behind a failed sync.

Keys and commands:

* GETSET reads with `lookupKeyRead` (4319), so that a master and a slave may
  disagree on the type of a volatile key; SORT STORE reads volatile keys that
  the copy may have lost, leaves the expire time of the key it stores, and may
  store an empty list (6952); SPOP and SORT STORE without an order are
  propagated as they are. All are `doubt` in `Keyspace`.
* A transaction is not isolated: a push inside EXEC that serves a blocked
  client runs this client's pending requests at once (7689), against "never ...
  in the middle" (`MultiExecCommand`). A handed-over push is propagated when
  the receiver's requests change `dirty`, and so is an RPOPLPUSH handed over,
  whose replay stores the element: `misfed`. RPOPLPUSH also goes on with a node
  that those requests may have freed.
* HMGET has no return after its wrong type error (6687).
* `incrDecrCommand` does not look for overflow; a string that saturates, is
  empty or is cut by a nul counts as a number; `compareStringObjects` compares
  with strcmp when one side is an integer, against its comment (3229); HINCRBY
  ignores `hash_max_zipmap_value` for its field (6648).
* SUBSTR and `sdsrange` take an end before the string for its first character,
  and a start behind the end gives the last; `sdstrim` trims nuls; `sdscatrepr`
  leaves a backslash unescaped, and `sdssplitargs` knows no `\x`, so that what
  redis-cli prints cannot always be typed in again.
* `stringmatchlen` reads behind a pattern that ends in a backslash inside a
  class. The comments of `zipmap.c` name 253 as the largest one byte length in
  one place and 254 in the other.

Virtual memory, clients, configuration:

* RENAME's target (4691), the destination of SORT STORE (7187) and the keys of
  MSET (4376) are overwritten with `dictReplace` without `deleteIfSwapped`. A
  target on disk keeps its storage and its pages with a value in memory, against
  `VirtualMemorySpecification` ("the value entry of the hash table is just set to
  NULL"), and the next lookup fails the assertion at 3087. A target that is being
  swapped out loses the new value when its DO_SWAP completes (9482-9488).
* A swap write that falls short is not noticed (9067-9068): the key is SWAPPED
  with pages that hold no object, and the next load ends the process (9112).
* A swap write whose seek fails sets `canceled` in the thread (9650); the main
  thread then drops the job and the key stays SWAPPING, so that a later cancel
  finds no job and hits `assert(1 != 1)` (9611).
* With `glueoutputbuf no` and a head object larger than
  `REDIS_MAX_WRITE_PER_EVENT`, the vector is empty and the client is never
  written to. UNSUBSCRIBE without subscriptions gets no reply.
* CONFIG SET checks timeout and the changes of a save point as wide numbers and
  stores them in int (9995, 10050-10053): both may become negative, against
  "Seconds >= 1, changes >= 0" (10029) and what the loader refuses (1844, 1857).
  `WellFormed` leaves these two out, and says so.
* The configuration file takes `maxmemory -1`, unknown units and what follows a
  number; a password can be set but not unset.
* redis-check-dump refuses databases above 63, which a server may have, reads
  a type name at index -1 for an unknown type, and does not look for another
  entry after an error in the last two.
* redis-cli leaves the rest of a refused SELECT's error unread and is out of
  step from then on (233-251); with `-n` it does not reconnect, since the
  failure is returned as 1; AUTH of `-a` is not repeated; a command sent again
  after a lost connection may run twice; a refused SHUTDOWN leaves its mark;
  SUBSCRIBE goes round without end when its connection closes; the length of a
  bulk is believed, so that a cut reply shows what the memory held.
* redis-benchmark reads an error in answer to GET, LPOP, SPOP or LRANGE as the
  length of a bulk and waits for the rest without end, and so for an empty multi
  bulk; a client that is lost is only replaced when another one is done, and
  when all are lost the test never ends; with `-c 0 -k 0` none is left after the
  first reply; `-r 0` divides by zero (161) in the first test with a random key;
  connections refused during a test are tried again without end (366). Its help
  promises keys up to `rand000000000009` for `-r 10` (472), but the number is
  copied to the left end of the zeros (163), over what is left of the number
  before. `createMissingClients` draws a key for the client it copies, not for
  the copy (369).
* `ae.c` looks for the nearest timer "without to delay any event" (188-190), but
  when a timer is overdue only the seconds are clamped to zero (305), and the
  poll may wait for up to a second more.

## 5. What is proved

Every theorem holds for every value of the constants that meets the
assumptions named in the module it is about (`...Assumption`, in its first
lines). Each is `Spec => []P` from an inductive invariant, or a refinement: the
initial states map to initial states and every step maps to a step or a stutter.

`InductionFacts` holds what the installed provers lack. They cannot use the
library's induction theorems, which take an operator as a parameter, but a
formula `P(n)` is proved for every natural by showing that the set
`{n \in Nat : P(n)}` has 0 and is closed under successor (`InductiveSet`, from
the well-foundedness of the order). `RecursionExists` shows in the same way that
a function defined by its previous value exists, so that a fold, whose
definition chooses such a function, satisfies its recursion equation. The
replay of a log and the application of a reply buffer are then treated one
command at a time, and the loops of `VmIO` one round at a time
(`RecursionStays`: what each round keeps holds after all).

### Dict (`DictProofs`)

For every set of keys, hash function, set of capacities, batch size and number
of iterators:

* `TablesAlwaysOK`: `Spec => []TablesOK`; `DictTypeCorrect`: `Spec => []TypeOK`.
* `CursorNeverOverflows`: `Spec => []CursorFindsAChain`, the claim of
  `dict.c:218`.
* `NextEntryAlwaysAlive`, `NothingEverMissed`: `Spec => []NextEntryAlive` and
  `Spec => []NothingMissed`; `NothingEverRepeated`: `Spec => NothingRepeated`.
* `DictIsAMap`: `Spec => ImplementsMap`.

For the tables the invariant is `TablesInv == DictOK(d) /\ Sound(d)`: the types
of the fields, and soundness. Types alone are not enough, since a rehash step
is only safe when nothing is behind the cursor; soundness alone is not enough,
since the arithmetic of sizes needs the types. The proof goes operator by
operator (a lemma for expanding, moving a chain, finishing, linking and
unlinking), then action by action. That the scan finds a chain follows because
`used` is the number of entries, all of them at or after the cursor.

For walks it is `WalkInv`: `TypeOK`, `Sound`, `CountOK` (`iterators` is the
number of walks that are open, so that no bucket moves during one) and, for each
iterator, `IterOK`. Of an open walk this says that it is at a bucket that
exists, that `rest` and `next` are entries of that bucket, and `Frontier`: what
lies ahead of it (the rest of the chain, the later buckets, the second table)
holds nothing the walk has returned, and together with what it has returned
holds everything it must return. `NothingMissed` alone speaks of the end of a
walk, and `NothingRepeated` of one step; neither could be carried through a step
without what lies ahead. Each operation has a lemma that says what it does to
the entries and that it leaves all chains alone while a walk is open
(`...Keeps`). The first attempt failed at the end of a walk, where the model's
`DictNext` had lost what the iterator keeps; the model was corrected, not the
invariant.

### Append only file (`AofProofs`)

For any number of clients, databases, commands, forks, switches and restarts:

* `ChildrenAlwaysKnown`: `Spec => []ChildrenKnown`. The property is inductive
  as it stands; each action that forks, kills, waits or restarts has its lemma.
* `StaleFdNeverUsed`: `Spec => []StaleFdNeverWritten`, by strengthening it with
  `OffIsFlushed` (with the append only file off nothing is buffered), which is
  what makes refusing a rewrite safe.
* `AofAlwaysExact`: `Spec => []AofExactUnlessDoubled`;
  `CrashAlwaysLosesOneTurn`: `Spec => []CrashLosesOneTurn`.

The last two need an invariant of their own, `LogInv`:

* `FileLogged`: the file and `aofbuf` after it rebuild the dataset, and the
  database they leave selected is the one `appendseldb` says, unless the
  counter is still -1 and the next command brings its SELECT;
* `RewriteLogged`: the same of the child's file with `bgrewritebuf` after it, as
  long as the difference buffer has missed nothing (`covers`);
* `CutsBeen`: wherever a write of `aofbuf` is cut short, what is then in the
  file rebuilds a dataset the server has had in this turn;
* `FileBeen`: so does the file as it is;
* `DataTyped` and `Modes`: the types of what is replayed, and what holds when the
  append only file is off or the server down.

`CrashLosesOneTurn` needs the cuts, because a crash in the middle of `write(2)`
leaves any prefix. `RewriteRebuilds` is the lemma that the commands the child
emits rebuild the dataset it was forked with, whatever database the log before
them had selected.

### Replication, master (`ReplicationProofs`)

For any number of slaves, databases, commands and faults:

* `WaitersAlwaysAgree`: `Spec => []WaitersAgree`, the reason `syncCommand` may
  copy the buffer of whichever waiting slave it meets first.
* `WaitersAlwaysHaveABgsave`: `Spec => []WaitersHaveABgsave`.
* `CopiesAlwaysExact`: `Spec => []ExactUnlessInDoubt`.

Neither of the first two is inductive alone: `WaitersInv` is both together with
`FreshAtStart`, since the slaves that wait for the next BGSAVE start waiting
for its end all at once with what they hold then, and a first waiter of a new
BGSAVE must meet no waiter of an older one. `CopiesInv` adds the types of the
datasets and `DumpExact`: between the end of the child and the `serverCron` that
reaps it, the dump on disk is the one the waiting slaves' buffers follow,
unless a FLUSHALL has written another (which puts them in doubt). The proof
that a command keeps a copy exact splits a buffer into what was there and what
was fed (`AfterInParts`).

### Replication, slave (`SlaveProofs`)

For any number of writes of the master and of clients, of children, SLAVEOF
commands, lost links and crashes, and a dump of any length, provided that no
dump is not a number (`NoDumpAssumption`):

* `CopiesAlwaysAgree`: `Spec => []CopiesAgreeUnlessInDoubt`.

The property speaks of a slave that is connected; what makes it so is in the
steps before. The inductive invariant `SlaveInv` adds to it that the dump
received so far and the stream behind it are together the master's commands
(`DumpAndStream`, `StreamOn`), so that the load and what is applied after it
give the master's dataset; that the file which is loaded is the dump unless a
child has overwritten it; that the rewriting child's file and the difference
buffer rebuild the dataset unless the rewrite is in doubt (`RewriteFollows`);
and that a slave that is down has neither a slave nor a child of its own
(`DownIsQuiet`). One lemma for each group of actions; the steps of
`syncWithMaster` have one each. A load that fails after `emptyDb` keeps
`SlaveInv` because it leaves the slave unconnected and the copies in doubt.

### Blocking pops (`BlockingProofs`)

For any number of clients, lists and requests, and however deep commands nest:

* `BlockingIsFair`: `Spec => ImplementsFairQueue`.
* `LogAlwaysExactUnlessMisfed`: `Spec => []LogExactUnlessMisfed`.

`BlockInv` has three parts. `QueueInv`: the list of clients that wait for a key
is the order of arrival restricted to those that remember the key, which is why
the head of the list may be served without looking at the others.
`CommandsInv`: what is queued are requests clients send. `StackInv`, a predicate
on the C stack: only the top frame runs or owns a change; a frame of EXEC
belongs to a client in a transaction that is not blocked; only commands of EXEC
nest for the client of a frame below. It is needed because a command that goes
on after it has served a client finds the state the nested requests left. In
the refinement a client is taken off the abstract queue when the push serves
it, and the requests it runs then are steps of their own.

The log's invariant has the propagated commands rebuild the lists, but for the
command that has just changed them and is not propagated yet (the top frame
`own`s it). A command that is done, that owns no change and whose nested
requests changed `dirty` will be propagated all the same: such a state is
`Doomed`, and stays so until the propagation sets `misfed`.

### Clients and publish/subscribe (`NetworkingProofs`)

For any number of clients, channels and patterns, any relation between patterns
and channels, any requests and any sizes of the buffers:

* `StreamsAlwaysIntact`: `NetSpec => []StreamsIntact`.
* `SubscriptionsKept`: `NetSpec => []SubscriptionsMatch`.
* `PubSubBroadcasts`: `PsSpec => ImplementsBroadcast`.

Assumed are that the sizes are positive (as the `#define`s of redis.c and ae.c
are), that there are finitely many patterns and that a request has at least
a name.

`StreamsIntact` compares the socket with what was promised. `NetInv`, which a
step keeps, has four parts:

* `Outputs`: what was promised is what is on the wire followed by `Rest(reply,
  sentlen)`, the tokens of the reply list but for the `sentlen` first; `sentlen`
  is never more than the list holds, and the write event is installed exactly
  while the list is not empty. It is said of every client, also of one that is
  not connected, since a step may free one client and reply to another.
* `Inputs`: what is unread, read and parsed are sequences of tokens, so that the
  replies that repeat a part of a request are too.
* `HandlerOK`: a handler in the middle of writing has something left to write.
* `TablesFinite`: UNSUBSCRIBE without arguments and PUBLISH go through sets of
  names in some order, which must be finite to be gone through.

The lemmas that matter are about `FlattenSeq`, a fold in the community modules:
`FlattenConcat` comes from unfolding its recursive function, by induction over
sets of lengths (`InductionFacts`). On it rest that a reply that is added is
added to the end of `Rest` (`RestGrows`), that gluing changes no token
(`Glued`), and that n tokens written are the first n of `Rest`, whether they end
inside an object or after several (`RestWritten`); `SendKeeps` and `WroteKeeps`
carry these through the two functions that write.

`SubscriptionsMatch` is inductive with the types of the tables (`PsInv`): a step
of `Networking` is at most one call of one function of `PubSub` for one client,
and `PsStepKeeps` has a case for each, with names outside `Channels` and
`Patterns` allowed since a client may send any word.

The refinement is proved of `PubSub` alone: initial states map to initial
states; every subscription, unsubscription and disconnection is a `Change` of
one client; a PUBLISH, which reads the server's lists, is the abstract `Publish`,
which reads the clients' tables, because the two match. As a part of
`Networking` it is checked by the run `client`, where all three properties are.

### Virtual memory (`VmIOProofs`)

For any number of keys, clients, I/O threads, pages, values of any sizes, any
requests, any size of the pipe and any number of writes that fail or fall
short:

* `ValuesAlwaysKept`: `Spec => []ValuesKept`.
* `JobsAndPagesAlwaysMatchKeys`: `Spec => []JobsAndPagesMatchKeys`.
* `ImageAlwaysIntact`: `Spec => []ImageIntact`.
* `WaitersAlwaysAgree`: `Spec => []WaitersAgree`.

Assumed are that a value takes at least one page and fits the file, that there
is a page, a thread and a byte of pipe, and that what stands for "no value" is
neither a value nor a key (`VmAssumption`), and that a request is a non-empty
sequence of accesses (`RequestsAssumption`).

None of the four is inductive. `IInv` is the conjunction of `VmInv`, a
predicate on the server's state, `ClientsInv`, one on the waiting clients, and
`ImageKept`:

* `KeyInv`, of each key: its value is where its storage says (`Stored`); an
  active job about it is of the kind that its storage waits for, with the page
  or the value of the key (`JobFits`); a processed one brings what it was for,
  the value, the number of pages or the pages written (`JobDone`); and there
  are active jobs in one of the three lists at most (`OnePlace`).
* `Queues`: no list has two active jobs about one key, a thread has a job in
  hand while it works, and the processed jobs are as many as the bytes in the
  pipe and the threads about to write one. The last is why a byte that is read
  always finds a job.
* `PagesApart`, `PagesUsed`: as `PagesHaveOneOwner`, for keys on disk and
  DO_SWAP jobs alike. Hence a thread that writes touches no page of another
  key (`OneKeyOnFile`).
* `Exact`, while `errors = 0`: no assertion has failed unless a value is lost, a
  key being swapped or loaded has a job, and every marked page has an owner.
* `Agree`, `ReadyOnce`, `WaitersPaused`: counts of occurrences, since a client
  may wait for a key twice.
* `ImageKept`: while a child runs no DO_SWAP is queued or in hand, and the pages
  of its image still hold it.

An operation changes one key and leaves to every other its storage, its jobs
and its pages (`Same`); `OneKey` concludes that the invariant of the others
holds, so that each operator has one lemma about its key: `JobCancelled`,
`KeyQueued`, `ValueLoaded`, `KeyDropped`, `KeySet`, `KeyWaitedFor`. Loops
(the clients of a key, the accesses of a request, the clients to resume, more
keys to swap) go through `RecursionStays`: what each round preserves holds of the
last. `PagesFound` says of `FindContiguousPages` that the run it finds is free
and inside the file; it is an induction over the offsets, whose `numfree` counts
the free pages up to one and starts again at page 0. `Calm` says what the main
thread's handlers leave alone (the file, the jobs in hand), which is what
`ImageKept` needs.

What fails in the code (section 4) shows in the theorems. `JobsMatchKeys` is
claimed for `errors = 0`, before a seek has failed. `ValuesKept` leaves out keys
marked `Lost`, and the mark is set in two places only: `ReplaceKey` over a key
on disk, and the DO_SWAP that completes for a key in `risked`, because of a
`ReplaceKey` or of a write that fell short in the meantime. That every other
value survives, among them those whose swap was undone in time, is the theorem.
`ImageIntact` is about the values that were not lost at the fork. The waiters
and the owners of pages are right whatever fails.

### Model-checked only

* `CommandsAsSent` of `Networking`: it compares what was parsed with what the
  client meant, so that its proof is an induction over the requests of a script
  and the tokens of each.
* The invariants of `Keyspace` and `Objects`: these rest on `Queries`, `Rdb` and
  the algorithms on sequences, which are RECURSIVE operators; tlapm has no SMT
  backend in such a module.
* Every property that needs fairness, since tlapm has no ENABLED.

The type invariants `TypeOK` of the modules hold in the runs and are not listed
in them, as the other invariants imply what matters of them.

## 6. What is not modelled, and what is left

* The fsync policies of the append only file: they need the operating system's
  cache as a second file.
* Swapping without threads (`vm-max-threads 0`).
* A BLPOP that names one key twice: it enters that key's queue twice.
* Reference counts, sharing of objects and the free list of objects: values are
  values in the models. Exceptions are VmIO (a key that is being written) and
  RPOPLPUSH above.
* Replies of commands that write, other than those in Networking: `Dataset` has
  what they do, `Queries` the replies of those that read.
* Multi bulk requests with several words on a line inside; requests too long in
  more than one way.
* Scores that are not a number; strings compressed to nothing.
* In `Ae`: flags other than AE_ALL_EVENTS, a timer that deletes itself and asks
  to be called again, descriptors that are closed and opened within one pass.
* `ae_select.c` and `ae_kqueue.c` (chosen in place of epoll when compiled),
  `anet.c` (wrappers of socket calls), sha1 and linenoise (third-party), INFO,
  DEBUG other than DIGEST, logging, the daemon and the crash report (text and
  calls of the operating system), the latencies of `redis-benchmark`, Redis
  1.3.6 (the previous release of the same code), `src/test`.

Left to do: a proof of `CommandsAsSent`; recursive functions in place of
RECURSIVE operators in `Dataset`, `Queries` and the algorithms on sequences, and
proofs about `Keyspace` on them; the fsync policies.

Abstractions common to the modules: memory allocation does not fail (the
server aborts when it does); keys, values and payloads are members of small
sets; wording is left out of replies.
