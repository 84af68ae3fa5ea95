----------------------------- MODULE VmIOProofs -----------------------------
(***************************************************************************)
(* What holds of virtual memory for every number of keys, clients,         *)
(* threads, pages and swap writes that fail.                               *)
(***************************************************************************)
EXTENDS VmIO, InductionFacts, SequenceTheorems, TLAPS

-----------------------------------------------------------------------------
(* The states.                                                             *)

Storages == {"absent", "MEMORY", "SWAPPING", "SWAPPED", "LOADING"}
KeyObjects ==
  [storage : Storages, val : Values \cup {None}, page : Pages, pages : 0..VmPages]

\* Only a job that a thread or the main thread has finished is canceled.
NewJobs == {job \in JobRecords : ~job.canceled}

KeyTables == [Keys -> KeyObjects]
PageSets == SUBSET Pages
Files == [Pages -> Values \cup {None}]
NewQueues == Seq(NewJobs)
DoneQueues == Seq(JobRecords)
ThreadStates == [Threads -> {"off", "take", "work", "signal"}]
Hands == [Threads -> NewJobs \cup {NoJob}]
ClientLists == [Keys -> Seq(Clients)]
KeyLists == [Clients -> Seq(Keys)]
Commands == [Clients -> Requests \cup {NoCmd}]
Ready == Seq(Clients)
ClientSets == SUBSET Clients
Data == [Keys -> Values \cup {None, Lost}]
KeySets == SUBSET Keys

States ==
  [key : KeyTables, used : PageSets, file : Files, newjobs : NewQueues,
   processed : DoneQueues, pipe : Nat, thread : ThreadStates, job : Hands,
   io_keys : ClientLists, wants : KeyLists, cmd : Commands, ready : Ready,
   panic : BOOLEAN, stranded : ClientSets, data : Data, risked : KeySets, torn : Nat]

-----------------------------------------------------------------------------
(* Lists of jobs.                                                          *)

Active(list, i, k) == list[i].key = k /\ ~list[i].canceled

\* No two places of a list have active jobs about one key.
OneIn(list) ==
  \A k \in Keys : \A i, j \in DOMAIN list : Active(list, i, k) /\ Active(list, j, k) => i = j

LEMMA InList ==
  \A list, k, job :
    job \in JobsIn(list, k) <=> \E i \in DOMAIN list : Active(list, i, k) /\ job = list[i]
  BY DEF JobsIn, Active

\* A list with a job more.
LEMMA JobAppended ==
  ASSUME NEW S, NEW q \in Seq(S), NEW job \in S, NEW k
  PROVE  /\ JobsIn(Append(q, job), k)
              = JobsIn(q, k) \cup (IF job.key = k /\ ~job.canceled THEN {job} ELSE {})
         /\ OneIn(q) /\ (job.canceled \/ JobsIn(q, job.key) = {}) => OneIn(Append(q, job))
<1> DEFINE r == Append(q, job)
           n == Len(q)
<1>1. /\ n \in Nat /\ DOMAIN q = 1 .. n /\ DOMAIN r = 1 .. n + 1
      /\ r[n + 1] = job /\ \A i \in 1 .. n : r[i] = q[i]
  OBVIOUS
<1> HIDE DEF r, n
<1>2. \A i \in DOMAIN q : i \in DOMAIN r /\ r[i] = q[i]
  BY <1>1
<1>3. \A i \in DOMAIN r : i \in DOMAIN q \/ i = n + 1
  BY <1>1
<1>4. n + 1 \in DOMAIN r
  BY <1>1
<1>5. ASSUME NEW x
      PROVE  x \in JobsIn(r, k)
               <=> x \in JobsIn(q, k) \/ (x = job /\ job.key = k /\ ~job.canceled)
  BY <1>1, <1>2, <1>3, <1>4, InList DEF Active
<1>6. ASSUME OneIn(q), job.canceled \/ JobsIn(q, job.key) = {} PROVE OneIn(r)
  <2> SUFFICES ASSUME NEW l \in Keys, NEW i \in DOMAIN r, NEW j \in DOMAIN r,
                      Active(r, i, l), Active(r, j, l)
               PROVE  i = j
    BY DEF OneIn
  <2>1. i \in DOMAIN q => Active(q, i, l) /\ q[i] \in JobsIn(q, l)
    BY <1>2, InList DEF Active
  <2>2. j \in DOMAIN q => Active(q, j, l) /\ q[j] \in JobsIn(q, l)
    BY <1>2, InList DEF Active
  <2>3. i = n + 1 \/ j = n + 1 => job.key = l /\ ~job.canceled
    BY <1>1 DEF Active
  <2>4. i \in DOMAIN q /\ j \in DOMAIN q => i = j
    BY <1>6, <2>1, <2>2 DEF OneIn
  <2> QED
    BY <1>3, <1>6, <2>1, <2>2, <2>3, <2>4
<1> QED
  BY <1>5, <1>6 DEF r

\* list with the place p gone; At says where the other places were.
Without(r, list, p, At) ==
  /\ \A i \in DOMAIN r : \A k \in Keys :
       Active(r, i, k) =>
         At[i] \in DOMAIN list /\ At[i] # p /\ Active(list, At[i], k) /\ r[i] = list[At[i]]
  /\ \A i, j \in DOMAIN r : At[i] = At[j] => i = j
  /\ \A i \in DOMAIN list : \A k \in Keys :
       i # p /\ Active(list, i, k) => \E j \in DOMAIN r : r[j] = list[i]

LEMMA JobGone ==
  ASSUME NEW r, NEW list, NEW p, NEW At, Without(r, list, p, At), OneIn(list)
  PROVE  /\ OneIn(r)
         /\ \A k \in Keys :
              \/ ~ (p \in DOMAIN list /\ Active(list, p, k)) /\ JobsIn(r, k) = JobsIn(list, k)
              \/ p \in DOMAIN list /\ Active(list, p, k) /\ JobsIn(r, k) = {}
<1>1. OneIn(r)
  <2> SUFFICES ASSUME NEW k \in Keys, NEW i \in DOMAIN r, NEW j \in DOMAIN r,
                      Active(r, i, k), Active(r, j, k)
               PROVE  i = j
    BY DEF OneIn
  <2>1. /\ At[i] \in DOMAIN list /\ Active(list, At[i], k)
        /\ At[j] \in DOMAIN list /\ Active(list, At[j], k)
    BY DEF Without
  <2>2. At[i] = At[j]
    BY <2>1 DEF OneIn
  <2> QED
    BY <2>2 DEF Without
<1>2. ASSUME NEW k \in Keys, ~ (p \in DOMAIN list /\ Active(list, p, k))
      PROVE  JobsIn(r, k) = JobsIn(list, k)
  <2>1. ASSUME NEW x \in JobsIn(r, k) PROVE x \in JobsIn(list, k)
    BY <2>1, InList DEF Without
  <2>2. ASSUME NEW x \in JobsIn(list, k) PROVE x \in JobsIn(r, k)
    <3>1. PICK i \in DOMAIN list : Active(list, i, k) /\ x = list[i]
      BY <2>2, InList
    <3>2. PICK j \in DOMAIN r : r[j] = list[i]
      BY <1>2, <3>1 DEF Without
    <3>3. Active(r, j, k) /\ x = r[j]
      BY <3>1, <3>2 DEF Active
    <3> QED
      BY <3>2, <3>3, InList
  <2> QED
    BY <2>1, <2>2
<1>3. ASSUME NEW k \in Keys, p \in DOMAIN list, Active(list, p, k)
      PROVE  JobsIn(r, k) = {}
  <2> SUFFICES ASSUME NEW x \in JobsIn(r, k) PROVE FALSE
    OBVIOUS
  <2>1. PICK i \in DOMAIN r : Active(r, i, k) /\ x = r[i]
    BY InList
  <2>2. At[i] \in DOMAIN list /\ At[i] # p /\ Active(list, At[i], k)
    BY <2>1 DEF Without
  <2> QED
    BY <1>3, <2>2 DEF OneIn
<1> QED
  BY <1>1, <1>2, <1>3

\* The three ways a job leaves a list.
LEMMA JobRemoved ==
  ASSUME NEW S, NEW q \in Seq(S), NEW p \in 1 .. Len(q)
  PROVE  /\ RemoveAt(q, p) \in Seq(S) /\ Len(RemoveAt(q, p)) = Len(q) - 1
         /\ \E At : Without(RemoveAt(q, p), q, p, At)
<1> DEFINE r == RemoveAt(q, p)
           At == [i \in DOMAIN r |-> IF i < p THEN i ELSE i + 1]
<1>1. /\ r \in Seq(S) /\ Len(r) = Len(q) - 1 /\ DOMAIN r = 1 .. Len(q) - 1
      /\ \A i \in 1 .. Len(q) - 1 : r[i] = q[IF i < p THEN i ELSE i + 1]
  BY RemoveAtFacts
<1>2. \A i \in DOMAIN r : /\ At[i] \in 1 .. Len(q) /\ At[i] # p /\ r[i] = q[At[i]]
                          /\ At[i] = IF i < p THEN i ELSE i + 1
  BY <1>1
<1>3. \A i, j \in DOMAIN r : At[i] = At[j] => i = j
  BY <1>1, <1>2
<1>4. ASSUME NEW i \in 1 .. Len(q), i # p PROVE \E j \in DOMAIN r : r[j] = q[i]
  <2>1. CASE i < p
    BY <1>1, <2>1
  <2>2. CASE i > p
    <3>1. i - 1 \in DOMAIN r /\ r[i - 1] = q[i]
      BY <1>1, <2>2
    <3> QED
      BY <3>1
  <2> QED
    BY <1>4, <2>1, <2>2
<1> HIDE DEF r, At
<1>5. DOMAIN q = 1 .. Len(q)
  OBVIOUS
<1>6. Without(r, q, p, At)
  BY <1>2, <1>3, <1>4, <1>5 DEF Without, Active
<1> QED
  BY <1>1, <1>6 DEF r

LEMMA JobsTaken ==
  ASSUME NEW S, NEW q \in Seq(S), NEW n \in 1 .. Len(q), \A i \in 1 .. n - 1 : q[i].canceled
  PROVE  LET r == SubSeq(q, n + 1, Len(q))
         IN  /\ r \in Seq(S) /\ Len(r) = Len(q) - n /\ \A i \in 1 .. Len(r) : r[i] = q[i + n]
             /\ \E At : Without(r, q, n, At)
<1> DEFINE r == SubSeq(q, n + 1, Len(q))
           At == [i \in DOMAIN r |-> i + n]
<1>1. /\ r \in Seq(S) /\ Len(r) = Len(q) - n /\ DOMAIN r = 1 .. Len(q) - n
      /\ \A i \in 1 .. Len(q) - n : r[i] = q[i + n]
  OBVIOUS
<1>2. \A i \in DOMAIN r : /\ At[i] \in 1 .. Len(q) /\ At[i] # n /\ r[i] = q[At[i]]
                          /\ At[i] = i + n
  BY <1>1
<1>3. \A i, j \in DOMAIN r : At[i] = At[j] => i = j
  BY <1>1, <1>2
<1>4. ASSUME NEW i \in 1 .. Len(q), i # n, ~q[i].canceled PROVE \E j \in DOMAIN r : r[j] = q[i]
  <2>1. i > n
    BY <1>4
  <2>2. i - n \in DOMAIN r /\ r[i - n] = q[i]
    BY <1>1, <2>1
  <2> QED
    BY <2>2
<1> HIDE DEF r, At
<1>5. DOMAIN q = 1 .. Len(q)
  OBVIOUS
<1>6. Without(r, q, n, At)
  BY <1>2, <1>3, <1>4, <1>5 DEF Without, Active
<1> QED
  BY <1>1, <1>6 DEF r

LEMMA JobCanceled ==
  ASSUME NEW q \in DoneQueues, NEW p \in 1 .. Len(q)
  PROVE  LET r == [q EXCEPT ![p].canceled = TRUE]
         IN  /\ r \in DoneQueues /\ Len(r) = Len(q) /\ \E At : Without(r, q, p, At)
<1> DEFINE r == [q EXCEPT ![p].canceled = TRUE]
           At == [i \in DOMAIN r |-> i]
<1>0. q \in Seq(JobRecords) /\ q[p] \in JobRecords /\ DOMAIN q = 1 .. Len(q)
  BY DEF DoneQueues
<1> DEFINE job == [q[p] EXCEPT !.canceled = TRUE]
<1>3. job \in JobRecords /\ job.canceled
  BY <1>0 DEF JobRecords
<1>2. r = [q EXCEPT ![p] = job]
  BY <1>0
<1> HIDE DEF job
<1>1. /\ r \in Seq(JobRecords) /\ Len(r) = Len(q) /\ DOMAIN r = 1 .. Len(q)
      /\ r[p] = job /\ \A i \in 1 .. Len(q) : i # p => r[i] = q[i]
  <2> HIDE DEF JobRecords, r
  <2> QED
    BY <1>0, <1>2, <1>3
<1>4. \A i \in DOMAIN r : At[i] = i
  OBVIOUS
<1> HIDE DEF r, At
<1>5. Without(r, q, p, At)
  BY <1>0, <1>1, <1>3, <1>4 DEF Without, Active
<1> QED
  BY <1>1, <1>5 DEF r, DoneQueues

\* The job a thread has in its hands.
LEMMA HandFilled ==
  ASSUME NEW h \in Hands, NEW t \in Threads, h[t] = NoJob, NEW job \in NewJobs, NEW k \in Keys
  PROVE  LET g == [h EXCEPT ![t] = job]
         IN  /\ g \in Hands
             /\ JobsIn(g, k) = JobsIn(h, k) \cup (IF job.key = k THEN {job} ELSE {})
             /\ OneIn(h) /\ JobsIn(h, job.key) = {} => OneIn(g)
<1> DEFINE g == [h EXCEPT ![t] = job]
<1>1. /\ g \in Hands /\ DOMAIN g = Threads /\ DOMAIN h = Threads /\ g[t] = job
      /\ \A u \in Threads : u # t => g[u] = h[u]
  BY DEF Hands
<1>2. ~job.canceled /\ \A l \in Keys : ~Active(h, t, l)
  BY VmAssumption DEF Active, NoJob, Job, NewJobs
<1> HIDE DEF g
<1>3. ASSUME NEW x PROVE x \in JobsIn(g, k) <=> x \in JobsIn(h, k) \/ (x = job /\ job.key = k)
  BY <1>1, <1>2, InList DEF Active
<1>4. ASSUME OneIn(h), JobsIn(h, job.key) = {} PROVE OneIn(g)
  <2> SUFFICES ASSUME NEW l \in Keys, NEW i \in Threads, NEW j \in Threads,
                      Active(g, i, l), Active(g, j, l)
               PROVE  i = j
    BY <1>1 DEF OneIn
  <2>1. i # t => Active(h, i, l) /\ h[i] \in JobsIn(h, l)
    BY <1>1, InList DEF Active
  <2>2. j # t => Active(h, j, l) /\ h[j] \in JobsIn(h, l)
    BY <1>1, InList DEF Active
  <2>3. i = t \/ j = t => job.key = l
    BY <1>1 DEF Active
  <2>4. i # t /\ j # t => i = j
    BY <1>1, <1>4, <2>1, <2>2 DEF OneIn
  <2> QED
    BY <1>4, <2>1, <2>2, <2>3, <2>4
<1> QED
  BY <1>1, <1>3, <1>4 DEF g

LEMMA HandEmptied ==
  ASSUME NEW h \in Hands, NEW t \in Threads
  PROVE  LET g == [h EXCEPT ![t] = NoJob] IN g \in Hands /\ \E At : Without(g, h, t, At)
<1> DEFINE g == [h EXCEPT ![t] = NoJob]
           At == [u \in Threads |-> u]
<1>1. /\ g \in Hands /\ DOMAIN g = Threads /\ DOMAIN h = Threads /\ g[t] = NoJob
      /\ \A u \in Threads : u # t => g[u] = h[u]
  BY DEF Hands
<1>2. \A l \in Keys : ~Active(g, t, l)
  BY <1>1, VmAssumption DEF Active, NoJob, Job
<1>3. \A u \in Threads : At[u] = u
  OBVIOUS
<1> HIDE DEF g, At
<1>4. Without(g, h, t, At)
  BY <1>1, <1>2, <1>3 DEF Without, Active
<1> QED
  BY <1>1, <1>4 DEF g

-----------------------------------------------------------------------------
(* The inductive invariant: what the main thread, the threads and the      *)
(* bitmap hold of each key in the state s.  exact says that no write was   *)
(* unable to seek.                                                         *)

\* The value v is on the pages from page on.
OnPages(s, page, v) == \A p \in Run(page, Size[v]) : p \in Pages /\ s.file[p] = v

\* The value of k is where its key object says, unless it is lost.
Stored(s, k) ==
  LET key == s.key[k]
  IN  /\ key.storage = "absent" => key = Absent /\ s.data[k] = None
      /\ key.storage # "absent" => s.data[k] \in Values \cup {Lost}
      /\ key.storage \in {"MEMORY", "SWAPPING"} =>
           key.val \in Values /\ (s.data[k] # Lost => key.val = s.data[k])
      /\ key.storage \in {"SWAPPED", "LOADING"} /\ s.data[k] # Lost =>
           /\ key.val = None /\ key.pages = Size[s.data[k]]
           /\ OnPages(s, key.page, s.data[k])
      /\ k \in s.risked => key.storage = "SWAPPING"

\* A job is of the kind that its key waits for, and has its value but when an
\* overwrite put the key at risk.
JobFits(s, k, job) ==
  /\ job.type = "LOAD" => s.key[k].storage = "LOADING" /\ job.page = s.key[k].page
  /\ job.type # "LOAD" => /\ s.key[k].storage = "SWAPPING" /\ job.val \in Values
                          /\ k \notin s.risked => job.val = s.key[k].val
  /\ job.type = "DO_SWAP" => /\ job.pages = Size[job.val]
                             /\ Run(job.page, job.pages) \subseteq Pages

\* A processed job brings what it was for; a DO_SWAP whose key is at risk does not.
JobDone(s, k, job) ==
  /\ job.type = "LOAD" => job.val \in Values /\ (s.data[k] # Lost => job.val = s.data[k])
  /\ job.type = "PREPARE_SWAP" => job.pages = Size[job.val]
  /\ job.type = "DO_SWAP" /\ k \notin s.risked => OnPages(s, job.page, job.val)

OnePlace(s, k) ==
  /\ JobsIn(s.newjobs, k) = {} \/ JobsIn(s.processed, k) = {}
  /\ JobsIn(s.newjobs, k) = {} \/ JobsIn(s.job, k) = {}
  /\ JobsIn(s.processed, k) = {} \/ JobsIn(s.job, k) = {}

KeyInv(s, k) ==
  /\ Stored(s, k)
  /\ \A job \in ActiveJobs(s, k) : JobFits(s, k, job)
  /\ \A job \in JobsIn(s.processed, k) : JobDone(s, k, job)
  /\ OnePlace(s, k)

\* The threads: a job in the hands of those that work, a byte in the pipe for
\* every processed job that is not about to be signaled.
Signaling(s) == {t \in Threads : s.thread[t] = "signal"}

Queues(s) ==
  /\ OneIn(s.newjobs) /\ OneIn(s.processed) /\ OneIn(s.job)
  /\ \A t \in Threads : s.thread[t] = "work" <=> s.job[t] # NoJob
  /\ Len(s.processed) = s.pipe + Cardinality(Signaling(s))

PagesApart(s) == \A k1, k2 \in Keys : k1 # k2 => PagesOf(s, k1) \cap PagesOf(s, k2) = {}
PagesUsed(s) == \A k \in Keys : PagesOf(s, k) \subseteq s.used

HasJob(s, k) == s.key[k].storage \in {"SWAPPING", "LOADING"} => ActiveJobs(s, k) # {}

\* The process is gone only over a value that is lost.
GoneOver(s) == s.panic => \E k \in Keys : s.data[k] = Lost

Exact(s) ==
  /\ GoneOver(s)
  /\ \A k \in Keys : HasJob(s, k)
  /\ s.used \subseteq UNION {PagesOf(s, k) : k \in Keys}

VmInv(s, exact) ==
  /\ s \in States /\ Queues(s)
  /\ \A k \in Keys : KeyInv(s, k)
  /\ PagesApart(s) /\ PagesUsed(s)
  /\ exact => Exact(s)

\* At most one active job about a key.
LEMMA OneJob ==
  ASSUME NEW s, NEW k \in Keys, Queues(s), OnePlace(s, k),
         NEW i \in ActiveJobs(s, k), NEW j \in ActiveJobs(s, k)
  PROVE  i = j
<1>1. ASSUME NEW list, OneIn(list), i \in JobsIn(list, k), j \in JobsIn(list, k) PROVE i = j
  <2>1. PICK a \in DOMAIN list : Active(list, a, k) /\ i = list[a]
    BY <1>1, InList
  <2>2. PICK b \in DOMAIN list : Active(list, b, k) /\ j = list[b]
    BY <1>1, InList
  <2> QED
    BY <1>1, <2>1, <2>2 DEF OneIn
<1> QED
  BY <1>1 DEF ActiveJobs, OnePlace, Queues

LEMMA ActiveJobTyped ==
  ASSUME NEW s \in States, NEW k \in Keys, NEW job \in ActiveJobs(s, k)
  PROVE  job \in JobRecords /\ job.key = k /\ ~job.canceled
<1>1. s.newjobs \in Seq(NewJobs) /\ s.processed \in Seq(JobRecords) /\ s.job \in Hands
  BY DEF States, NewQueues, DoneQueues
<1>2. ASSUME NEW i \in DOMAIN s.newjobs PROVE s.newjobs[i] \in JobRecords
  BY <1>1 DEF NewJobs
<1>3. ASSUME NEW i \in DOMAIN s.processed PROVE s.processed[i] \in JobRecords
  BY <1>1
<1>4. ASSUME NEW t \in DOMAIN s.job, s.job[t].key = k PROVE s.job[t] \in JobRecords
  BY <1>1, <1>4, VmAssumption DEF Hands, NewJobs, NoJob, Job
<1> QED
  BY <1>2, <1>3, <1>4, InList DEF ActiveJobs, Active

\* The pages of a key, by its storage and its job.
LEMMA PagesOfKey ==
  ASSUME NEW s, NEW exact, VmInv(s, exact), NEW k \in Keys
  PROVE  /\ s.key[k].storage \in {"absent", "MEMORY", "SWAPPED"} => ActiveJobs(s, k) = {}
         /\ s.key[k].storage \in {"absent", "MEMORY"} => PagesOf(s, k) = {}
         /\ s.key[k].storage \in {"SWAPPED", "LOADING"} =>
              PagesOf(s, k) = Run(s.key[k].page, s.key[k].pages)
         /\ s.key[k].storage = "SWAPPING" /\ ActiveJobs(s, k) = {} => PagesOf(s, k) = {}
         /\ \A job \in ActiveJobs(s, k) :
              /\ job.type = "DO_SWAP" => PagesOf(s, k) = Run(job.page, job.pages)
              /\ job.type = "PREPARE_SWAP" => PagesOf(s, k) = {}
<1>1. KeyInv(s, k) /\ Queues(s)
  BY DEF VmInv
<1>2. \A job \in ActiveJobs(s, k) : JobFits(s, k, job)
  BY <1>1 DEF KeyInv
<1> DEFINE swaps == {j \in ActiveJobs(s, k) : j.type = "DO_SWAP"}
<1>3. PagesOf(s, k) = (IF s.key[k].storage \in {"SWAPPED", "LOADING"}
                         THEN Run(s.key[k].page, s.key[k].pages) ELSE {})
                      \cup UNION {Run(job.page, job.pages) : job \in swaps}
  BY DEF PagesOf
<1>4. s.key[k].storage # "SWAPPING" => swaps = {}
  BY <1>2 DEF JobFits
<1>5. ASSUME NEW job \in ActiveJobs(s, k)
      PROVE  swaps = IF job.type = "DO_SWAP" THEN {job} ELSE {}
  BY <1>1, OneJob DEF KeyInv
<1>6. s.key[k].storage \in {"absent", "MEMORY", "SWAPPED"} => ActiveJobs(s, k) = {}
  BY <1>2 DEF JobFits
<1>7. ASSUME NEW job \in ActiveJobs(s, k), job.type # "LOAD"
      PROVE  s.key[k].storage = "SWAPPING"
  BY <1>2, <1>7 DEF JobFits
<1> HIDE DEF swaps
<1>8. ASSUME swaps = {}
      PROVE  PagesOf(s, k) = IF s.key[k].storage \in {"SWAPPED", "LOADING"}
                               THEN Run(s.key[k].page, s.key[k].pages) ELSE {}
  BY <1>3, <1>8
<1>9. ASSUME NEW job \in ActiveJobs(s, k), job.type = "DO_SWAP"
      PROVE  PagesOf(s, k) = Run(job.page, job.pages)
  BY <1>3, <1>5, <1>7, <1>9
<1>10. ASSUME NEW job \in ActiveJobs(s, k), job.type = "PREPARE_SWAP" PROVE PagesOf(s, k) = {}
  BY <1>5, <1>7, <1>8, <1>10
<1>11. s.key[k].storage = "SWAPPING" /\ ActiveJobs(s, k) = {} => PagesOf(s, k) = {}
  BY <1>8 DEF swaps
<1> QED
  BY <1>4, <1>6, <1>8, <1>9, <1>10, <1>11

-----------------------------------------------------------------------------
(* A step that is about one key.                                           *)

\* Nothing is different for the key k in t.
Same(s, t, k) ==
  /\ t.key[k] = s.key[k] /\ t.data[k] = s.data[k] /\ (k \in t.risked <=> k \in s.risked)
  /\ JobsIn(t.newjobs, k) = JobsIn(s.newjobs, k)
  /\ JobsIn(t.processed, k) = JobsIn(s.processed, k)
  /\ JobsIn(t.job, k) = JobsIn(s.job, k)

\* Nor is anything different on its pages.
SamePages(s, t, k) == \A p \in PagesOf(s, k) : t.file[p] = s.file[p]

LEMMA SameKey ==
  ASSUME NEW exact, NEW s, VmInv(s, exact), NEW t, NEW k \in Keys,
         Same(s, t, k), SamePages(s, t, k)
  PROVE  /\ KeyInv(t, k)
         /\ PagesOf(t, k) = PagesOf(s, k)
         /\ HasJob(s, k) => HasJob(t, k)
<1>1. ActiveJobs(t, k) = ActiveJobs(s, k)
  BY DEF ActiveJobs, Same
<1>2. PagesOf(t, k) = PagesOf(s, k) /\ (HasJob(s, k) => HasJob(t, k))
  BY <1>1 DEF PagesOf, Same, HasJob
<1>3. KeyInv(s, k) /\ Stored(s, k) /\ OnePlace(s, k)
  BY DEF VmInv, KeyInv
<1>4. Stored(t, k)
  <2>1. t.key[k] = s.key[k] /\ t.data[k] = s.data[k] /\ (k \in t.risked <=> k \in s.risked)
    BY DEF Same
  <2>2. CASE s.key[k].storage \in {"SWAPPED", "LOADING"} /\ s.data[k] # Lost
    <3>1. /\ s.key[k].val = None /\ s.key[k].pages = Size[s.data[k]]
          /\ OnPages(s, s.key[k].page, s.data[k])
      BY <1>3, <2>2 DEF Stored
    <3>2. Run(s.key[k].page, Size[s.data[k]]) = PagesOf(s, k)
      BY <2>2, <3>1, PagesOfKey
    <3>3. OnPages(t, s.key[k].page, s.data[k])
      BY <3>1, <3>2 DEF OnPages, SamePages
    <3> QED
      BY <1>3, <2>1, <2>2, <3>1, <3>3 DEF Stored
  <2>3. CASE s.key[k].storage \notin {"SWAPPED", "LOADING"} \/ s.data[k] = Lost
    BY <1>3, <2>1, <2>3 DEF Stored
  <2> QED
    BY <2>2, <2>3
<1>5. \A job : JobFits(s, k, job) => JobFits(t, k, job)
  BY DEF JobFits, Same
<1>6. ASSUME NEW job \in JobsIn(s.processed, k) PROVE JobDone(t, k, job)
  <2>1. job \in ActiveJobs(s, k) /\ JobFits(s, k, job) /\ JobDone(s, k, job)
    BY <1>3 DEF ActiveJobs, KeyInv
  <2>2. CASE job.type = "DO_SWAP"
    <3>1. PagesOf(s, k) = Run(job.page, job.pages) /\ job.pages = Size[job.val]
      BY <2>1, <2>2, PagesOfKey DEF JobFits
    <3>2. k \notin t.risked => OnPages(t, job.page, job.val)
      BY <2>1, <2>2, <3>1 DEF JobDone, OnPages, SamePages, Same
    <3> QED
      BY <2>2, <3>2 DEF JobDone
  <2>3. CASE job.type # "DO_SWAP"
    BY <2>1, <2>3 DEF JobDone, Same
  <2> QED
    BY <2>2, <2>3
<1>7. OnePlace(t, k)
  BY <1>3 DEF OnePlace, Same
<1>8. JobsIn(t.processed, k) = JobsIn(s.processed, k)
  BY DEF Same
<1> QED
  BY <1>1, <1>2, <1>3, <1>4, <1>5, <1>6, <1>7, <1>8, Zenon DEF KeyInv

\* Only k is different, and its pages.
LEMMA OneKeyOnFile ==
  ASSUME NEW s, NEW t, NEW exact, VmInv(s, exact), NEW k \in Keys,
         t \in States, Queues(t),
         \A p \in Pages \ PagesOf(s, k) : t.file[p] = s.file[p],
         \A l \in Keys : l # k => Same(s, t, l),
         KeyInv(t, k),
         PagesOf(t, k) \subseteq t.used,
         PagesOf(t, k) \cap (s.used \ PagesOf(s, k)) = {},
         s.used \ PagesOf(s, k) \subseteq t.used,
         exact => /\ GoneOver(t) /\ HasJob(t, k)
                  /\ t.used \subseteq (s.used \ PagesOf(s, k)) \cup PagesOf(t, k)
  PROVE  VmInv(t, exact)
<1>1. ASSUME NEW l \in Keys, l # k
      PROVE  /\ KeyInv(t, l) /\ PagesOf(t, l) = PagesOf(s, l)
             /\ HasJob(s, l) => HasJob(t, l)
             /\ PagesOf(s, l) \subseteq s.used \ PagesOf(s, k)
  <2>1. Same(s, t, l) /\ s.used \subseteq Pages
    BY <1>1 DEF VmInv, States, PageSets
  <2>2. PagesOf(s, l) \subseteq s.used \ PagesOf(s, k)
    BY <1>1 DEF VmInv, PagesApart, PagesUsed
  <2>3. SamePages(s, t, l)
    BY <2>1, <2>2 DEF SamePages
  <2> QED
    BY <2>1, <2>2, <2>3, SameKey
<1>2. \A l \in Keys : KeyInv(t, l)
  BY <1>1
<1>3. PagesUsed(t)
  <2> SUFFICES ASSUME NEW l \in Keys PROVE PagesOf(t, l) \subseteq t.used
    BY DEF PagesUsed
  <2> QED
    BY <1>1
<1>4. PagesApart(t)
  <2> SUFFICES ASSUME NEW k1 \in Keys, NEW k2 \in Keys, k1 # k2
               PROVE  PagesOf(t, k1) \cap PagesOf(t, k2) = {}
    BY DEF PagesApart
  <2>1. PagesOf(s, k1) \cap PagesOf(s, k2) = {}
    BY DEF VmInv, PagesApart
  <2> QED
    BY <1>1, <2>1
<1>5. ASSUME exact PROVE Exact(t)
  <2>1. Exact(s)
    BY <1>5 DEF VmInv
  <2>2. \A l \in Keys : HasJob(t, l)
    BY <1>1, <1>5, <2>1 DEF Exact
  <2>3. ASSUME NEW p \in t.used PROVE \E l \in Keys : p \in PagesOf(t, l)
    <3>1. CASE p \in PagesOf(t, k)
      BY <3>1
    <3>2. CASE p \in s.used \ PagesOf(s, k)
      <4>1. PICK l \in Keys : p \in PagesOf(s, l)
        BY <2>1, <3>2 DEF Exact
      <4> QED
        BY <1>1, <3>2, <4>1
    <3> QED
      BY <1>5, <3>1, <3>2
  <2> QED
    BY <1>5, <2>2, <2>3 DEF Exact
<1> QED
  BY <1>2, <1>3, <1>4, <1>5 DEF VmInv

LEMMA OneKey ==
  ASSUME NEW s, NEW t, NEW exact, VmInv(s, exact), NEW k \in Keys,
         t \in States, Queues(t), t.file = s.file,
         \A l \in Keys : l # k => Same(s, t, l),
         KeyInv(t, k),
         PagesOf(t, k) \subseteq t.used,
         PagesOf(t, k) \cap (s.used \ PagesOf(s, k)) = {},
         s.used \ PagesOf(s, k) \subseteq t.used,
         exact => /\ GoneOver(t) /\ HasJob(t, k)
                  /\ t.used \subseteq (s.used \ PagesOf(s, k)) \cup PagesOf(t, k)
  PROVE  VmInv(t, exact)
<1>1. \A p \in Pages \ PagesOf(s, k) : t.file[p] = s.file[p]
  OBVIOUS
<1> QED
  BY <1>1, OneKeyOnFile

\* No key is different.
LEMMA NoKey ==
  ASSUME NEW s, NEW t, NEW exact, VmInv(s, exact), t \in States, Queues(t),
         t.file = s.file, t.used = s.used,
         exact /\ t.panic => s.panic \/ \E k \in Keys : s.data[k] = Lost,
         \A k \in Keys : Same(s, t, k)
  PROVE  VmInv(t, exact)
<1>1. \A k \in Keys : SamePages(s, t, k)
  BY DEF SamePages
<1>2. \A k \in Keys : /\ KeyInv(t, k)
                      /\ PagesOf(t, k) = PagesOf(s, k)
                      /\ HasJob(s, k) => HasJob(t, k)
  BY <1>1, SameKey
<1>3. PagesApart(t) /\ PagesUsed(t)
  BY <1>2 DEF VmInv, PagesApart, PagesUsed
<1>4. exact => GoneOver(t)
  BY DEF VmInv, Exact, GoneOver, Same
<1>5. exact => Exact(t)
  BY <1>2, <1>4 DEF VmInv, Exact
<1> QED
  BY <1>2, <1>3, <1>5 DEF VmInv

-----------------------------------------------------------------------------
(* Queueing and canceling a job.                                           *)

NoWrites(list) == \A i \in DOMAIN list : list[i].type # "DO_SWAP"

\* What the main thread's handlers leave to the threads: the swap file, what
\* they have in hand, and that nothing more is to be written.
Calm(s, t) ==
  t.file = s.file /\ t.job = s.job /\ (NoWrites(s.newjobs) => NoWrites(t.newjobs))

SameClients(s, t) ==
  t.io_keys = s.io_keys /\ t.wants = s.wants /\ t.cmd = s.cmd /\ t.ready = s.ready

LEMMA ZeroPage == VmPages \in Nat /\ 0 \in Pages /\ 0 \in 0 .. VmPages
<1>1. VmPages \in Nat \ {0}
  BY VmAssumption
<1> QED
  BY <1>1 DEF Pages

LEMMA KeyChanged ==
  ASSUME NEW table \in KeyTables, NEW k \in Keys, NEW key \in KeyObjects
  PROVE  LET changed == [table EXCEPT ![k] = key]
         IN  /\ changed \in KeyTables /\ changed[k] = key
             /\ \A l \in Keys : l # k => changed[l] = table[l]
  BY DEF KeyTables

LEMMA LeastIsThere ==
  ASSUME NEW T, T \subseteq Nat, T # {}
  PROVE  Min(T) \in T
<1>1. \E m \in T : \A n \in T : m <= n
  BY LeastElement
<1> QED
  BY <1>1 DEF Min

\* The job is queued, and there may be a thread more.
IsQueued(s, t, job) ==
  /\ t \in States /\ Queues(t)
  /\ t = [s EXCEPT !.newjobs = t.newjobs, !.thread = t.thread]
  /\ JobsIn(t.newjobs, job.key) = JobsIn(s.newjobs, job.key) \cup {job}
  /\ \A k : k # job.key => JobsIn(t.newjobs, k) = JobsIn(s.newjobs, k)
  /\ job.type # "DO_SWAP" /\ NoWrites(s.newjobs) => NoWrites(t.newjobs)

LEMMA Queued ==
  ASSUME NEW s \in States, Queues(s), NEW job \in NewJobs, JobsIn(s.newjobs, job.key) = {},
         NEW t, t = QueueIOJob(s, job)
  PROVE  IsQueued(s, t, job)
<1> DEFINE off == {u \in Threads : s.thread[u] = "off"}
           queued == [s EXCEPT !.newjobs = Append(@, job)]
<1>1. s.newjobs \in NewQueues /\ s.thread \in ThreadStates /\ ~job.canceled
  BY DEF States, NewJobs
<1> DEFINE q == Append(s.newjobs, job)
<1>2. /\ q \in NewQueues
      /\ \A k : JobsIn(q, k) = JobsIn(s.newjobs, k) \cup (IF job.key = k THEN {job} ELSE {})
      /\ OneIn(s.newjobs) => OneIn(q)
  <2>1. s.newjobs \in Seq(NewJobs)
    BY <1>1 DEF NewQueues
  <2>2. q \in Seq(NewJobs)
    BY <2>1
  <2> HIDE DEF q
  <2> QED
    BY <1>1, <2>1, <2>2, JobAppended DEF q, NewQueues
<1>3. job.type # "DO_SWAP" /\ NoWrites(s.newjobs) => NoWrites(q)
  <2>1. s.newjobs \in Seq(NewJobs)
    BY <1>1 DEF NewQueues
  <2>2. /\ DOMAIN q = 1 .. Len(s.newjobs) + 1 /\ DOMAIN s.newjobs = 1 .. Len(s.newjobs)
        /\ q[Len(s.newjobs) + 1] = job /\ \A i \in DOMAIN s.newjobs : q[i] = s.newjobs[i]
        /\ Len(s.newjobs) \in Nat
    BY <2>1
  <2>3. \A i \in DOMAIN q : i = Len(s.newjobs) + 1 \/ i \in DOMAIN s.newjobs
    BY <2>2
  <2> HIDE DEF q
  <2> QED
    BY <2>2, <2>3 DEF NoWrites
<1> HIDE DEF q
<1>4. queued = [s EXCEPT !.newjobs = q] /\ queued \in States
  BY <1>2 DEF States, q
<1>5. \E th \in ThreadStates :
        /\ t = [s EXCEPT !.newjobs = q, !.thread = th]
        /\ \A u \in Threads : (th[u] = "work" <=> s.thread[u] = "work")
                              /\ (th[u] = "signal" <=> s.thread[u] = "signal")
  <2>1. CASE off = {}
    <3>1. t = queued
      BY <2>1 DEF QueueIOJob
    <3>2. t = [s EXCEPT !.newjobs = q, !.thread = s.thread]
      BY <1>4, <3>1 DEF States
    <3> QED
      BY <1>1, <3>2
  <2>2. CASE off # {}
    <3>1. Min(off) \in off
      BY <2>2, LeastIsThere, VmAssumption DEF Threads
    <3> DEFINE m == Min({u \in Threads : queued.thread[u] = "off"})
               th == [s.thread EXCEPT ![m] = "take"]
    <3>2. queued.thread = s.thread
      BY <1>4 DEF States
    <3>3. m \in Threads /\ s.thread[m] = "off"
      BY <3>1, <3>2
    <3>4. t = [queued EXCEPT !.thread[m] = "take"]
      BY <2>2 DEF QueueIOJob, SpawnIOThread
    <3> HIDE DEF m, queued
    <3>5. th \in ThreadStates /\ \A u \in Threads : th[u] = IF u = m THEN "take" ELSE s.thread[u]
      BY <1>1, <3>3 DEF ThreadStates
    <3>6. t = [s EXCEPT !.newjobs = q, !.thread = th]
      BY <1>4, <3>2, <3>4 DEF States
    <3> HIDE DEF th
    <3> QED
      BY <3>3, <3>5, <3>6, ZenonT(40)
  <2> QED
    BY <2>1, <2>2
<1>6. PICK th \in ThreadStates :
        /\ t = [s EXCEPT !.newjobs = q, !.thread = th]
        /\ \A u \in Threads : (th[u] = "work" <=> s.thread[u] = "work")
                              /\ (th[u] = "signal" <=> s.thread[u] = "signal")
  BY <1>5
<1>7. /\ t \in States /\ t.newjobs = q /\ t.thread = th
      /\ t.job = s.job /\ t.processed = s.processed /\ t.pipe = s.pipe
      /\ t = [s EXCEPT !.newjobs = t.newjobs, !.thread = t.thread]
  BY <1>2, <1>6 DEF States
<1>8. Signaling(t) = Signaling(s)
  BY <1>6, <1>7 DEF Signaling
<1>9. Queues(t)
  BY <1>2, <1>6, <1>7, <1>8 DEF Queues
<1> QED
  <2>1. JobsIn(q, job.key) = JobsIn(s.newjobs, job.key) \cup {job}
    BY <1>2
  <2>2. \A k : k # job.key => JobsIn(q, k) = JobsIn(s.newjobs, k)
    BY <1>2
  <2> QED
    BY <1>3, <1>7, <1>9, <2>1, <2>2 DEF IsQueued

LEMMA QueuedOnly ==
  ASSUME NEW s \in States, NEW t, NEW job, IsQueued(s, t, job)
  PROVE  /\ t.key = s.key /\ t.used = s.used /\ t.file = s.file /\ t.processed = s.processed
         /\ t.job = s.job /\ t.panic = s.panic /\ t.data = s.data /\ t.risked = s.risked /\ SameClients(s, t)
<1>1. t = [s EXCEPT !.newjobs = t.newjobs, !.thread = t.thread]
  BY DEF IsQueued
<1> QED
  BY <1>1 DEF States, SameClients

\* The key of a job that is dropped is back to where it was before.
Undone(key) == [key EXCEPT !.storage = IF @ = "LOADING" THEN "SWAPPED" ELSE "MEMORY"]

LEMMA JobDropped ==
  ASSUME NEW s, NEW t, NEW exact, VmInv(s, exact), NEW k \in Keys,
         NEW job \in ActiveJobs(s, k),
         t \in States, Queues(t), t.file = s.file,
         \A l \in Keys : l # k => Same(s, t, l),
         ActiveJobs(t, k) = {},
         t.key[k] = Undone(s.key[k]), t.data = s.data, t.risked = s.risked \ {k},
         t.panic = s.panic,
         t.used = s.used \ (IF job.type = "DO_SWAP" THEN Run(job.page, job.pages) ELSE {})
  PROVE  VmInv(t, exact)
<1>1. s \in States /\ KeyInv(s, k) /\ s.key[k] \in KeyObjects
  BY DEF VmInv, States, KeyTables
<1>2. JobFits(s, k, job) /\ Stored(s, k)
  BY <1>1 DEF KeyInv
<1>3. /\ s.key[k].storage \in {"SWAPPING", "LOADING"}
      /\ job.type = "DO_SWAP" => s.key[k].storage = "SWAPPING"
      /\ job.type # "LOAD" <=> s.key[k].storage = "SWAPPING"
  BY <1>2 DEF JobFits
<1>4. /\ t.key[k].storage = IF s.key[k].storage = "LOADING" THEN "SWAPPED" ELSE "MEMORY"
      /\ t.key[k].val = s.key[k].val /\ t.key[k].page = s.key[k].page
      /\ t.key[k].pages = s.key[k].pages
  BY <1>1 DEF Undone, KeyObjects
<1>5. job.type \in JobTypes
  BY <1>1, ActiveJobTyped DEF JobRecords
<1>6. PagesOf(s, k) = IF job.type = "LOAD" THEN Run(s.key[k].page, s.key[k].pages)
                      ELSE IF job.type = "DO_SWAP" THEN Run(job.page, job.pages) ELSE {}
  BY <1>3, <1>5, PagesOfKey DEF JobTypes
<1>7. PagesOf(t, k) = IF job.type = "LOAD" THEN Run(s.key[k].page, s.key[k].pages) ELSE {}
  <2>1. {j \in ActiveJobs(t, k) : j.type = "DO_SWAP"} = {}
    OBVIOUS
  <2> QED
    BY <1>3, <1>4, <2>1 DEF PagesOf
<1>8. KeyInv(t, k)
  <2>1. Stored(t, k)
    BY <1>2, <1>3, <1>4 DEF Stored, OnPages
  <2>2. /\ JobsIn(t.newjobs, k) = {} /\ JobsIn(t.processed, k) = {} /\ JobsIn(t.job, k) = {}
    BY DEF ActiveJobs
  <2> QED
    BY <2>1, <2>2 DEF KeyInv, OnePlace
<1>9. HasJob(t, k)
  BY <1>3, <1>4 DEF HasJob
<1>10. PagesOf(s, k) \subseteq s.used /\ (exact => GoneOver(t))
  BY DEF VmInv, PagesUsed, Exact, GoneOver
<1> QED
  BY <1>6, <1>7, <1>8, <1>9, <1>10, OneKey

\* No job about k is left.
Cancelled(s, t, k, exact) ==
  /\ VmInv(t, exact) /\ Calm(s, t) /\ SameClients(s, t)
  /\ ActiveJobs(t, k) = {} /\ t.data = s.data /\ t.risked \subseteq s.risked
  /\ exact => t.panic = s.panic
  /\ \/ t.key[k] = Undone(s.key[k]) /\ k \notin t.risked
     \/ t.panic /\ t.key[k] = s.key[k]

LEMMA JobCancelled ==
  ASSUME NEW s, NEW exact, VmInv(s, exact), NEW k \in Keys, JobsIn(s.job, k) = {},
         s.key[k].storage \in {"SWAPPING", "LOADING"},
         NEW t, t = CancelThreadedIOJob(s, k)
  PROVE  Cancelled(s, t, k, exact)
<1> DEFINE new == {i \in DOMAIN s.newjobs : ~s.newjobs[i].canceled /\ s.newjobs[i].key = k}
           done == {i \in DOMAIN s.processed :
                      ~s.processed[i].canceled /\ s.processed[i].key = k}
           key == Undone(s.key[k])
           table == [s.key EXCEPT ![k] = key]
           Freed(job) == s.used \ (IF job.type = "DO_SWAP" THEN Run(job.page, job.pages) ELSE {})
<1>1. /\ s \in States /\ Queues(s) /\ KeyInv(s, k)
      /\ s.newjobs \in Seq(NewJobs) /\ s.processed \in DoneQueues /\ s.processed \in Seq(JobRecords)
      /\ s.key \in KeyTables /\ s.key[k] \in KeyObjects /\ s.used \in PageSets
  BY DEF VmInv, States, NewQueues, DoneQueues, KeyTables
<1>2. key \in KeyObjects
  BY <1>1 DEF Undone, KeyObjects, Storages
<1>3. /\ table \in KeyTables /\ table[k] = key
      /\ \A l \in Keys : l # k => table[l] = s.key[l]
  BY <1>1, <1>2, KeyChanged
<1>4. \A job : Freed(job) \in PageSets
  BY <1>1 DEF PageSets
<1>5. CASE new # {}
  <2> DEFINE i == Min(new)
             r == RemoveAt(s.newjobs, i)
             job == s.newjobs[i]
  <2>1. i \in new /\ i \in 1 .. Len(s.newjobs) /\ DOMAIN s.newjobs = 1 .. Len(s.newjobs)
    <3>1. new \subseteq Nat /\ DOMAIN s.newjobs = 1 .. Len(s.newjobs)
      BY <1>1
    <3> QED
      BY <1>5, <3>1, LeastIsThere
  <2>2. t = UndoStorage(FreePagesOf([s EXCEPT !.newjobs = r], job), k)
    BY <1>5 DEF CancelThreadedIOJob
  <2>3. Active(s.newjobs, i, k) /\ job \in JobsIn(s.newjobs, k)
    BY <2>1, InList DEF Active
  <2>4. /\ r \in Seq(NewJobs) /\ \E At : Without(r, s.newjobs, i, At)
        /\ \A j \in DOMAIN r : \E m \in DOMAIN s.newjobs : r[j] = s.newjobs[m]
    <3>1. /\ r \in Seq(NewJobs) /\ Len(r) = Len(s.newjobs) - 1
          /\ \A j \in 1 .. Len(s.newjobs) - 1 :
               r[j] = IF j < i THEN s.newjobs[j] ELSE s.newjobs[j + 1]
      BY <1>1, <2>1, RemoveAtFacts
    <3>2. \E At : Without(r, s.newjobs, i, At)
      BY <1>1, <2>1, JobRemoved
    <3> HIDE DEF r, i
    <3>3. DOMAIN r = 1 .. Len(s.newjobs) - 1 /\ Len(s.newjobs) \in Nat /\ i \in Nat
      BY <1>1, <2>1, <3>1
    <3> QED
      BY <2>1, <3>1, <3>2, <3>3, SMTT(30)
  <2> HIDE DEF new, r, i, job
  <2>5. t = [s EXCEPT !.newjobs = r, !.used = Freed(job), !.key = table,
                      !.risked = s.risked \ {k}]
    <3> DEFINE u == FreePagesOf([s EXCEPT !.newjobs = r], job)
    <3>1. /\ u = [s EXCEPT !.newjobs = r, !.used = Freed(job)]
          /\ u.key = s.key /\ u.risked = s.risked
      BY <1>1 DEF FreePagesOf, MarkPagesFree, States
    <3>2. t = [u EXCEPT !.key = [u.key EXCEPT ![k] = Undone(u.key[k])],
                        !.risked = u.risked \ {k}]
      BY <2>2 DEF UndoStorage, Undone
    <3> HIDE DEF u
    <3> QED
      BY <1>1, <3>1, <3>2 DEF States
  <2> HIDE DEF table, key, Freed
  <2>6. /\ t \in States /\ t.newjobs = r /\ t.used = Freed(job) /\ t.key = table
        /\ t.file = s.file /\ t.processed = s.processed /\ t.pipe = s.pipe
        /\ t.thread = s.thread /\ t.job = s.job /\ t.panic = s.panic /\ t.data = s.data
        /\ t.risked = s.risked \ {k} /\ SameClients(s, t)
    <3>1. r \in NewQueues /\ Freed(job) \in PageSets /\ table \in KeyTables
      BY <1>3, <1>4, <2>4 DEF NewQueues
    <3>0. s.risked \ {k} \in KeySets
      BY <1>1 DEF States, KeySets
    <3>2. t \in States
      BY <1>1, <2>5, <3>0, <3>1 DEF States
    <3> QED
      BY <1>1, <2>5, <3>2 DEF States, SameClients
  <2>7. /\ OneIn(r) /\ JobsIn(r, k) = {}
        /\ \A l \in Keys : l # k => JobsIn(r, l) = JobsIn(s.newjobs, l)
    <3>1. OneIn(s.newjobs)
      BY <1>1 DEF Queues
    <3>2. PICK At : Without(r, s.newjobs, i, At)
      BY <2>4
    <3>3. \A l \in Keys : l # k => ~Active(s.newjobs, i, l)
      BY <2>3 DEF Active
    <3> QED
      BY <2>1, <2>3, <3>1, <3>2, <3>3, JobGone
  <2>8. JobsIn(s.processed, k) = {} /\ JobsIn(s.job, k) = {}
    BY <1>1, <2>3 DEF KeyInv, OnePlace
  <2>9. Queues(t)
    BY <1>1, <2>6, <2>7 DEF Queues, Signaling
  <2>10. ActiveJobs(t, k) = {} /\ job \in ActiveJobs(s, k)
    BY <2>3, <2>6, <2>7, <2>8 DEF ActiveJobs
  <2>11. \A l \in Keys : l # k => Same(s, t, l)
    BY <1>3, <2>6, <2>7 DEF Same
  <2>12. t.key[k] = Undone(s.key[k]) /\ k \notin t.risked
    BY <1>3, <2>6 DEF key
  <2>13. VmInv(t, exact)
    BY <2>6, <2>9, <2>10, <2>11, <2>12, JobDropped DEF Freed
  <2>14. Calm(s, t)
    BY <2>4, <2>6 DEF Calm, NoWrites
  <2> QED
    BY <1>1, <2>6, <2>10, <2>12, <2>13, <2>14 DEF Cancelled
<1>6. CASE new = {} /\ done # {}
  <2> DEFINE i == Min(done)
             r == [s.processed EXCEPT ![i].canceled = TRUE]
             job == s.processed[i]
  <2>1. i \in done /\ i \in 1 .. Len(s.processed) /\ DOMAIN s.processed = 1 .. Len(s.processed)
    <3>1. done \subseteq Nat /\ DOMAIN s.processed = 1 .. Len(s.processed)
      BY <1>1
    <3> QED
      BY <1>6, <3>1, LeastIsThere
  <2>2. t = UndoStorage(FreePagesOf([s EXCEPT !.processed = r], job), k)
    BY <1>1, <1>6 DEF CancelThreadedIOJob, States
  <2>3. Active(s.processed, i, k) /\ job \in JobsIn(s.processed, k)
    BY <2>1, InList DEF Active
  <2>4. r \in DoneQueues /\ Len(r) = Len(s.processed) /\ \E At : Without(r, s.processed, i, At)
    BY <1>1, <2>1, JobCanceled
  <2> HIDE DEF done, r, i, job
  <2>5. t = [s EXCEPT !.processed = r, !.used = Freed(job), !.key = table,
                      !.risked = s.risked \ {k}]
    <3> DEFINE u == FreePagesOf([s EXCEPT !.processed = r], job)
    <3>1. /\ u = [s EXCEPT !.processed = r, !.used = Freed(job)]
          /\ u.key = s.key /\ u.risked = s.risked
      BY <1>1 DEF FreePagesOf, MarkPagesFree, States
    <3>2. t = [u EXCEPT !.key = [u.key EXCEPT ![k] = Undone(u.key[k])],
                        !.risked = u.risked \ {k}]
      BY <2>2 DEF UndoStorage, Undone
    <3> HIDE DEF u
    <3> QED
      BY <1>1, <3>1, <3>2 DEF States
  <2> HIDE DEF table, key, Freed
  <2>6. /\ t \in States /\ t.processed = r /\ t.used = Freed(job) /\ t.key = table
        /\ t.file = s.file /\ t.newjobs = s.newjobs /\ t.pipe = s.pipe
        /\ t.thread = s.thread /\ t.job = s.job /\ t.panic = s.panic /\ t.data = s.data
        /\ t.risked = s.risked \ {k} /\ SameClients(s, t)
    <3>1. r \in DoneQueues /\ Freed(job) \in PageSets /\ table \in KeyTables
      BY <1>3, <1>4, <2>4
    <3>0. s.risked \ {k} \in KeySets
      BY <1>1 DEF States, KeySets
    <3>2. t \in States
      BY <1>1, <2>5, <3>0, <3>1 DEF States
    <3> QED
      BY <1>1, <2>5, <3>2 DEF States, SameClients
  <2>7. /\ OneIn(r) /\ JobsIn(r, k) = {}
        /\ \A l \in Keys : l # k => JobsIn(r, l) = JobsIn(s.processed, l)
    <3>1. OneIn(s.processed)
      BY <1>1 DEF Queues
    <3>2. PICK At : Without(r, s.processed, i, At)
      BY <2>4
    <3>3. \A l \in Keys : l # k => ~Active(s.processed, i, l)
      BY <2>3 DEF Active
    <3> QED
      BY <2>1, <2>3, <3>1, <3>2, <3>3, JobGone
  <2>8. JobsIn(s.newjobs, k) = {} /\ JobsIn(s.job, k) = {}
    BY <1>1, <2>3 DEF KeyInv, OnePlace
  <2>9. Queues(t)
    BY <1>1, <2>4, <2>6, <2>7 DEF Queues, Signaling
  <2>10. ActiveJobs(t, k) = {} /\ job \in ActiveJobs(s, k)
    BY <2>3, <2>6, <2>7, <2>8 DEF ActiveJobs
  <2>11. \A l \in Keys : l # k => Same(s, t, l)
    BY <1>3, <2>6, <2>7 DEF Same
  <2>12. t.key[k] = Undone(s.key[k]) /\ k \notin t.risked
    BY <1>3, <2>6 DEF key
  <2>13. VmInv(t, exact)
    BY <2>6, <2>9, <2>10, <2>11, <2>12, JobDropped DEF Freed
  <2>14. Calm(s, t)
    BY <2>6 DEF Calm
  <2> QED
    BY <1>1, <2>6, <2>10, <2>12, <2>13, <2>14 DEF Cancelled
<1>7. CASE new = {} /\ done = {}
  <2>1. t = [s EXCEPT !.panic = TRUE]
    BY <1>7 DEF CancelThreadedIOJob, Gone
  <2>2. ActiveJobs(s, k) = {}
    <3>1. JobsIn(s.newjobs, k) = {} /\ JobsIn(s.processed, k) = {}
      BY <1>7 DEF JobsIn
    <3> QED
      BY <3>1 DEF ActiveJobs
  <2>3. ~exact
    BY <2>2 DEF VmInv, Exact, HasJob
  <2>4. /\ t \in States /\ t.key = s.key /\ t.used = s.used /\ t.panic
        /\ t.file = s.file /\ t.newjobs = s.newjobs /\ t.processed = s.processed
        /\ t.pipe = s.pipe /\ t.thread = s.thread /\ t.job = s.job /\ t.data = s.data /\ t.risked = s.risked
        /\ SameClients(s, t)
    BY <1>1, <2>1 DEF States, SameClients
  <2>5. Queues(t)
    BY <1>1, <2>4 DEF Queues, Signaling
  <2>6. \A l \in Keys : Same(s, t, l)
    BY <2>4 DEF Same
  <2>7. VmInv(t, exact)
    BY <2>3, <2>4, <2>5, <2>6, NoKey
  <2>8. ActiveJobs(t, k) = {}
    BY <2>2, <2>4 DEF ActiveJobs
  <2> QED
    BY <2>3, <2>4, <2>7, <2>8 DEF Cancelled, Calm
<1> QED
  BY <1>5, <1>6, <1>7

-----------------------------------------------------------------------------
(* How often something is in a list.                                       *)

Count(q, x) == Cardinality({i \in DOMAIN q : q[i] = x})

LEMMA CountIsNat ==
  ASSUME NEW S, NEW q \in Seq(S), NEW x
  PROVE  /\ IsFiniteSet({i \in DOMAIN q : q[i] = x}) /\ Count(q, x) \in Nat
         /\ Count(q, x) = 0 <=> \A i \in DOMAIN q : q[i] # x
<1> DEFINE I == {i \in DOMAIN q : q[i] = x}
<1>1. IsFiniteSet(1 .. Len(q)) /\ I \in SUBSET (1 .. Len(q))
  BY FS_Interval
<1>2. IsFiniteSet(I)
  BY <1>1, FS_Subset
<1>3. I = {} <=> \A i \in DOMAIN q : q[i] # x
  OBVIOUS
<1> HIDE DEF I
<1>4. Cardinality(I) \in Nat /\ (Cardinality(I) = 0 <=> I = {})
  BY <1>2, FS_CardinalityType, FS_EmptySet
<1> QED
  BY <1>2, <1>3, <1>4 DEF Count, I

LEMMA CountEmpty ==
  \A x : Count(<<>>, x) = 0
  BY FS_EmptySet DEF Count

LEMMA CountAppend ==
  ASSUME NEW S, NEW q \in Seq(S), NEW y \in S, NEW x
  PROVE  Count(Append(q, y), x) = Count(q, x) + (IF y = x THEN 1 ELSE 0)
<1> DEFINE I == {i \in DOMAIN q : q[i] = x}
           J == {i \in DOMAIN Append(q, y) : Append(q, y)[i] = x}
           n == Len(q)
<1>1. IsFiniteSet(I) /\ Count(q, x) \in Nat
  BY CountIsNat
<1>2. n + 1 \notin I /\ J = IF y = x THEN I \cup {n + 1} ELSE I
  OBVIOUS
<1> HIDE DEF I, J
<1>3. Cardinality(I \cup {n + 1}) = Cardinality(I) + 1
  BY <1>1, <1>2, FS_AddElement
<1>4. Cardinality(J) = Cardinality(I) + (IF y = x THEN 1 ELSE 0) /\ Count(q, x) = Cardinality(I)
  BY <1>1, <1>2, <1>3 DEF Count, I
<1>5. Count(Append(q, y), x) = Cardinality(J)
  BY Zenon DEF Count, J
<1> QED
  BY <1>4, <1>5

\* A list without its place p.
LEMMA CountRemoved ==
  ASSUME NEW S, NEW q \in Seq(S), NEW p \in 1 .. Len(q), NEW r \in Seq(S),
         Len(r) = Len(q) - 1,
         \A i \in 1 .. Len(q) - 1 : r[i] = IF i < p THEN q[i] ELSE q[i + 1],
         NEW x
  PROVE  Count(r, x) = Count(q, x) - (IF q[p] = x THEN 1 ELSE 0)
<1> DEFINE I == {i \in DOMAIN q : q[i] = x}
           J == {i \in DOMAIN r : r[i] = x}
           f == [i \in J |-> IF i < p THEN i ELSE i + 1]
<1>1. DOMAIN q = 1 .. Len(q) /\ DOMAIN r = 1 .. Len(q) - 1 /\ Len(q) \in Nat
  OBVIOUS
<1>2. IsFiniteSet(I) /\ IsFiniteSet(J)
  BY CountIsNat
<1>3. f \in [J -> I \ {p}]
  BY <1>1
<1>4. \A i, j \in J : f[i] = f[j] => i = j
  BY <1>1
<1>5. ASSUME NEW i \in I \ {p} PROVE \E j \in J : f[j] = i
  <2> DEFINE j == IF i < p THEN i ELSE i - 1
  <2>1. j \in 1 .. Len(q) - 1 /\ (IF j < p THEN j ELSE j + 1) = i
    BY <1>1
  <2>2. r[j] = q[i]
    BY <1>1, <2>1
  <2>3. j \in J
    BY <1>1, <2>1, <2>2
  <2>4. f[j] = i
    BY <2>1, <2>3
  <2> QED
    BY <2>3, <2>4
<1>6. p \in I <=> q[p] = x
  BY <1>1
<1> HIDE DEF I, J, f
<1>7. ExistsBijection(J, I \ {p})
  BY <1>3, <1>4, <1>5 DEF ExistsBijection, Bijection, Injection, Surjection, IsInjective
<1>8. Cardinality(I \ {p}) = Cardinality(J)
  BY <1>2, <1>7, FS_Bijection
<1>9. Cardinality(I \ {p}) = IF p \in I THEN Cardinality(I) - 1 ELSE Cardinality(I)
  BY <1>2, FS_RemoveElement
<1>10. Cardinality(I) \in Nat
  BY <1>2, FS_CardinalityType
<1> QED
  BY <1>6, <1>8, <1>9, <1>10 DEF Count, I, J

LEMMA CountTail ==
  ASSUME NEW S, NEW q \in Seq(S), q # <<>>, NEW x
  PROVE  /\ Tail(q) \in Seq(S) /\ Len(Tail(q)) = Len(q) - 1
         /\ Count(Tail(q), x) = Count(q, x) - (IF Head(q) = x THEN 1 ELSE 0)
<1> DEFINE r == Tail(q)
<1>1. /\ r \in Seq(S) /\ Len(r) = Len(q) - 1 /\ 1 \in 1 .. Len(q) /\ q[1] = Head(q)
      /\ \A i \in 1 .. Len(q) - 1 : r[i] = IF i < 1 THEN q[i] ELSE q[i + 1]
  OBVIOUS
<1> HIDE DEF r
<1>2. Count(r, x) = Count(q, x) - (IF q[1] = x THEN 1 ELSE 0)
  BY <1>1, CountRemoved
<1> QED
  BY <1>1, <1>2 DEF r

LEMMA CountRemoveFirst ==
  ASSUME NEW S, NEW q \in Seq(S), NEW y, NEW r, r = RemoveFirst(q, y)
  PROVE  /\ r \in Seq(S)
         /\ Count(q, y) = 0 => r = q
         /\ Count(q, y) # 0 => Len(r) = Len(q) - 1
         /\ \A x : Count(r, x) = Count(q, x) - (IF x = y /\ Count(q, y) # 0 THEN 1 ELSE 0)
<1> DEFINE I == {i \in 1 .. Len(q) : q[i] = y}
<1>1. (\A x : Count(q, x) \in Nat) /\ (Count(q, y) = 0 <=> \A i \in DOMAIN q : q[i] # y)
  BY CountIsNat
<1>2. DOMAIN q = 1 .. Len(q)
  OBVIOUS
<1>3. CASE Count(q, y) = 0
  <2>1. r = q
    BY <1>1, <1>2, <1>3 DEF RemoveFirst
  <2> QED
    BY <1>1, <1>3, <2>1
<1>4. CASE Count(q, y) # 0
  <2>1. I # {} /\ I \subseteq Nat /\ \E i \in 1 .. Len(q) : q[i] = y
    BY <1>1, <1>2, <1>4
  <2>2. SelectInSeq(q, LAMBDA v : v = y) = Min(I)
    BY <2>1 DEF SelectInSeq
  <2>3. Min(I) \in I
    BY <2>1, LeastIsThere
  <2> DEFINE p == Min(I)
  <2>4. p \in 1 .. Len(q) /\ q[p] = y
    BY <2>3
  <2>5. r = RemoveAt(q, p)
    BY <2>1, <2>2 DEF RemoveFirst
  <2> HIDE DEF p
  <2>6. /\ r \in Seq(S) /\ Len(r) = Len(q) - 1
        /\ \A i \in 1 .. Len(q) - 1 : r[i] = IF i < p THEN q[i] ELSE q[i + 1]
    BY <2>4, <2>5, RemoveAtFacts
  <2>7. \A x : Count(r, x) = Count(q, x) - (IF q[p] = x THEN 1 ELSE 0)
    BY <2>4, <2>6, CountRemoved
  <2> QED
    BY <1>4, <2>4, <2>6, <2>7
<1> QED
  BY <1>3, <1>4

-----------------------------------------------------------------------------
(* The clients that wait.                                                  *)

Agree(s) == \A c \in Clients, k \in Keys : Count(s.wants[c], k) = Count(s.io_keys[k], c)

\* A client is ready, once, when it is suspended and waits for no key.
ReadyOnce(s) ==
  \A c \in Clients : Count(s.ready, c) = IF IoWait(s, c) /\ s.wants[c] = <<>> THEN 1 ELSE 0

\* Only suspended clients wait for a key, and those whose command is looked at.
WaitersPaused(s, C) == \A c \in Clients \ C : s.wants[c] # <<>> => IoWait(s, c)

ClientsInv(s) == Agree(s) /\ ReadyOnce(s) /\ WaitersPaused(s, {})

\* The list b begins with the list a.
Keeps(a, b) == Len(a) <= Len(b) /\ \A i \in 1 .. Len(a) : b[i] = a[i]

LEMMA KeepsAppend ==
  ASSUME NEW S, NEW q \in Seq(S), NEW x \in S
  PROVE  Append(q, x) \in Seq(S) /\ Keeps(q, Append(q, x)) /\ Keeps(q, q)
  BY DEF Keeps

LEMMA KeepsTransitive ==
  ASSUME NEW S, NEW a \in Seq(S), NEW b \in Seq(S), NEW c \in Seq(S), Keeps(a, b), Keeps(b, c)
  PROVE  Keeps(a, c)
<1>1. Len(a) \in Nat /\ Len(b) \in Nat /\ Len(c) \in Nat /\ Len(a) <= Len(b) /\ Len(b) <= Len(c)
  BY DEF Keeps
<1> QED
  BY <1>1 DEF Keeps

LEMMA ListsTyped ==
  ASSUME NEW s \in States
  PROVE  /\ \A k \in Keys : s.io_keys[k] \in Seq(Clients)
         /\ \A c \in Clients : s.wants[c] \in Seq(Keys)
         /\ s.ready \in Seq(Clients)
         /\ s.io_keys \in ClientLists /\ s.wants \in KeyLists
  BY DEF States, ClientLists, KeyLists, Ready

\* A list of each key, or of each client, changes.
LEMMA ListChanged ==
  ASSUME NEW D, NEW S, NEW lists \in [D -> S], NEW x \in D, NEW q \in S
  PROVE  LET new == [lists EXCEPT ![x] = q]
         IN  new \in [D -> S] /\ new[x] = q /\ \A y \in D : y # x => new[y] = lists[y]
  OBVIOUS

\* The client c does not wait for k any more, once.
Dropped(s, t, c, k) ==
  /\ t \in States /\ Agree(t)
  /\ t = [s EXCEPT !.wants = t.wants, !.io_keys = t.io_keys]
  /\ \A d \in Clients : d # c => t.wants[d] = s.wants[d]
  /\ Len(t.wants[c]) = Len(s.wants[c]) - 1
  /\ Len(t.io_keys[k]) = Len(s.io_keys[k]) - 1

LEMMA WaitDropped ==
  ASSUME NEW s \in States, Agree(s), NEW c \in Clients, NEW k \in Keys,
         Count(s.wants[c], k) # 0,
         NEW t, t = DontWaitForSwappedKey(s, c, k)
  PROVE  Dropped(s, t, c, k)
<1> DEFINE q == RemoveFirst(s.wants[c], k)
           r == RemoveFirst(s.io_keys[k], c)
           wants == [s.wants EXCEPT ![c] = q]
           io_keys == [s.io_keys EXCEPT ![k] = r]
<1>1. s.wants[c] \in Seq(Keys) /\ s.io_keys[k] \in Seq(Clients)
  BY ListsTyped
<1>2. Count(s.io_keys[k], c) = Count(s.wants[c], k)
  BY DEF Agree
<1>3. /\ q \in Seq(Keys) /\ Len(q) = Len(s.wants[c]) - 1
      /\ \A l : Count(q, l) = Count(s.wants[c], l) - (IF l = k THEN 1 ELSE 0)
  <2>1. q = RemoveFirst(s.wants[c], k)
    OBVIOUS
  <2> HIDE DEF q
  <2>2. q \in Seq(Keys) /\ Len(q) = Len(s.wants[c]) - 1
    BY <1>1, <2>1, CountRemoveFirst
  <2>3. ASSUME NEW l PROVE Count(q, l) = Count(s.wants[c], l) - (IF l = k THEN 1 ELSE 0)
    BY <1>1, <2>1, CountRemoveFirst
  <2> QED
    BY <2>2, <2>3
<1>4. /\ r \in Seq(Clients) /\ Len(r) = Len(s.io_keys[k]) - 1
      /\ \A d : Count(r, d) = Count(s.io_keys[k], d) - (IF d = c THEN 1 ELSE 0)
  <2>1. r = RemoveFirst(s.io_keys[k], c)
    OBVIOUS
  <2> HIDE DEF r
  <2>0. Count(s.io_keys[k], c) # 0
    BY <1>2
  <2>2. r \in Seq(Clients) /\ Len(r) = Len(s.io_keys[k]) - 1
    BY <1>1, <2>0, <2>1, CountRemoveFirst
  <2>3. ASSUME NEW d PROVE Count(r, d) = Count(s.io_keys[k], d) - (IF d = c THEN 1 ELSE 0)
    BY <1>1, <2>0, <2>1, CountRemoveFirst
  <2> QED
    BY <2>2, <2>3
<1> HIDE DEF q, r
<1>5. /\ wants \in KeyLists /\ wants[c] = q
      /\ \A d \in Clients : d # c => wants[d] = s.wants[d]
  BY <1>3, ListsTyped, ListChanged DEF KeyLists
<1>6. /\ io_keys \in ClientLists /\ io_keys[k] = r
      /\ \A l \in Keys : l # k => io_keys[l] = s.io_keys[l]
  BY <1>4, ListsTyped, ListChanged DEF ClientLists
<1>7. t = [s EXCEPT !.wants = wants, !.io_keys = io_keys]
  BY DEF DontWaitForSwappedKey, States, q, r
<1> HIDE DEF wants, io_keys
<1>8. /\ t \in States /\ t.wants = wants /\ t.io_keys = io_keys
      /\ t = [s EXCEPT !.wants = t.wants, !.io_keys = t.io_keys]
  BY <1>5, <1>6, <1>7 DEF States
<1>9. Agree(t)
  <2> SUFFICES ASSUME NEW d \in Clients, NEW l \in Keys
               PROVE  Count(wants[d], l) = Count(io_keys[l], d)
    BY <1>8 DEF Agree
  <2>1. /\ Count(wants[d], l) = Count(s.wants[d], l) - (IF d = c /\ l = k THEN 1 ELSE 0)
        /\ Count(io_keys[l], d) = Count(s.io_keys[l], d) - (IF d = c /\ l = k THEN 1 ELSE 0)
    <3>1. Count(s.wants[d], l) \in Nat /\ Count(s.io_keys[l], d) \in Nat
      BY ListsTyped, CountIsNat
    <3> QED
      BY <1>3, <1>4, <1>5, <1>6, <3>1
  <2>2. Count(s.wants[d], l) = Count(s.io_keys[l], d)
    BY DEF Agree
  <2> QED
    BY <2>1, <2>2
<1> QED
  BY <1>3, <1>4, <1>5, <1>6, <1>8, <1>9 DEF Dropped

\* Clients are told, and those that have all their keys are ready.
Told(s, t) ==
  /\ t \in States /\ ClientsInv(t)
  /\ t = [s EXCEPT !.wants = t.wants, !.io_keys = t.io_keys, !.ready = t.ready]
  /\ Keeps(s.ready, t.ready)

LEMMA ToldTransitive ==
  ASSUME NEW s \in States, NEW t, NEW u, Told(s, t), Told(t, u)
  PROVE  Told(s, u)
<1>1. Keeps(s.ready, u.ready)
  BY ListsTyped, KeepsTransitive DEF Told
<1>2. u = [s EXCEPT !.wants = u.wants, !.io_keys = u.io_keys, !.ready = u.ready]
  BY DEF Told, States
<1> QED
  BY <1>1, <1>2 DEF Told

LEMMA FirstTold ==
  ASSUME NEW s \in States, ClientsInv(s), NEW k \in Keys, s.io_keys[k] # <<>>
  PROVE  LET t == HandleFirstClient(s, k)
         IN  Told(s, t) /\ Len(t.io_keys[k]) = Len(s.io_keys[k]) - 1
<1> DEFINE c == Head(s.io_keys[k])
           u == DontWaitForSwappedKey(s, c, k)
           t == HandleFirstClient(s, k)
<1>1. s.io_keys[k] \in Seq(Clients) /\ s.ready \in Seq(Clients)
  BY ListsTyped
<1>2. c \in Clients /\ 1 \in DOMAIN s.io_keys[k] /\ s.io_keys[k][1] = c
  BY <1>1
<1> HIDE DEF c
<1>3. Count(s.wants[c], k) # 0
  <2>1. Count(s.io_keys[k], c) # 0
    BY <1>1, <1>2, CountIsNat
  <2> QED
    BY <1>2, <2>1 DEF ClientsInv, Agree
<1>4. s.wants[c] # <<>>
  BY <1>3, CountEmpty
<1>5. IoWait(s, c)
  BY <1>2, <1>4 DEF ClientsInv, WaitersPaused
<1>6. /\ u \in States /\ Agree(u)
      /\ u = [s EXCEPT !.wants = u.wants, !.io_keys = u.io_keys]
      /\ \A d \in Clients : d # c => u.wants[d] = s.wants[d]
      /\ Len(u.io_keys[k]) = Len(s.io_keys[k]) - 1
  <2>1. Agree(s)
    BY DEF ClientsInv
  <2>2. u = DontWaitForSwappedKey(s, c, k)
    OBVIOUS
  <2> HIDE DEF u
  <2>3. Dropped(s, u, c, k)
    BY <1>2, <1>3, <2>1, <2>2, WaitDropped
  <2> QED
    BY <2>3 DEF Dropped
<1>7. t = IF u.wants[c] = <<>> THEN [u EXCEPT !.ready = Append(@, c)] ELSE u
  BY DEF HandleFirstClient, c
<1> HIDE DEF t, u
<1>8. u.ready = s.ready /\ u.cmd = s.cmd
  BY <1>6 DEF States
<1> DEFINE q == IF u.wants[c] = <<>> THEN Append(s.ready, c) ELSE s.ready
<1>9. q \in Ready /\ Keeps(s.ready, q)
  BY <1>1, <1>2, KeepsAppend DEF Ready
<1>10. \A d : Count(q, d) = Count(s.ready, d) + (IF u.wants[c] = <<>> /\ c = d THEN 1 ELSE 0)
  <2>1. \A d : Count(s.ready, d) \in Nat
    BY <1>1, CountIsNat
  <2>2. \A d : Count(Append(s.ready, c), d) = Count(s.ready, d) + (IF c = d THEN 1 ELSE 0)
    BY <1>1, <1>2, CountAppend
  <2> QED
    BY <2>1, <2>2
<1> HIDE DEF q
<1>11. t = [u EXCEPT !.ready = q]
  BY <1>6, <1>7, <1>8 DEF q, States
<1>12. /\ t \in States /\ t.wants = u.wants /\ t.io_keys = u.io_keys /\ t.ready = q
       /\ t.cmd = s.cmd
       /\ t = [s EXCEPT !.wants = t.wants, !.io_keys = t.io_keys, !.ready = t.ready]
  BY <1>6, <1>8, <1>9, <1>11 DEF States
<1>13. ClientsInv(t)
  <2>1. Agree(t)
    BY <1>6, <1>12 DEF Agree
  <2>2. \A d \in Clients : IoWait(t, d) <=> IoWait(s, d)
    BY <1>12 DEF IoWait
  <2>3. WaitersPaused(t, {})
    BY <1>5, <1>6, <1>12, <2>2 DEF ClientsInv, WaitersPaused
  <2>4. ReadyOnce(t)
    <3> SUFFICES ASSUME NEW d \in Clients
                 PROVE  Count(q, d) = IF IoWait(t, d) /\ t.wants[d] = <<>> THEN 1 ELSE 0
      BY <1>12 DEF ReadyOnce
    <3>1. Count(s.ready, d) = IF IoWait(s, d) /\ s.wants[d] = <<>> THEN 1 ELSE 0
      BY DEF ClientsInv, ReadyOnce
    <3> QED
      BY <1>4, <1>5, <1>6, <1>10, <1>12, <2>2, <3>1
  <2> QED
    BY <2>1, <2>3, <2>4 DEF ClientsInv
<1> QED
  BY <1>6, <1>9, <1>12, <1>13 DEF t, Told

LEMMA ClientsTold ==
  ASSUME NEW s \in States, ClientsInv(s), NEW k \in Keys
  PROVE  Told(s, HandleClientsBlockedOnSwappedKey(s, k))
<1> DEFINE len == Len(s.io_keys[k])
           Solves(f) == f = [i \in 0 .. len |-> IF i = 0 THEN s
                                                ELSE HandleFirstClient(f[i - 1], k)]
           S == [i \in 0 .. len |-> {t \in States : Told(s, t) /\ Len(t.io_keys[k]) = len - i}]
           F == [x \in States \X (1 .. len) |-> HandleFirstClient(x[1], k)]
           after == CHOOSE f : Solves(f)
<1>1. len \in Nat /\ s.ready \in Seq(Clients)
  BY ListsTyped
<1>2. s \in S[0]
  <2>1. s = [s EXCEPT !.wants = s.wants, !.io_keys = s.io_keys, !.ready = s.ready]
    BY DEF States
  <2>2. Told(s, s)
    BY <1>1, <2>1 DEF Told, Keeps
  <2> QED
    BY <1>1, <2>2
<1>3. ASSUME NEW i \in 1 .. len, NEW t \in S[i - 1]
      PROVE  /\ HandleFirstClient(t, k) \in S[i]
             /\ F[<<t, i>>] = HandleFirstClient(t, k)
  <2>1. /\ i - 1 \in 0 .. len /\ i \in 0 .. len /\ t \in States /\ Told(s, t)
        /\ Len(t.io_keys[k]) = len - (i - 1)
    <3>1. i - 1 \in 0 .. len /\ i \in 0 .. len
      BY <1>1
    <3>2. S[i - 1] = {r \in States : Told(s, r) /\ Len(r.io_keys[k]) = len - (i - 1)}
      BY <3>1
    <3> QED
      BY <3>1, <3>2
  <2>2. t.io_keys[k] # <<>>
    <3>1. Len(t.io_keys[k]) # 0
      BY <1>1, <2>1
    <3> QED
      BY <3>1
  <2> DEFINE u == HandleFirstClient(t, k)
  <2>3. Told(t, u) /\ Len(u.io_keys[k]) = len - i
    <3>1. Told(t, u) /\ Len(u.io_keys[k]) = Len(t.io_keys[k]) - 1
      BY <2>1, <2>2, FirstTold DEF Told
    <3> QED
      BY <1>1, <2>1, <3>1
  <2> HIDE DEF u
  <2>4. Told(s, u)
    BY <2>1, <2>3, ToldTransitive
  <2>5. u \in States
    BY <2>3 DEF Told
  <2>6. u \in S[i]
    BY <2>1, <2>3, <2>4, <2>5
  <2>7. F[<<t, i>>] = HandleFirstClient(t, k)
    BY <2>1
  <2> QED
    BY <2>6, <2>7 DEF u
<1> HIDE DEF S, F
<1>4. \E f : Recursive(f, len, s, F) /\ \A i \in 0 .. len : f[i] \in S[i]
  <2> HIDE DEF len
  <2> QED
    BY <1>1, <1>2, <1>3, RecursionStays
<1>5. \E f : Solves(f)
  <2>1. PICK f : Recursive(f, len, s, F) /\ \A i \in 0 .. len : f[i] \in S[i]
    BY <1>4
  <2>2. f = [i \in 0 .. len |-> IF i = 0 THEN s ELSE F[<<f[i - 1], i>>]]
    BY <2>1 DEF Recursive
  <2>3. \A i \in 0 .. len : i # 0 => F[<<f[i - 1], i>>] = HandleFirstClient(f[i - 1], k)
    <3>1. \A i \in 0 .. len : i # 0 => i \in 1 .. len /\ i - 1 \in 0 .. len
      BY <1>1
    <3> QED
      BY <1>3, <2>1, <3>1
  <2>4. Solves(f)
    BY <2>2, <2>3, Zenon
  <2> QED
    BY <2>4
<1>6. Solves(after)
  <2> HIDE DEF Solves
  <2> QED
    BY <1>5
<1>7. after[len] = HandleClientsBlockedOnSwappedKey(s, k)
  BY DEF HandleClientsBlockedOnSwappedKey
<1> HIDE DEF after
<1>8. /\ after[0] = s
      /\ \A i \in 1 .. len : after[i] = HandleFirstClient(after[i - 1], k)
  <2> HIDE DEF len
  <2> QED
    BY <1>1, <1>6
<1>9. \A i \in 0 .. len : after[i] \in S[i]
  <2>1. \A i \in 1 .. len : after[i - 1] \in S[i - 1] => after[i] \in S[i]
    BY <1>3, <1>8
  <2> HIDE DEF len
  <2> QED
    BY <1>1, <1>2, <1>8, <2>1, StepByStep
<1>10. after[len] \in S[len]
  BY <1>1, <1>9
<1> QED
  BY <1>1, <1>7, <1>10 DEF S

-----------------------------------------------------------------------------
(* What the main thread does with one key.                                 *)

\* What every handler keeps to, whatever happens to its key.
Steps(s, t, exact) ==
  VmInv(t, exact) /\ Calm(s, t) /\ Keeps(s.ready, t.ready) /\ t.cmd = s.cmd

LEMMA StepsTransitive ==
  ASSUME NEW exact, NEW s \in States, NEW t, NEW u, Steps(s, t, exact), Steps(t, u, exact)
  PROVE  Steps(s, u, exact)
<1>1. t \in States /\ u \in States
  BY DEF Steps, VmInv
<1>2. Keeps(s.ready, u.ready)
  BY <1>1, ListsTyped, KeepsTransitive DEF Steps
<1> QED
  BY <1>2 DEF Steps, Calm

LEMMA SameClientsStep ==
  ASSUME NEW exact, NEW s \in States, NEW t, VmInv(t, exact), Calm(s, t), SameClients(s, t)
  PROVE  Steps(s, t, exact) /\ (ClientsInv(s) => ClientsInv(t))
<1>1. Keeps(s.ready, t.ready)
  BY ListsTyped DEF Keeps, SameClients
<1>2. ClientsInv(s) => ClientsInv(t)
  BY DEF ClientsInv, Agree, ReadyOnce, WaitersPaused, IoWait, SameClients
<1> QED
  BY <1>1, <1>2 DEF Steps, SameClients

\* The lists of the clients have no part in the rest.
LEMMA ListsApart ==
  ASSUME NEW exact, NEW s, VmInv(s, exact), NEW t \in States,
         t.key = s.key, t.used = s.used, t.file = s.file, t.newjobs = s.newjobs,
         t.processed = s.processed, t.pipe = s.pipe, t.thread = s.thread, t.job = s.job,
         t.panic = s.panic, t.data = s.data /\ t.risked = s.risked
  PROVE  VmInv(t, exact) /\ Calm(s, t) /\ \A k \in Keys : ActiveJobs(t, k) = ActiveJobs(s, k)
<1>1. \A k \in Keys : Same(s, t, k)
  BY DEF Same
<1>2. Queues(t)
  BY DEF VmInv, Queues, Signaling
<1>3. VmInv(t, exact)
  BY <1>1, <1>2, NoKey
<1> QED
  BY <1>3 DEF Calm, ActiveJobs

LEMMA ToldSteps ==
  ASSUME NEW exact, NEW s, VmInv(s, exact), NEW t, Told(s, t)
  PROVE  /\ Steps(s, t, exact) /\ ClientsInv(t)
         /\ t.key = s.key /\ t.data = s.data /\ t.panic = s.panic
         /\ \A k \in Keys : ActiveJobs(t, k) = ActiveJobs(s, k)
<1>1. s \in States
  BY DEF VmInv
<1>2. /\ t.key = s.key /\ t.used = s.used /\ t.file = s.file /\ t.newjobs = s.newjobs
      /\ t.processed = s.processed /\ t.pipe = s.pipe /\ t.thread = s.thread /\ t.job = s.job
      /\ t.panic = s.panic /\ t.data = s.data /\ t.risked = s.risked /\ t.cmd = s.cmd
  BY <1>1 DEF Told, States
<1>3. t \in States /\ ClientsInv(t) /\ Keeps(s.ready, t.ready)
  BY DEF Told
<1> QED
  BY <1>2, <1>3, ListsApart DEF Steps

\* b, but for a job about k that is done with.
Emptied(b, s, k) ==
  /\ s \in States /\ Queues(s)
  /\ s.key = b.key /\ s.used = b.used /\ s.file = b.file /\ s.data = b.data /\ s.risked = b.risked
  /\ s.panic = b.panic
  /\ \A l \in Keys : l # k => Same(b, s, l)
  /\ ActiveJobs(s, k) = {}

LEMMA NothingToEmpty ==
  ASSUME NEW exact, NEW s, VmInv(s, exact), NEW k, ActiveJobs(s, k) = {}
  PROVE  Emptied(s, s, k)
  BY DEF VmInv, Emptied, Same

\* The value of k is in memory.
IsLoaded(s, t, k, exact) ==
  /\ VmInv(t, exact) /\ Calm(s, t) /\ SameClients(s, t)
  /\ ActiveJobs(t, k) = {} /\ t.key[k].storage = "MEMORY" /\ t.data = s.data /\ t.risked = s.risked

LEMMA ValueLoaded ==
  ASSUME NEW exact, NEW b, VmInv(b, exact), NEW k \in Keys, NEW s, Emptied(b, s, k),
         s.key[k].storage \in {"SWAPPED", "LOADING"},
         NEW v \in Values, s.data[k] # Lost => v = s.data[k],
         NEW t, t = Loaded(s, k, v)
  PROVE  IsLoaded(s, t, k, exact)
<1>1. /\ b \in States /\ KeyInv(b, k) /\ Stored(b, k)
      /\ s \in States /\ s.key \in KeyTables /\ s.key[k] \in KeyObjects /\ s.used \in PageSets
  BY DEF VmInv, KeyInv, Emptied, States, KeyTables
<1> DEFINE key == [s.key[k] EXCEPT !.storage = "MEMORY", !.val = v]
           table == [s.key EXCEPT ![k] = key]
           used == s.used \ Run(s.key[k].page, s.key[k].pages)
<1>2. s.data[k] \in Values \cup {Lost} /\ k \notin s.risked
  BY <1>1 DEF Emptied, Stored
<1>3. key \in KeyObjects /\ key.storage = "MEMORY" /\ key.val = v
  BY <1>1 DEF KeyObjects, Storages
<1> HIDE DEF key
<1>4. /\ table \in KeyTables /\ table[k] = key
      /\ \A l \in Keys : l # k => table[l] = s.key[l]
  BY <1>1, <1>3, KeyChanged
<1>5. used \in PageSets
  BY <1>1 DEF PageSets
<1>6. t = [s EXCEPT !.key = table, !.used = used]
  <2> DEFINE u == [s EXCEPT !.key[k].storage = "MEMORY", !.key[k].val = v]
  <2>1. u = [s EXCEPT !.key = table] /\ u.used = s.used
    BY <1>1 DEF KeyTables, key, States
  <2>2. t = [u EXCEPT !.used = u.used \ Run(s.key[k].page, s.key[k].pages)]
    BY DEF Loaded, MarkPagesFree
  <2> HIDE DEF u, table
  <2> QED
    BY <1>1, <2>1, <2>2 DEF States
<1> HIDE DEF table, used
<1>7. /\ t \in States /\ t.key = table /\ t.used = used /\ t.file = s.file
      /\ t.newjobs = s.newjobs /\ t.processed = s.processed /\ t.pipe = s.pipe
      /\ t.thread = s.thread /\ t.job = s.job /\ t.panic = s.panic /\ t.data = s.data /\ t.risked = s.risked
      /\ SameClients(s, t)
  BY <1>1, <1>4, <1>5, <1>6, ZenonT(40) DEF States, SameClients
<1>8. Queues(t)
  BY <1>7 DEF Emptied, Queues, Signaling
<1>9. \A l \in Keys : l # k => Same(b, t, l)
  BY <1>4, <1>7 DEF Emptied, Same
<1>10. /\ ActiveJobs(t, k) = {}
       /\ JobsIn(t.newjobs, k) = {} /\ JobsIn(t.processed, k) = {} /\ JobsIn(t.job, k) = {}
  BY <1>7 DEF ActiveJobs, Emptied
<1>11. KeyInv(t, k)
  <2>1. Stored(t, k)
    BY <1>2, <1>3, <1>4, <1>7 DEF Stored
  <2> QED
    BY <1>10, <2>1 DEF KeyInv, OnePlace
<1>12. PagesOf(t, k) = {}
  <2>1. {j \in ActiveJobs(t, k) : j.type = "DO_SWAP"} = {}
    BY <1>10
  <2> QED
    BY <1>3, <1>4, <1>7, <2>1 DEF PagesOf
<1>13. PagesOf(b, k) = Run(s.key[k].page, s.key[k].pages) /\ (exact => GoneOver(t))
  BY <1>7, PagesOfKey DEF Emptied, VmInv, Exact, GoneOver
<1>14. HasJob(t, k)
  BY <1>3, <1>4, <1>7 DEF HasJob
<1>15. VmInv(t, exact)
  BY <1>7, <1>8, <1>9, <1>11, <1>12, <1>13, <1>14, OneKey DEF Emptied, used
<1> QED
  BY <1>3, <1>4, <1>7, <1>10, <1>15 DEF Calm, IsLoaded

\* A value that is on its pages can be read.
LEMMA PagesRead ==
  ASSUME NEW s, NEW v \in Values, NEW page \in Pages, OnPages(s, page, v)
  PROVE  ReadObjectFromSwap(s, page) = v
<1>1. Size[v] \in 1 .. VmPages /\ v # None
  BY VmAssumption
<1>2. page \in Run(page, Size[v])
  BY <1>1 DEF Run, Pages
<1>3. s.file[page] = v
  BY <1>2 DEF OnPages
<1> QED
  BY <1>1, <1>3 DEF ReadObjectFromSwap, OnPages

LEMMA ValueRead ==
  ASSUME NEW exact, NEW s, VmInv(s, exact), NEW k \in Keys,
         s.key[k].storage \in {"SWAPPED", "LOADING"}
  PROVE  LET v == ReadObjectFromSwap(s, s.key[k].page)
         IN  v \in Values \cup {None} /\ (s.data[k] # Lost => v = s.data[k] /\ v \in Values)
<1>1. Stored(s, k) /\ s \in States /\ s.key[k].page \in Pages /\ s.file \in Files
  BY DEF VmInv, KeyInv, States, KeyTables, KeyObjects
<1>2. s.data[k] # Lost => s.data[k] \in Values /\ OnPages(s, s.key[k].page, s.data[k])
  BY <1>1 DEF Stored
<1>3. ReadObjectFromSwap(s, s.key[k].page) \in Values \cup {None}
  BY <1>1 DEF ReadObjectFromSwap, Files
<1> QED
  BY <1>1, <1>2, <1>3, PagesRead

\* The process is gone over a value that is lost.
LEMMA ProcessGone ==
  ASSUME NEW exact, NEW s, VmInv(s, exact),
         exact => s.panic \/ \E k \in Keys : s.data[k] = Lost,
         NEW t, t = Gone(s)
  PROVE  /\ VmInv(t, exact) /\ Calm(s, t) /\ SameClients(s, t)
         /\ t.panic /\ t.data = s.data
         /\ \A k \in Keys : ActiveJobs(t, k) = ActiveJobs(s, k)
<1>1. s \in States
  BY DEF VmInv
<1>2. /\ t \in States /\ t.key = s.key /\ t.used = s.used /\ t.panic
      /\ t.file = s.file /\ t.newjobs = s.newjobs /\ t.processed = s.processed
      /\ t.pipe = s.pipe /\ t.thread = s.thread /\ t.job = s.job
      /\ t.data = s.data /\ t.risked = s.risked /\ SameClients(s, t)
  BY <1>1 DEF Gone, States, SameClients
<1>3. Queues(t)
  BY <1>2 DEF VmInv, Queues, Signaling
<1>4. \A k \in Keys : Same(s, t, k)
  BY <1>2 DEF Same
<1>5. VmInv(t, exact)
  BY <1>2, <1>3, <1>4, NoKey
<1> QED
  BY <1>2, <1>5 DEF Calm, ActiveJobs

\* A key begins to be swapped out or loaded.
LEMMA KeyQueued ==
  ASSUME NEW exact, NEW s, VmInv(s, exact), NEW k \in Keys, ActiveJobs(s, k) = {},
         NEW job \in NewJobs, job.key = k, NEW storage,
         \/ /\ storage = "LOADING" /\ s.key[k].storage = "SWAPPED"
            /\ job.type = "LOAD" /\ job.page = s.key[k].page
         \/ /\ storage = "SWAPPING" /\ s.key[k].storage = "MEMORY"
            /\ job.type = "PREPARE_SWAP" /\ job.val = s.key[k].val,
         NEW t, t = QueueIOJob([s EXCEPT !.key[k].storage = storage], job)
  PROVE  VmInv(t, exact) /\ Calm(s, t) /\ SameClients(s, t)
<1>1. /\ s \in States /\ Queues(s) /\ KeyInv(s, k) /\ Stored(s, k)
      /\ s.key \in KeyTables /\ s.key[k] \in KeyObjects
  BY DEF VmInv, KeyInv, States, KeyTables
<1> DEFINE key == [s.key[k] EXCEPT !.storage = storage]
           table == [s.key EXCEPT ![k] = key]
           u == [s EXCEPT !.key[k].storage = storage]
<1>2. /\ key \in KeyObjects /\ key.storage = storage /\ key.val = s.key[k].val
      /\ key.page = s.key[k].page /\ key.pages = s.key[k].pages
  BY <1>1 DEF KeyObjects, Storages
<1>3. /\ table \in KeyTables /\ table[k] = key
      /\ \A l \in Keys : l # k => table[l] = s.key[l]
  <2> HIDE DEF key
  <2> QED
    BY <1>1, <1>2, KeyChanged
<1>4. u = [s EXCEPT !.key = table]
  BY <1>1 DEF States, KeyTables
<1> HIDE DEF table, key, u
<1>5. /\ u \in States /\ u.key = table /\ u.used = s.used /\ u.file = s.file
      /\ u.newjobs = s.newjobs /\ u.processed = s.processed /\ u.pipe = s.pipe
      /\ u.thread = s.thread /\ u.job = s.job /\ u.panic = s.panic /\ u.data = s.data /\ u.risked = s.risked
      /\ SameClients(s, u)
  BY <1>1, <1>3, <1>4 DEF States, SameClients
<1>6. Queues(u) /\ JobsIn(u.newjobs, job.key) = {}
  BY <1>1, <1>5 DEF Queues, Signaling, ActiveJobs
<1>7. t = QueueIOJob(u, job)
  BY DEF u
<1>8. /\ t \in States /\ Queues(t)
      /\ t = [u EXCEPT !.newjobs = t.newjobs, !.thread = t.thread]
      /\ JobsIn(t.newjobs, job.key) = JobsIn(u.newjobs, job.key) \cup {job}
      /\ \A l : l # job.key => JobsIn(t.newjobs, l) = JobsIn(u.newjobs, l)
      /\ NoWrites(u.newjobs) => NoWrites(t.newjobs)
  <2>1. IsQueued(u, t, job)
    BY <1>5, <1>6, <1>7, Queued
  <2>2. job.type # "DO_SWAP"
    OBVIOUS
  <2> QED
    BY <2>1, <2>2 DEF IsQueued
<1>9. /\ t.key = table /\ t.used = s.used /\ t.file = s.file /\ t.processed = s.processed
      /\ t.job = s.job /\ t.panic = s.panic /\ t.data = s.data /\ t.risked = s.risked /\ SameClients(s, t)
  <2>1. IsQueued(u, t, job)
    BY <1>5, <1>6, <1>7, Queued
  <2>2. /\ t.key = u.key /\ t.used = u.used /\ t.file = u.file /\ t.processed = u.processed
        /\ t.job = u.job /\ t.panic = u.panic /\ t.data = u.data /\ t.risked = u.risked /\ SameClients(u, t)
    BY <1>5, <2>1, QueuedOnly
  <2> QED
    BY <1>5, <2>2 DEF SameClients
<1>10. \A l \in Keys : l # k => Same(s, t, l)
  <2> SUFFICES ASSUME NEW l \in Keys, l # k PROVE Same(s, t, l)
    OBVIOUS
  <2>1. JobsIn(t.newjobs, l) = JobsIn(s.newjobs, l)
    <3>1. JobsIn(t.newjobs, l) = JobsIn(u.newjobs, l) /\ u.newjobs = s.newjobs
      BY <1>5, <1>8
    <3> QED
      BY <3>1
  <2>2. t.key[l] = s.key[l]
    BY <1>3, <1>9
  <2> QED
    BY <1>9, <2>1, <2>2 DEF Same
<1>11. /\ JobsIn(t.newjobs, k) = {job} /\ JobsIn(t.processed, k) = {} /\ JobsIn(t.job, k) = {}
       /\ ActiveJobs(t, k) = {job}
  BY <1>5, <1>8, <1>9 DEF ActiveJobs
<1>12. KeyInv(t, k)
  <2>1. Stored(t, k)
    BY <1>1, <1>2, <1>3, <1>9 DEF Stored, OnPages
  <2>2. JobFits(t, k, job)
    <3>1. /\ t.key[k].storage = storage /\ t.key[k].page = s.key[k].page
          /\ t.key[k].val = s.key[k].val
      BY <1>2, <1>3, <1>9
    <3>2. s.key[k].storage = "MEMORY" => s.key[k].val \in Values
      BY <1>1 DEF Stored
    <3> HIDE DEF table
    <3> QED
      BY <3>1, <3>2 DEF JobFits
  <2> QED
    BY <1>11, <2>1, <2>2 DEF KeyInv, OnePlace
<1>13. PagesOf(t, k) = PagesOf(s, k)
  <2>1. {j \in ActiveJobs(t, k) : j.type = "DO_SWAP"} = {}
    BY <1>11
  <2>2. {j \in ActiveJobs(s, k) : j.type = "DO_SWAP"} = {}
    OBVIOUS
  <2> QED
    BY <1>2, <1>3, <1>9, <2>1, <2>2 DEF PagesOf
<1>14. HasJob(t, k)
  BY <1>11 DEF HasJob
<1>15. PagesOf(s, k) \subseteq s.used /\ (exact => GoneOver(t))
  BY <1>9 DEF VmInv, PagesUsed, Exact, GoneOver
<1>16. VmInv(t, exact)
  BY <1>8, <1>9, <1>10, <1>12, <1>13, <1>14, <1>15, OneKey
<1> QED
  BY <1>5, <1>8, <1>9, <1>16 DEF Calm

LEMMA SwapQueued ==
  ASSUME NEW exact, NEW s, VmInv(s, exact), NEW k \in Swappable(s),
         NEW t, t = SwapObjectThreaded(s, k)
  PROVE  VmInv(t, exact) /\ Calm(s, t) /\ SameClients(s, t)
<1> DEFINE job == Job("PREPARE_SWAP", k, s.key[k].val, 0)
<1>1. s \in States /\ k \in Keys /\ s.key[k] \in KeyObjects /\ s.key[k].storage = "MEMORY"
  BY DEF VmInv, States, KeyTables, Swappable
<1>2. ActiveJobs(s, k) = {}
  BY <1>1, PagesOfKey
<1>3. /\ job \in NewJobs /\ job.key = k /\ job.type = "PREPARE_SWAP"
      /\ job.val = s.key[k].val
  BY <1>1, VmAssumption DEF Job, NewJobs, JobRecords, JobTypes, KeyObjects, Pages
<1>4. t = QueueIOJob([s EXCEPT !.key[k].storage = "SWAPPING"], job)
  BY DEF SwapObjectThreaded
<1> HIDE DEF job
<1> QED
  BY <1>1, <1>2, <1>3, <1>4, KeyQueued

\* What the main thread may ask for the keys of a command.
Free(s, k) == JobsIn(s.job, k) = {}

\* What a command comes to, for all but the keys it is about.
Goes(s, t, exact) == Steps(s, t, exact) /\ ClientsInv(t)

\* The main thread has done something with k, which has no job now, or it is gone.
Settled(s, t, k, exact) ==
  /\ Steps(s, t, exact) /\ ClientsInv(t)
  /\ t.panic \/ (ActiveJobs(t, k) = {} /\ t.key[k].storage \in {"absent", "MEMORY"})

LEMMA ObjectLoaded ==
  ASSUME NEW exact, NEW s, VmInv(s, exact), NEW k \in Keys, ActiveJobs(s, k) = {},
         s.key[k].storage \in {"SWAPPED", "LOADING"},
         NEW t, t = LoadObject(s, k)
  PROVE  /\ VmInv(t, exact) /\ Calm(s, t) /\ SameClients(s, t)
         /\ t.panic \/ (ActiveJobs(t, k) = {} /\ t.key[k].storage = "MEMORY")
<1> DEFINE v == ReadObjectFromSwap(s, s.key[k].page)
<1>1. v \in Values \cup {None} /\ (s.data[k] # Lost => v = s.data[k] /\ v \in Values)
  BY ValueRead
<1>2. Emptied(s, s, k)
  BY NothingToEmpty
<1>3. t = IF v = None THEN Gone(s) ELSE Loaded(s, k, v)
  BY DEF LoadObject
<1> HIDE DEF v
<1>4. CASE v = None
  <2>1. s.data[k] = Lost
    BY <1>1, <1>4, VmAssumption
  <2> QED
    BY <1>3, <1>4, <2>1, ProcessGone
<1>5. CASE v # None
  <2>1. IsLoaded(s, t, k, exact)
    BY <1>1, <1>2, <1>3, <1>5, ValueLoaded
  <2> QED
    BY <2>1 DEF IsLoaded
<1> QED
  BY <1>4, <1>5

LEMMA KeyLookedUp ==
  ASSUME NEW exact, NEW s, VmInv(s, exact), ClientsInv(s), NEW k \in Keys, Free(s, k),
         NEW t, t = LookupKey(s, k)
  PROVE  Settled(s, t, k, exact)
<1>1. s \in States /\ s.key[k] \in KeyObjects /\ Stored(s, k)
  BY DEF VmInv, States, KeyTables, KeyInv
<1>2. CASE s.key[k].storage \in {"absent", "MEMORY"}
  <2>1. t = s
    BY <1>2 DEF LookupKey
  <2>2. ActiveJobs(s, k) = {}
    BY <1>2, PagesOfKey
  <2>3. Calm(s, s) /\ SameClients(s, s)
    BY DEF Calm, SameClients
  <2> QED
    BY <1>1, <1>2, <2>1, <2>2, <2>3, SameClientsStep DEF Settled
<1>3. CASE s.key[k].storage = "SWAPPING"
  <2>1. t = CancelThreadedIOJob(s, k)
    BY <1>3 DEF LookupKey
  <2>2. /\ VmInv(t, exact) /\ Calm(s, t) /\ SameClients(s, t)
        /\ ActiveJobs(t, k) = {}
        /\ t.key[k] = Undone(s.key[k]) \/ t.panic
    <3>1. Cancelled(s, t, k, exact)
      BY <1>3, <2>1, JobCancelled DEF Free
    <3> QED
      BY <3>1 DEF Cancelled
  <2>3. t.key[k].storage = "MEMORY" \/ t.panic
    BY <1>1, <1>3, <2>2 DEF Undone, KeyObjects
  <2> QED
    BY <1>1, <2>2, <2>3, SameClientsStep DEF Settled
<1>4. CASE s.key[k].storage \in {"SWAPPED", "LOADING"} /\ s.key[k].val # None
  <2>1. t = Gone(s)
    BY <1>4 DEF LookupKey
  <2>2. s.data[k] = Lost
    BY <1>1, <1>4 DEF Stored
  <2>3. VmInv(t, exact) /\ Calm(s, t) /\ SameClients(s, t) /\ t.panic
    BY <2>1, <2>2, ProcessGone
  <2> QED
    BY <1>1, <2>3, SameClientsStep DEF Settled
<1>5. CASE s.key[k].storage = "SWAPPED" /\ s.key[k].val = None
  <2>1. t = LoadObject(s, k)
    BY <1>5 DEF LookupKey
  <2>2. ActiveJobs(s, k) = {}
    BY <1>5, PagesOfKey
  <2>3. /\ VmInv(t, exact) /\ Calm(s, t) /\ SameClients(s, t)
        /\ t.panic \/ (ActiveJobs(t, k) = {} /\ t.key[k].storage = "MEMORY")
    BY <1>5, <2>1, <2>2, ObjectLoaded
  <2> QED
    BY <1>1, <2>3, SameClientsStep DEF Settled
<1>6. CASE s.key[k].storage = "LOADING" /\ s.key[k].val = None
  <2> DEFINE u == CancelThreadedIOJob(s, k)
             w == LoadObject(u, k)
  <2>1. t = HandleClientsBlockedOnSwappedKey(w, k)
    BY <1>6 DEF LookupKey
  <2>2. /\ VmInv(u, exact) /\ Calm(s, u) /\ SameClients(s, u)
        /\ ActiveJobs(u, k) = {}
        /\ u.key[k] = Undone(s.key[k]) \/ u.key[k] = s.key[k]
    <3>1. u = CancelThreadedIOJob(s, k)
      OBVIOUS
    <3> HIDE DEF u
    <3>2. Cancelled(s, u, k, exact)
      BY <1>6, <3>1, JobCancelled DEF Free
    <3> QED
      BY <3>2 DEF Cancelled
  <2> HIDE DEF u
  <2>3. u.key[k].storage \in {"SWAPPED", "LOADING"}
    BY <1>1, <1>6, <2>2 DEF Undone, KeyObjects
  <2>4. /\ VmInv(w, exact) /\ Calm(u, w) /\ SameClients(u, w)
        /\ w.panic \/ (ActiveJobs(w, k) = {} /\ w.key[k].storage = "MEMORY")
    BY <2>2, <2>3, ObjectLoaded
  <2> HIDE DEF w
  <2>5. u \in States
    BY <2>2 DEF VmInv
  <2>7. Steps(s, u, exact) /\ ClientsInv(u)
    BY <1>1, <2>2, SameClientsStep
  <2>8. Steps(u, w, exact) /\ ClientsInv(w)
    BY <2>4, <2>5, <2>7, SameClientsStep
  <2>9. Told(w, t)
    BY <2>1, <2>4, <2>8, ClientsTold DEF VmInv
  <2>10. /\ Steps(w, t, exact) /\ ClientsInv(t) /\ t.key = w.key /\ t.panic = w.panic
         /\ ActiveJobs(t, k) = ActiveJobs(w, k)
    BY <2>4, <2>9, ToldSteps
  <2>11. Steps(s, w, exact) /\ w \in States
    BY <1>1, <2>7, <2>8, StepsTransitive DEF Steps, VmInv
  <2>12. Steps(s, t, exact)
    BY <1>1, <2>10, <2>11, StepsTransitive
  <2> QED
    BY <2>4, <2>10, <2>12 DEF Settled
<1> QED
  BY <1>1, <1>2, <1>3, <1>4, <1>5, <1>6 DEF KeyObjects, Storages

\* A key that has no job is given a new object.
IsWritten(s, t, k, key, val, exact) ==
  VmInv(t, exact) /\ Calm(s, t) /\ ActiveJobs(t, k) = {} /\ t.key[k] = key

LEMMA KeyWritten ==
  ASSUME NEW exact, NEW s, VmInv(s, exact), NEW k \in Keys, ActiveJobs(s, k) = {},
         NEW key \in KeyObjects, key.storage \in {"absent", "MEMORY"},
         NEW val \in Values \cup {None, Lost}, exact => ~s.panic,
         key.storage = "absent" => key = Absent /\ val = None,
         key.storage # "absent" => key.val \in Values /\ val \in {key.val, Lost},
         NEW t \in States,
         t.key = [s.key EXCEPT ![k] = key], t.data = [s.data EXCEPT ![k] = val],
         t.risked = s.risked \ {k}, t.used = s.used \ PagesOf(s, k),
         t.file = s.file, t.newjobs = s.newjobs, t.processed = s.processed, t.pipe = s.pipe,
         t.thread = s.thread, t.job = s.job, t.panic = s.panic
  PROVE  IsWritten(s, t, k, key, val, exact)
<1>1. s \in States /\ Queues(s) /\ s.key \in KeyTables /\ s.data \in Data
  BY DEF VmInv, States
<1>2. /\ t.key[k] = key /\ t.data[k] = val
      /\ \A l \in Keys : l # k => t.key[l] = s.key[l] /\ t.data[l] = s.data[l]
  BY <1>1 DEF KeyTables, Data
<1>3. Queues(t)
  BY <1>1 DEF Queues, Signaling
<1>4. \A l \in Keys : l # k => Same(s, t, l)
  BY <1>2 DEF Same
<1>5. /\ ActiveJobs(t, k) = {}
      /\ JobsIn(t.newjobs, k) = {} /\ JobsIn(t.processed, k) = {} /\ JobsIn(t.job, k) = {}
  BY DEF ActiveJobs
<1>6. KeyInv(t, k)
  <2>1. Stored(t, k)
    BY <1>2 DEF Stored
  <2> QED
    BY <1>5, <2>1 DEF KeyInv, OnePlace
<1>7. PagesOf(t, k) = {}
  <2>1. {j \in ActiveJobs(t, k) : j.type = "DO_SWAP"} = {}
    BY <1>5
  <2> QED
    BY <1>2, <2>1 DEF PagesOf
<1>8. ASSUME exact PROVE HasJob(t, k) /\ GoneOver(t)
  BY <1>2, <1>8 DEF HasJob, GoneOver
<1>9. VmInv(t, exact)
  BY <1>3, <1>4, <1>6, <1>7, <1>8, OneKey
<1> QED
  BY <1>2, <1>5, <1>9 DEF Calm, IsWritten

LEMMA KeyDropped ==
  ASSUME NEW exact, NEW s, VmInv(s, exact), ClientsInv(s), NEW k \in Keys, Free(s, k),
         exact => ~s.panic, NEW t, t = DropKey(s, k)
  PROVE  /\ Goes(s, t, exact) /\ (exact => ~t.panic)
         /\ ActiveJobs(t, k) = {} /\ t.key[k] = Absent
<1>1. s \in States /\ s.key[k] \in KeyObjects
  BY DEF VmInv, States, KeyTables
<1> DEFINE u == IF s.key[k].storage \in {"LOADING", "SWAPPING"}
                  THEN CancelThreadedIOJob(s, k) ELSE s
           used == u.used \ PagesOf(u, k)
           table == [u.key EXCEPT ![k] = Absent]
           data == [u.data EXCEPT ![k] = None]
           risked == u.risked \ {k}
           stranded == u.stranded \cup ToSet(s.io_keys[k])
<1>2. /\ VmInv(u, exact) /\ Calm(s, u) /\ SameClients(s, u) /\ ActiveJobs(u, k) = {}
      /\ exact => ~u.panic
      /\ u.key[k] = s.key[k]
         \/ (s.key[k].storage \in {"LOADING", "SWAPPING"} /\ u.key[k] = Undone(s.key[k]))
  <2>1. CASE s.key[k].storage \in {"LOADING", "SWAPPING"}
    <3>1. u = CancelThreadedIOJob(s, k)
      BY <2>1
    <3> HIDE DEF u
    <3>2. Cancelled(s, u, k, exact)
      BY <2>1, <3>1, JobCancelled DEF Free
    <3> QED
      BY <2>1, <3>2 DEF Cancelled
  <2>2. CASE s.key[k].storage \notin {"LOADING", "SWAPPING"}
    <3>1. u = s
      BY <2>2
    <3>2. ActiveJobs(s, k) = {}
      BY <1>1, <2>2, PagesOfKey DEF KeyObjects, Storages
    <3> QED
      BY <3>1, <3>2 DEF Calm, SameClients
  <2> QED
    BY <2>1, <2>2
<1> DEFINE w == IF s.key[k].storage \in {"LOADING", "SWAPPED"}
                  THEN MarkPagesFree(u, s.key[k].page, s.key[k].pages) ELSE u
<1>3. t = [w EXCEPT !.key[k] = Absent, !.data[k] = None, !.risked = @ \ {k},
                    !.stranded = @ \cup ToSet(s.io_keys[k])]
  BY DEF DropKey
<1> HIDE DEF u
<1>4. PagesOf(u, k) = IF s.key[k].storage \in {"LOADING", "SWAPPED"}
                        THEN Run(s.key[k].page, s.key[k].pages) ELSE {}
  <2>1. CASE s.key[k].storage \in {"LOADING", "SWAPPED"}
    <3>1. /\ u.key[k].storage \in {"LOADING", "SWAPPED"}
          /\ u.key[k].page = s.key[k].page /\ u.key[k].pages = s.key[k].pages
      BY <1>1, <1>2, <2>1 DEF Undone, KeyObjects
    <3> QED
      BY <1>2, <2>1, <3>1, PagesOfKey
  <2>2. CASE s.key[k].storage \notin {"LOADING", "SWAPPED"}
    <3>1. u.key[k].storage \in {"absent", "MEMORY", "SWAPPING"}
      BY <1>1, <1>2, <2>2 DEF Undone, KeyObjects, Storages
    <3> QED
      BY <1>2, <2>2, <3>1, PagesOfKey
  <2> QED
    BY <2>1, <2>2
<1>5. u \in States /\ u.used \in PageSets /\ u.key \in KeyTables /\ u.data \in Data
  BY <1>2 DEF VmInv, States
<1>6. w = [u EXCEPT !.used = used]
  <2>1. CASE s.key[k].storage \in {"LOADING", "SWAPPED"}
    BY <1>4, <2>1 DEF MarkPagesFree
  <2>2. CASE s.key[k].storage \notin {"LOADING", "SWAPPED"}
    <3>1. used = u.used
      BY <1>4, <2>2
    <3> QED
      BY <1>5, <2>2, <3>1 DEF States
  <2> QED
    BY <2>1, <2>2
<1> HIDE DEF w
<1>7. /\ used \in PageSets /\ table \in KeyTables /\ data \in Data
      /\ stranded \in ClientSets /\ risked \in KeySets
  <2>1. used \in PageSets
    BY <1>5 DEF PageSets
  <2>2. Absent \in KeyObjects
    BY VmAssumption DEF Absent, KeyObjects, Storages, Pages
  <2>3. table \in KeyTables
    BY <1>5, <2>2 DEF KeyTables
  <2>4. data \in Data
    BY <1>5 DEF Data
  <2>5. stranded \in ClientSets
    BY <1>1, <1>5, ListsTyped DEF ClientSets, States, ToSet
  <2>6. risked \in KeySets
    BY <1>5 DEF States, KeySets
  <2> QED
    BY <2>1, <2>3, <2>4, <2>5, <2>6
<1> HIDE DEF used
<1>8. t = [u EXCEPT !.used = used, !.key = table, !.data = data, !.risked = risked,
                    !.stranded = stranded]
  BY <1>3, <1>5, <1>6 DEF States
<1> HIDE DEF table, data, stranded, risked
<1>9. /\ t \in States /\ t.key = table /\ t.data = data /\ t.used = used /\ t.risked = risked
      /\ t.file = u.file /\ t.newjobs = u.newjobs /\ t.processed = u.processed
      /\ t.pipe = u.pipe /\ t.thread = u.thread /\ t.job = u.job /\ t.panic = u.panic
      /\ SameClients(u, t)
  BY <1>5, <1>7, <1>8, ZenonT(40) DEF States, SameClients
<1>10. VmInv(t, exact) /\ Calm(u, t) /\ ActiveJobs(t, k) = {} /\ t.key[k] = Absent
  <2>1. Absent \in KeyObjects /\ Absent.storage = "absent"
    BY VmAssumption DEF Absent, KeyObjects, Storages, Pages
  <2> QED
    <3>1. t.key = [u.key EXCEPT ![k] = Absent] /\ t.data = [u.data EXCEPT ![k] = None]
      BY <1>9 DEF table, data
    <3>2. t.used = u.used \ PagesOf(u, k)
      BY <1>9 DEF used
    <3>3. None \in Values \cup {None, Lost} /\ t.risked = u.risked \ {k}
      BY <1>9 DEF risked
    <3>4. IsWritten(u, t, k, Absent, None, exact)
      BY <1>2, <1>9, <2>1, <3>1, <3>2, <3>3, KeyWritten
    <3> QED
      BY <3>4 DEF IsWritten
<1>11. Steps(s, u, exact) /\ ClientsInv(u)
  BY <1>1, <1>2, SameClientsStep
<1>12. Steps(u, t, exact) /\ ClientsInv(t)
  BY <1>5, <1>9, <1>10, <1>11, SameClientsStep
<1>13. Steps(s, t, exact)
  BY <1>1, <1>11, <1>12, StepsTransitive
<1>14. exact => ~t.panic
  BY <1>2, <1>9
<1> QED
  BY <1>10, <1>12, <1>13, <1>14 DEF Goes

LEMMA KeySet ==
  ASSUME NEW exact, NEW s, VmInv(s, exact), ClientsInv(s), NEW k \in Keys, NEW v \in Values,
         ActiveJobs(s, k) = {}, s.key[k].storage \in {"absent", "MEMORY"}, exact => ~s.panic,
         NEW key \in KeyObjects, key.storage = "MEMORY", key.val = v, NEW d \in {v, Lost},
         NEW t, t = [s EXCEPT !.key = [s.key EXCEPT ![k] = key],
                              !.data = [s.data EXCEPT ![k] = d]]
  PROVE  Goes(s, t, exact)
<1>1. s \in States /\ s.key \in KeyTables /\ s.data \in Data /\ s.used \in PageSets
  BY DEF VmInv, States
<1> DEFINE table == [s.key EXCEPT ![k] = key]
           data == [s.data EXCEPT ![k] = d]
<1>2. table \in KeyTables /\ data \in Data
  BY <1>1 DEF KeyTables, Data
<1>3. t = [s EXCEPT !.key = table, !.data = data]
  OBVIOUS
<1> HIDE DEF table, data
<1>4. t \in States
  BY <1>1, <1>2, <1>3 DEF States
<1>5. /\ t.key = table /\ t.data = data /\ t.used = s.used
      /\ t.file = s.file /\ t.newjobs = s.newjobs /\ t.processed = s.processed
      /\ t.pipe = s.pipe /\ t.thread = s.thread /\ t.job = s.job /\ t.panic = s.panic
      /\ t.risked = s.risked /\ SameClients(s, t)
  BY <1>1, <1>3 DEF States, SameClients
<1>6. s.used = s.used \ PagesOf(s, k)
  BY PagesOfKey
<1>7. VmInv(t, exact) /\ Calm(s, t)
  <2>1. t.key = [s.key EXCEPT ![k] = key] /\ t.data = [s.data EXCEPT ![k] = d]
    BY <1>5 DEF table, data
  <2>2. t.used = s.used \ PagesOf(s, k) /\ d \in Values \cup {None, Lost}
    BY <1>5, <1>6
  <2>3. t.risked = s.risked \ {k}
    <3>1. Stored(s, k)
      BY DEF VmInv, KeyInv
    <3> QED
      BY <1>5, <3>1 DEF Stored
  <2>4. IsWritten(s, t, k, key, d, exact)
    BY <1>4, <1>5, <2>1, <2>2, <2>3, KeyWritten
  <2> QED
    BY <2>4 DEF IsWritten
<1> QED
  BY <1>1, <1>5, <1>7, SameClientsStep DEF Goes

-----------------------------------------------------------------------------
(* Commands.                                                               *)

LEMMA GoesNowhere ==
  ASSUME NEW exact, NEW s, VmInv(s, exact), ClientsInv(s)
  PROVE  Goes(s, s, exact)
<1>1. s \in States /\ Calm(s, s) /\ SameClients(s, s)
  BY DEF VmInv, Calm, SameClients
<1> QED
  BY <1>1, SameClientsStep DEF Goes

LEMMA GoesOn ==
  ASSUME NEW exact, NEW s \in States, NEW t, NEW u, Goes(s, t, exact), Goes(t, u, exact)
  PROVE  Goes(s, u, exact)
  BY StepsTransitive DEF Goes

\* A nested change of two tables, one at a time.
LEMMA RowsChanged ==
  ASSUME NEW u \in States, NEW k, NEW key, NEW v
  PROVE  [u EXCEPT !.key[k] = key, !.data[k] = v]
           = [u EXCEPT !.key = [u.key EXCEPT ![k] = key], !.data = [u.data EXCEPT ![k] = v]]
  BY DEF States

LEMMA EntryChanged ==
  ASSUME NEW u \in States, NEW k, NEW storage, NEW v, NEW d, NEW risked
  PROVE  [u EXCEPT !.key[k].storage = storage, !.key[k].val = v, !.data[k] = d, !.risked = risked]
           = [u EXCEPT !.key = [[u.key EXCEPT ![k].storage = storage] EXCEPT ![k].val = v],
                       !.data = [u.data EXCEPT ![k] = d], !.risked = risked]
<1> DEFINE keys1 == [u.key EXCEPT ![k].storage = storage]
           keys2 == [keys1 EXCEPT ![k].val = v]
           w == [u EXCEPT !.key = keys2]
<1>1. [u EXCEPT !.key[k].storage = storage] = [u EXCEPT !.key = keys1]
  BY DEF States
<1>2. [[u EXCEPT !.key = keys1] EXCEPT !.key[k].val = v] = w
  <2> HIDE DEF keys1
  <2> QED
    BY DEF States
<1>3. w.data = u.data
  BY DEF States
<1>4. [w EXCEPT !.data[k] = d, !.risked = risked]
        = [u EXCEPT !.key = keys2, !.data = [u.data EXCEPT ![k] = d], !.risked = risked]
  <2> HIDE DEF keys2
  <2> QED
    BY DEF States
<1>5. [u EXCEPT !.key[k].storage = storage, !.key[k].val = v, !.data[k] = d, !.risked = risked]
        = [[[u EXCEPT !.key[k].storage = storage] EXCEPT !.key[k].val = v]
             EXCEPT !.data[k] = d, !.risked = risked]
  OBVIOUS
<1> HIDE DEF w
<1>6. [u EXCEPT !.key[k].storage = storage, !.key[k].val = v, !.data[k] = d, !.risked = risked]
        = [w EXCEPT !.data[k] = d, !.risked = risked]
  BY <1>1, <1>2, <1>5, Zenon
<1> QED
  BY <1>4, <1>6

\* dictReplace keeps the pages and the jobs of the key, whatever they are about.
LEMMA KeyReplaced ==
  ASSUME NEW exact, NEW s, VmInv(s, exact), ClientsInv(s), NEW k \in Keys, NEW v \in Values,
         exact => ~s.panic, NEW t, t = ReplaceKey(s, k, v)
  PROVE  Goes(s, t, exact)
<1> DEFINE old == s.key[k]
           key == [old EXCEPT !.storage = IF @ = "absent" THEN "MEMORY" ELSE @, !.val = v]
           d == IF old.storage \in {"SWAPPED", "LOADING"} THEN Lost ELSE v
           table == [s.key EXCEPT ![k] = key]
           data == [s.data EXCEPT ![k] = d]
           risked == IF old.storage = "SWAPPING" THEN s.risked \cup {k} ELSE s.risked
<1>1. /\ s \in States /\ Queues(s) /\ KeyInv(s, k) /\ Stored(s, k) /\ OnePlace(s, k)
      /\ s.key \in KeyTables /\ old \in KeyObjects /\ s.data \in Data /\ s.risked \in KeySets
      /\ s.used \in PageSets /\ PagesOf(s, k) \subseteq s.used
  BY DEF VmInv, KeyInv, States, KeyTables, PagesUsed
<1>2. /\ key \in KeyObjects /\ key.val = v /\ key.page = old.page /\ key.pages = old.pages
      /\ key.storage = IF old.storage = "absent" THEN "MEMORY" ELSE old.storage
  BY <1>1 DEF KeyObjects, Storages
<1>3. /\ table \in KeyTables /\ table[k] = key
      /\ \A l \in Keys : l # k => table[l] = s.key[l]
  <2> HIDE DEF key
  <2> QED
    BY <1>1, <1>2, KeyChanged
<1>4. /\ data \in Data /\ data[k] = d /\ \A l \in Keys : l # k => data[l] = s.data[l]
  BY <1>1 DEF Data
<1>5. /\ risked \in KeySets /\ \A l \in Keys : l # k => (l \in risked <=> l \in s.risked)
      /\ k \in risked <=> old.storage = "SWAPPING"
  BY <1>1 DEF KeySets, Stored
<1>6. t = [s EXCEPT !.key = table, !.data = data, !.risked = risked]
  <2> DEFINE storage == IF old.storage = "absent" THEN "MEMORY" ELSE old.storage
  <2>1. [[s.key EXCEPT ![k].storage = storage] EXCEPT ![k].val = v] = table
    BY <1>1 DEF KeyTables
  <2>2. t = [s EXCEPT !.key[k].storage = storage, !.key[k].val = v, !.data[k] = d,
                      !.risked = risked]
    BY DEF ReplaceKey
  <2> HIDE DEF table, storage, risked, d
  <2>3. t = [s EXCEPT !.key = [[s.key EXCEPT ![k].storage = storage] EXCEPT ![k].val = v],
                      !.data = [s.data EXCEPT ![k] = d], !.risked = risked]
    BY <1>1, <2>2, EntryChanged
  <2> QED
    BY <2>1, <2>3
<1> HIDE DEF table, data, risked, key
<1>7. /\ t \in States /\ t.key = table /\ t.data = data /\ t.risked = risked
      /\ t.used = s.used /\ t.file = s.file /\ t.newjobs = s.newjobs
      /\ t.processed = s.processed /\ t.pipe = s.pipe /\ t.thread = s.thread
      /\ t.job = s.job /\ t.panic = s.panic /\ SameClients(s, t)
  BY <1>1, <1>3, <1>4, <1>5, <1>6, ZenonT(40) DEF States, SameClients
<1>8. Queues(t)
  BY <1>1, <1>7 DEF Queues, Signaling
<1>9. \A l \in Keys : l # k => Same(s, t, l)
  BY <1>3, <1>4, <1>5, <1>7 DEF Same
<1>10. /\ ActiveJobs(t, k) = ActiveJobs(s, k)
       /\ JobsIn(t.newjobs, k) = JobsIn(s.newjobs, k) /\ JobsIn(t.job, k) = JobsIn(s.job, k)
       /\ JobsIn(t.processed, k) = JobsIn(s.processed, k)
  BY <1>7 DEF ActiveJobs
<1>11. KeyInv(t, k)
  <2>1. Stored(t, k)
    <3>1. /\ t.key[k] = key /\ key.val = v /\ key.storage # "absent"
          /\ t.data[k] \in Values \cup {Lost}
          /\ key.storage \in {"MEMORY", "SWAPPING"} => t.data[k] = v
          /\ key.storage \in {"SWAPPED", "LOADING"} => t.data[k] = Lost
          /\ k \in t.risked => key.storage = "SWAPPING"
      BY <1>2, <1>3, <1>4, <1>5, <1>7
    <3> QED
      BY <3>1 DEF Stored
  <2>2. ASSUME NEW job \in ActiveJobs(s, k) PROVE JobFits(t, k, job)
    <3>1. JobFits(s, k, job)
      BY <1>1 DEF KeyInv
    <3> QED
      BY <1>2, <1>3, <1>5, <1>7, <3>1 DEF JobFits
  <2>3. ASSUME NEW job \in JobsIn(s.processed, k) PROVE JobDone(t, k, job)
    <3>1. JobFits(s, k, job) /\ JobDone(s, k, job)
      BY <1>1 DEF KeyInv, ActiveJobs
    <3>2. /\ job.type = "LOAD" => t.data[k] = Lost
          /\ job.type = "DO_SWAP" => k \in t.risked
      BY <1>4, <1>5, <1>7, <3>1 DEF JobFits
    <3> QED
      BY <3>1, <3>2 DEF JobDone
  <2>4. OnePlace(t, k)
    BY <1>1, <1>10 DEF OnePlace
  <2> QED
    BY <1>10, <2>1, <2>2, <2>3, <2>4 DEF KeyInv
<1>12. PagesOf(t, k) = PagesOf(s, k)
  <2>1. /\ t.key[k].storage \in {"SWAPPED", "LOADING"}
             <=> s.key[k].storage \in {"SWAPPED", "LOADING"}
        /\ t.key[k].page = s.key[k].page /\ t.key[k].pages = s.key[k].pages
    BY <1>2, <1>3, <1>7
  <2> QED
    BY <1>10, <2>1 DEF PagesOf
<1>13. ASSUME exact PROVE GoneOver(t) /\ HasJob(t, k)
  <2>1. HasJob(s, k)
    BY <1>13 DEF VmInv, Exact
  <2>2. /\ t.key[k].storage \in {"SWAPPING", "LOADING"}
             => s.key[k].storage \in {"SWAPPING", "LOADING"}
    BY <1>2, <1>3, <1>7
  <2> QED
    BY <1>7, <1>10, <1>13, <2>1, <2>2 DEF GoneOver, HasJob
<1>14. VmInv(t, exact)
  BY <1>1, <1>7, <1>8, <1>9, <1>11, <1>12, <1>13, OneKey
<1>15. Calm(s, t)
  BY <1>7 DEF Calm
<1> QED
  BY <1>1, <1>7, <1>14, <1>15, SameClientsStep DEF Goes

LEMMA CallGoes ==
  ASSUME NEW exact, NEW s, VmInv(s, exact), ClientsInv(s), NEW access \in Accesses,
         access.op # "replace" => Free(s, access.key), exact => ~s.panic,
         NEW t, t = Call(s, access)
  PROVE  Goes(s, t, exact)
<1> DEFINE k == access.key
           v == access.val
<1>1. /\ s \in States /\ k \in Keys
      /\ access.op \in {"get", "set", "append", "del", "mset", "replace"}
      /\ access.op \in {"set", "append", "mset", "replace"} => v \in Values
  BY DEF VmInv, Accesses
<1> HIDE DEF k, v
<1>2. access.op # "replace" => Free(s, k)
  BY DEF k
<1>3. CASE access.op = "get"
  <2>1. t = LookupKey(s, k)
    BY <1>3 DEF Call, k
  <2> QED
    BY <1>1, <1>2, <2>1, <1>3, KeyLookedUp DEF Settled, Goes
<1>4. CASE access.op = "del"
  <2>1. t = DropKey(s, k)
    BY <1>4 DEF Call, k
  <2> QED
    BY <1>1, <1>2, <1>4, <2>1, KeyDropped
<1>5. CASE access.op = "set"
  <2> DEFINE u == DeleteIfSwapped(s, k)
             key == [Absent EXCEPT !.storage = "MEMORY", !.val = v]
  <2>1. t = [u EXCEPT !.key[k] = key, !.data[k] = v]
    BY <1>5 DEF Call, SetKey, k, v
  <2>2. /\ Goes(s, u, exact) /\ ActiveJobs(u, k) = {} /\ (exact => ~u.panic)
        /\ u.key[k].storage \in {"absent", "MEMORY"}
    <3>1. CASE s.key[k].storage \in {"absent", "MEMORY"}
      <4>1. u = s
        BY <3>1 DEF DeleteIfSwapped
      <4>2. ActiveJobs(s, k) = {}
        BY <1>1, <3>1, PagesOfKey
      <4> QED
        BY <3>1, <4>1, <4>2, GoesNowhere
    <3>2. CASE s.key[k].storage \notin {"absent", "MEMORY"}
      <4>1. u = DropKey(s, k)
        BY <3>2 DEF DeleteIfSwapped
      <4> HIDE DEF u
      <4>2. /\ Goes(s, u, exact) /\ (exact => ~u.panic)
            /\ ActiveJobs(u, k) = {} /\ u.key[k] = Absent
        BY <1>1, <1>2, <1>5, <4>1, KeyDropped
      <4> QED
        BY <4>2 DEF Absent
    <3> QED
      BY <3>1, <3>2
  <2> HIDE DEF u
  <2>3. VmInv(u, exact) /\ ClientsInv(u) /\ u \in States
    BY <2>2 DEF Goes, Steps, VmInv
  <2>4. key \in KeyObjects /\ key.storage = "MEMORY" /\ key.val = v
    <3> DEFINE new == [Absent EXCEPT !.storage = "MEMORY"]
    <3>1. new = [storage |-> "MEMORY", val |-> None, page |-> 0, pages |-> 0]
      BY DEF Absent
    <3>2. key = [new EXCEPT !.val = v]
      OBVIOUS
    <3> HIDE DEF new, key
    <3>3. key = [storage |-> "MEMORY", val |-> v, page |-> 0, pages |-> 0]
      BY <3>1, <3>2
    <3> QED
      BY <1>1, <1>5, <3>3, ZeroPage DEF KeyObjects, Storages
  <2> HIDE DEF key
  <2>5. t = [u EXCEPT !.key = [u.key EXCEPT ![k] = key], !.data = [u.data EXCEPT ![k] = v]]
    BY <2>1, <2>3, RowsChanged
  <2>6. v \in Values /\ v \in {v, Lost}
    BY <1>1, <1>5
  <2>7. Goes(u, t, exact)
    BY <1>1, <2>2, <2>3, <2>4, <2>5, <2>6, KeySet
  <2> QED
    BY <1>1, <2>2, <2>7, GoesOn
<1>6. CASE access.op = "append"
  <2> DEFINE u == LookupKey(s, k)
             d == IF u.data[k] = Lost THEN Lost ELSE v
             key == [u.key[k] EXCEPT !.storage = IF @ = "absent" THEN "MEMORY" ELSE @,
                                     !.val = v]
  <2>1. t = IF u.panic THEN u
            ELSE [u EXCEPT !.key[k].storage = IF @ = "absent" THEN "MEMORY" ELSE @,
                           !.key[k].val = v, !.data[k] = IF @ = Lost THEN Lost ELSE v]
    BY <1>6 DEF Call, ChangeKey, k, v
  <2>2. u = LookupKey(s, k)
    OBVIOUS
  <2> HIDE DEF u
  <2>3. Settled(s, u, k, exact)
    BY <1>1, <1>2, <1>6, <2>2, KeyLookedUp
  <2>4. /\ Goes(s, u, exact) /\ VmInv(u, exact) /\ ClientsInv(u)
        /\ u \in States /\ u.key[k] \in KeyObjects /\ u.key \in KeyTables /\ u.data \in Data
    BY <1>1, <2>3 DEF Settled, Goes, Steps, VmInv, States, KeyTables
  <2>5. CASE u.panic
    BY <2>1, <2>4, <2>5
  <2>6. CASE ~u.panic
    <3>1. ActiveJobs(u, k) = {} /\ u.key[k].storage \in {"absent", "MEMORY"}
      BY <2>3, <2>6 DEF Settled
    <3>2. key \in KeyObjects /\ key.val = v /\ key.storage = "MEMORY"
      BY <1>1, <1>6, <2>4, <3>1 DEF KeyObjects, Storages
    <3>3. t = [u EXCEPT !.key[k] = key, !.data[k] = d]
      <4>1. [[u.key EXCEPT ![k].storage = IF @ = "absent" THEN "MEMORY" ELSE @]
               EXCEPT ![k].val = v] = [u.key EXCEPT ![k] = key]
        BY <1>1, <2>4 DEF KeyTables
      <4>2. [u.data EXCEPT ![k] = IF @ = Lost THEN Lost ELSE v] = [u.data EXCEPT ![k] = d]
        BY <1>1, <2>4 DEF Data
      <4> HIDE DEF key, d
      <4> QED
        BY <2>1, <2>4, <2>6, <4>1, <4>2 DEF States
    <3>4. d \in {v, Lost} /\ v \in Values
      BY <1>1, <1>6
    <3> HIDE DEF key, d
    <3>5. t = [u EXCEPT !.key = [u.key EXCEPT ![k] = key], !.data = [u.data EXCEPT ![k] = d]]
      BY <2>4, <3>3, RowsChanged
    <3>6. Goes(u, t, exact)
      BY <1>1, <2>4, <2>6, <3>1, <3>2, <3>4, <3>5, KeySet, ZenonT(40)
    <3> QED
      BY <1>1, <2>4, <3>6, GoesOn
  <2> QED
    BY <2>5, <2>6
<1>7. CASE access.op \in {"mset", "replace"}
  <2>1. t = ReplaceKey(s, k, v) \/ t = s
    BY <1>7 DEF Call, k, v
  <2> QED
    BY <1>1, <1>7, <2>1, KeyReplaced, GoesNowhere
<1> QED
  BY <1>1, <1>3, <1>4, <1>5, <1>6, <1>7

\* A command, or the commands of a transaction, one access after the other.
LEMMA AccessesGo ==
  ASSUME NEW exact, NEW s, VmInv(s, exact), ClientsInv(s), NEW accesses \in Seq(Accesses),
         \A k \in KeysOf(accesses) : Free(s, k),
         NEW out, out = ExecCommand(s, accesses)
  PROVE  Goes(s, out, exact)
<1> DEFINE len == Len(accesses)
           Next1(u, i) == IF u.panic THEN u ELSE Call(u, accesses[i])
           Solves(f) == f = [i \in 0 .. len |-> CASE i = 0 -> s
                                                [] i # 0 /\ f[i - 1].panic -> f[i - 1]
                                                [] OTHER -> Call(f[i - 1], accesses[i])]
           S == [i \in 0 .. len |-> {u \in States : Goes(s, u, exact)}]
           F == [x \in States \X (1 .. len) |-> Next1(x[1], x[2])]
           after == CHOOSE f : Solves(f)
<1>1. len \in Nat
  OBVIOUS
<1>2. s \in S[0]
  BY <1>1, GoesNowhere DEF VmInv
<1>3. ASSUME NEW i \in 1 .. len, NEW t \in S[i - 1]
      PROVE  Next1(t, i) \in S[i] /\ F[<<t, i>>] = Next1(t, i)
  <2>1. i - 1 \in 0 .. len /\ i \in 0 .. len
    BY <1>1
  <2>2. t \in {u \in States : Goes(s, u, exact)}
    BY <2>1
  <2>3. /\ accesses[i] \in Accesses
        /\ accesses[i].op # "replace" => accesses[i].key \in KeysOf(accesses)
    BY DEF KeysOf
  <2>4. VmInv(t, exact) /\ ClientsInv(t) /\ t.job = s.job
    BY <2>2 DEF Goes, Steps, Calm
  <2>5. accesses[i].op # "replace" => Free(t, accesses[i].key)
    BY <2>3, <2>4 DEF Free
  <2> DEFINE u == Next1(t, i)
  <2>6. u = IF t.panic THEN t ELSE Call(t, accesses[i])
    OBVIOUS
  <2> HIDE DEF u
  <2>7. Goes(t, u, exact)
    <3>1. CASE t.panic
      BY <2>4, <2>6, <3>1, GoesNowhere
    <3>2. CASE ~t.panic
      BY <2>3, <2>4, <2>5, <2>6, <3>2, CallGoes
    <3> QED
      BY <3>1, <3>2
  <2>8. Next1(t, i) \in S[i]
    <3>1. Goes(s, u, exact) /\ u \in States
      BY <2>7, <2>2, GoesOn DEF VmInv, Goes, Steps
    <3> QED
      BY <2>1, <3>1 DEF u
  <2>9. F[<<t, i>>] = Next1(t, i)
    BY <2>1, <2>2
  <2> QED
    BY <2>8, <2>9
<1> HIDE DEF S, F
<1>4. \E f : Recursive(f, len, s, F) /\ \A i \in 0 .. len : f[i] \in S[i]
  <2> HIDE DEF len
  <2> QED
    BY <1>1, <1>2, <1>3, RecursionStays
<1>5. \E f : Solves(f)
  <2>1. PICK f : Recursive(f, len, s, F) /\ \A i \in 0 .. len : f[i] \in S[i]
    BY <1>4
  <2>2. f = [i \in 0 .. len |-> IF i = 0 THEN s ELSE F[<<f[i - 1], i>>]]
    BY <2>1 DEF Recursive
  <2>3. \A i \in 0 .. len : i # 0 => F[<<f[i - 1], i>>] = Next1(f[i - 1], i)
    <3>1. \A i \in 0 .. len : i # 0 => i \in 1 .. len /\ i - 1 \in 0 .. len
      BY <1>1
    <3> QED
      BY <1>3, <2>1, <3>1
  <2>4. Solves(f)
    BY <2>2, <2>3, Zenon
  <2> QED
    BY <2>4
<1>6. Solves(after)
  <2> HIDE DEF Solves
  <2> QED
    BY <1>5
<1>7. after[len] = out
  BY DEF ExecCommand
<1> HIDE DEF after
<1>8. after[0] = s /\ \A i \in 1 .. len : after[i] = Next1(after[i - 1], i)
  <2> HIDE DEF len
  <2> QED
    BY <1>1, <1>6
<1>9. \A i \in 0 .. len : after[i] \in S[i]
  <2>1. \A i \in 1 .. len : after[i - 1] \in S[i - 1] => after[i] \in S[i]
    BY <1>3, <1>8
  <2> HIDE DEF len
  <2> QED
    BY <1>1, <1>2, <1>8, <2>1, StepByStep
<1>10. after[len] \in S[len]
  BY <1>1, <1>9
<1> QED
  BY <1>1, <1>7, <1>10 DEF S

-----------------------------------------------------------------------------
(* Waiting for the keys of a command.                                      *)

\* c is looked at, and may wait for keys already.
Looked(s, c) == Agree(s) /\ ReadyOnce(s) /\ WaitersPaused(s, {c})

LooksOn(s, t, c, exact) == Steps(s, t, exact) /\ Looked(t, c)

LEMMA LooksOnTransitive ==
  ASSUME NEW exact, NEW c, NEW s \in States, NEW t, NEW u,
         LooksOn(s, t, c, exact), LooksOn(t, u, c, exact)
  PROVE  LooksOn(s, u, c, exact)
  BY StepsTransitive DEF LooksOn

LEMMA SameLooks ==
  ASSUME NEW exact, NEW c, NEW s \in States, Looked(s, c),
         NEW t, VmInv(t, exact), Calm(s, t), SameClients(s, t)
  PROVE  LooksOn(s, t, c, exact)
<1>1. Looked(t, c)
  BY DEF Looked, Agree, ReadyOnce, WaitersPaused, IoWait, SameClients
<1> QED
  BY <1>1, SameClientsStep DEF LooksOn

\* c waits for k as well.
Blocked(s, c, k) == [s EXCEPT !.wants[c] = Append(@, k), !.io_keys[k] = Append(@, c)]

LEMMA WaitAdded ==
  ASSUME NEW exact, NEW s, VmInv(s, exact), NEW c \in Clients, NEW k \in Keys,
         Looked(s, c), ~IoWait(s, c),
         NEW t, t = Blocked(s, c, k)
  PROVE  /\ LooksOn(s, t, c, exact) /\ t.key = s.key
         /\ ActiveJobs(t, k) = ActiveJobs(s, k)
<1> DEFINE q == Append(s.wants[c], k)
           r == Append(s.io_keys[k], c)
           wants == [s.wants EXCEPT ![c] = q]
           io_keys == [s.io_keys EXCEPT ![k] = r]
<1>1. s \in States /\ s.wants[c] \in Seq(Keys) /\ s.io_keys[k] \in Seq(Clients)
  BY ListsTyped DEF VmInv
<1>2. /\ q \in Seq(Keys) /\ r \in Seq(Clients)
      /\ \A l : Count(q, l) = Count(s.wants[c], l) + (IF k = l THEN 1 ELSE 0)
      /\ \A d : Count(r, d) = Count(s.io_keys[k], d) + (IF c = d THEN 1 ELSE 0)
  <2>1. ASSUME NEW l PROVE Count(q, l) = Count(s.wants[c], l) + (IF k = l THEN 1 ELSE 0)
    BY <1>1, CountAppend
  <2>2. ASSUME NEW d PROVE Count(r, d) = Count(s.io_keys[k], d) + (IF c = d THEN 1 ELSE 0)
    BY <1>1, CountAppend
  <2>3. q \in Seq(Keys) /\ r \in Seq(Clients)
    BY <1>1
  <2> QED
    BY <2>1, <2>2, <2>3
<1>3. q # <<>>
  BY <1>1
<1>4. t = [s EXCEPT !.wants = wants, !.io_keys = io_keys]
  BY <1>1 DEF States, Blocked
<1> HIDE DEF q, r
<1>5. /\ wants \in KeyLists /\ wants[c] = q
      /\ \A d \in Clients : d # c => wants[d] = s.wants[d]
  BY <1>1, <1>2, ListsTyped, ListChanged DEF KeyLists
<1>6. /\ io_keys \in ClientLists /\ io_keys[k] = r
      /\ \A l \in Keys : l # k => io_keys[l] = s.io_keys[l]
  BY <1>1, <1>2, ListsTyped, ListChanged DEF ClientLists
<1> HIDE DEF wants, io_keys
<1>7. /\ t \in States /\ t.wants = wants /\ t.io_keys = io_keys
      /\ t.key = s.key /\ t.used = s.used /\ t.file = s.file /\ t.newjobs = s.newjobs
      /\ t.processed = s.processed /\ t.pipe = s.pipe /\ t.thread = s.thread /\ t.job = s.job
      /\ t.panic = s.panic /\ t.data = s.data /\ t.risked = s.risked /\ t.cmd = s.cmd /\ t.ready = s.ready
  BY <1>1, <1>4, <1>5, <1>6 DEF States
<1>8. Agree(t)
  <2> SUFFICES ASSUME NEW d \in Clients, NEW l \in Keys
               PROVE  Count(wants[d], l) = Count(io_keys[l], d)
    BY <1>7 DEF Agree
  <2>1. /\ Count(wants[d], l) = Count(s.wants[d], l) + (IF d = c /\ l = k THEN 1 ELSE 0)
        /\ Count(io_keys[l], d) = Count(s.io_keys[l], d) + (IF d = c /\ l = k THEN 1 ELSE 0)
    <3>1. Count(s.wants[d], l) \in Nat /\ Count(s.io_keys[l], d) \in Nat
      BY <1>1, ListsTyped, CountIsNat
    <3> QED
      BY <1>2, <1>5, <1>6, <3>1
  <2>2. Count(s.wants[d], l) = Count(s.io_keys[l], d)
    BY DEF Looked, Agree
  <2> QED
    BY <2>1, <2>2
<1>9. ReadyOnce(t)
  <2> SUFFICES ASSUME NEW d \in Clients
               PROVE  Count(t.ready, d) = IF IoWait(t, d) /\ t.wants[d] = <<>> THEN 1 ELSE 0
    BY DEF ReadyOnce
  <2>1. Count(s.ready, d) = IF IoWait(s, d) /\ s.wants[d] = <<>> THEN 1 ELSE 0
    BY DEF Looked, ReadyOnce
  <2>2. IoWait(t, d) = IoWait(s, d) /\ t.ready = s.ready
    BY <1>7 DEF IoWait
  <2>3. CASE d = c
    BY <2>1, <2>2, <2>3
  <2>4. CASE d # c
    BY <1>5, <1>7, <2>1, <2>2, <2>4
  <2> QED
    BY <2>3, <2>4
<1>10. WaitersPaused(t, {c})
  BY <1>5, <1>7 DEF Looked, WaitersPaused, IoWait
<1>11. VmInv(t, exact) /\ Calm(s, t) /\ ActiveJobs(t, k) = ActiveJobs(s, k)
  BY <1>7, ListsApart
<1>12. Keeps(s.ready, t.ready)
  BY <1>1, <1>7, ListsTyped DEF Keeps
<1> QED
  BY <1>7, <1>8, <1>9, <1>10, <1>11, <1>12 DEF LooksOn, Steps, Looked

LEMMA KeyWaitedFor ==
  ASSUME NEW exact, NEW s, VmInv(s, exact), NEW c \in Clients, NEW k \in Keys, Free(s, k),
         Looked(s, c), ~IoWait(s, c),
         NEW t, t = WaitForSwappedKey(s, c, k)
  PROVE  LooksOn(s, t, c, exact)
<1>1. s \in States /\ s.key[k] \in KeyObjects
  BY DEF VmInv, States, KeyTables
<1>2. CASE s.key[k].storage \in {"absent", "MEMORY"}
  <2>1. t = s
    BY <1>2 DEF WaitForSwappedKey
  <2>2. Calm(s, s) /\ SameClients(s, s)
    BY DEF Calm, SameClients
  <2> QED
    BY <1>1, <2>1, <2>2, SameLooks
<1>3. CASE s.key[k].storage = "SWAPPING"
  <2>1. t = CancelThreadedIOJob(s, k)
    BY <1>3 DEF WaitForSwappedKey
  <2>2. Cancelled(s, t, k, exact)
    BY <1>3, <2>1, JobCancelled DEF Free
  <2> QED
    BY <1>1, <2>2, SameLooks DEF Cancelled
<1>4. CASE s.key[k].storage \in {"SWAPPED", "LOADING"}
  <2> DEFINE u == Blocked(s, c, k)
             job == Job("LOAD", k, None, s.key[k].page)
  <2>1. t = IF s.key[k].storage = "LOADING" THEN u
            ELSE QueueIOJob([u EXCEPT !.key[k].storage = "LOADING"], job)
    BY <1>4 DEF WaitForSwappedKey, Blocked
  <2>2. u = Blocked(s, c, k)
    OBVIOUS
  <2> HIDE DEF u
  <2>3. LooksOn(s, u, c, exact) /\ u.key = s.key /\ ActiveJobs(u, k) = ActiveJobs(s, k)
    BY <2>2, WaitAdded
  <2>4. CASE s.key[k].storage = "LOADING"
    BY <2>1, <2>3, <2>4
  <2>5. CASE s.key[k].storage = "SWAPPED"
    <3>1. VmInv(u, exact) /\ Looked(u, c) /\ u \in States
      BY <2>3 DEF LooksOn, Steps, VmInv
    <3>2. ActiveJobs(u, k) = {}
      BY <2>3, <2>5, PagesOfKey
    <3>3. job \in NewJobs /\ job.key = k /\ job.type = "LOAD" /\ job.page = u.key[k].page
      BY <1>1, <2>3, ZeroPage DEF Job, NewJobs, JobRecords, JobTypes, KeyObjects
    <3>4. t = QueueIOJob([u EXCEPT !.key[k].storage = "LOADING"], job)
      BY <2>1, <2>5
    <3> HIDE DEF job
    <3>5. VmInv(t, exact) /\ Calm(u, t) /\ SameClients(u, t)
      BY <2>3, <2>5, <3>1, <3>2, <3>3, <3>4, KeyQueued
    <3>6. LooksOn(u, t, c, exact)
      BY <3>1, <3>5, SameLooks
    <3> QED
      BY <1>1, <2>3, <3>6, LooksOnTransitive
  <2> QED
    BY <1>4, <2>4, <2>5
<1> QED
  BY <1>1, <1>2, <1>3, <1>4 DEF KeyObjects, Storages

\* The keys of every command are looked at.
LEMMA KeysWaitedFor ==
  ASSUME NEW exact, NEW s, VmInv(s, exact), NEW c \in Clients, Looked(s, c), ~IoWait(s, c),
         NEW accesses \in Seq(Accesses), \A k \in KeysOf(accesses) : Free(s, k),
         NEW out, out = ExecBlockClientOnSwappedKeys(s, c, accesses)
  PROVE  LooksOn(s, out, c, exact)
<1> DEFINE len == Len(accesses)
           Solves(f) ==
             f = [i \in 0 .. len |->
                    IF i = 0 THEN s ELSE WaitForMultipleSwappedKeys(f[i - 1], c, accesses[i])]
           S == [i \in 0 .. len |-> {u \in States : LooksOn(s, u, c, exact)}]
           F == [x \in States \X (1 .. len) |-> WaitForMultipleSwappedKeys(x[1], c, accesses[x[2]])]
           after == CHOOSE f : Solves(f)
<1>1. len \in Nat
  OBVIOUS
<1>2. s \in S[0]
  <2>1. s \in States /\ Calm(s, s) /\ SameClients(s, s)
    BY DEF VmInv, Calm, SameClients
  <2>2. LooksOn(s, s, c, exact)
    BY <2>1, SameLooks
  <2> QED
    BY <1>1, <2>1, <2>2
<1>3. ASSUME NEW i \in 1 .. len, NEW t \in S[i - 1]
      PROVE  /\ WaitForMultipleSwappedKeys(t, c, accesses[i]) \in S[i]
             /\ F[<<t, i>>] = WaitForMultipleSwappedKeys(t, c, accesses[i])
  <2>1. i - 1 \in 0 .. len /\ i \in 0 .. len
    BY <1>1
  <2>2. t \in {u \in States : LooksOn(s, u, c, exact)}
    BY <2>1
  <2>3. /\ accesses[i].key \in Keys
        /\ Preloads(accesses[i]) => accesses[i].key \in KeysOf(accesses)
    BY DEF KeysOf, Accesses, Preloads
  <2>4. /\ VmInv(t, exact) /\ Looked(t, c) /\ t.job = s.job /\ t.cmd = s.cmd
    BY <2>2 DEF LooksOn, Steps, Calm
  <2>5. (Preloads(accesses[i]) => Free(t, accesses[i].key)) /\ ~IoWait(t, c)
    BY <2>3, <2>4 DEF Free, IoWait
  <2> DEFINE u == WaitForSwappedKey(t, c, accesses[i].key)
  <2>6. u = WaitForSwappedKey(t, c, accesses[i].key)
    OBVIOUS
  <2> HIDE DEF u
  <2>7. Preloads(accesses[i]) => LooksOn(t, u, c, exact)
    BY <2>3, <2>4, <2>5, <2>6, KeyWaitedFor
  <2>8. WaitForMultipleSwappedKeys(t, c, accesses[i]) \in S[i]
    <3>0. s \in States
      BY DEF VmInv
    <3>1. Preloads(accesses[i]) => LooksOn(s, u, c, exact) /\ u \in States
      BY <2>7, <2>2, <3>0, LooksOnTransitive DEF VmInv, LooksOn, Steps
    <3>2. /\ Preloads(accesses[i]) => WaitForMultipleSwappedKeys(t, c, accesses[i]) = u
          /\ ~Preloads(accesses[i]) => WaitForMultipleSwappedKeys(t, c, accesses[i]) = t
      BY DEF WaitForMultipleSwappedKeys, u
    <3> HIDE DEF KeysOf
    <3> QED
      BY <2>1, <2>2, <3>1, <3>2
  <2>9. F[<<t, i>>] = WaitForMultipleSwappedKeys(t, c, accesses[i])
    BY <2>1, <2>2
  <2> QED
    BY <2>8, <2>9
<1> HIDE DEF S, F
<1>4. \E f : Recursive(f, len, s, F) /\ \A i \in 0 .. len : f[i] \in S[i]
  <2> HIDE DEF len
  <2> QED
    BY <1>1, <1>2, <1>3, RecursionStays
<1>5. \E f : Solves(f)
  <2>1. PICK f : Recursive(f, len, s, F) /\ \A i \in 0 .. len : f[i] \in S[i]
    BY <1>4
  <2>2. f = [i \in 0 .. len |-> IF i = 0 THEN s ELSE F[<<f[i - 1], i>>]]
    BY <2>1 DEF Recursive
  <2>3. \A i \in 0 .. len :
          i # 0 => F[<<f[i - 1], i>>] = WaitForMultipleSwappedKeys(f[i - 1], c, accesses[i])
    <3>1. \A i \in 0 .. len : i # 0 => i \in 1 .. len /\ i - 1 \in 0 .. len
      BY <1>1
    <3> QED
      BY <1>3, <2>1, <3>1
  <2>4. Solves(f)
    BY <2>2, <2>3, Zenon
  <2> QED
    BY <2>4
<1>6. Solves(after)
  <2> HIDE DEF Solves
  <2> QED
    BY <1>5
<1>7. after[len] = out
  BY DEF ExecBlockClientOnSwappedKeys
<1> HIDE DEF after
<1>8. /\ after[0] = s
      /\ \A i \in 1 .. len :
           after[i] = WaitForMultipleSwappedKeys(after[i - 1], c, accesses[i])
  <2> HIDE DEF len
  <2> QED
    BY <1>1, <1>6
<1>9. \A i \in 0 .. len : after[i] \in S[i]
  <2>1. \A i \in 1 .. len : after[i - 1] \in S[i - 1] => after[i] \in S[i]
    BY <1>3, <1>8
  <2> HIDE DEF len
  <2> QED
    BY <1>1, <1>2, <1>8, <2>1, StepByStep
<1>10. after[len] \in S[len]
  BY <1>1, <1>9
<1> QED
  BY <1>1, <1>7, <1>10 DEF S

\* What every handler of the main thread comes to.
Handled(s, t, exact) == VmInv(t, exact) /\ ClientsInv(t) /\ Calm(s, t)

LEMMA ClientBlocked ==
  ASSUME NEW exact, NEW s, VmInv(s, exact), ClientsInv(s), NEW c \in Clients, ~IoWait(s, c),
         NEW accesses \in Requests, \A k \in KeysOf(accesses) : Free(s, k),
         NEW out, out = BlockClientOnSwappedKeys(s, c, accesses)
  PROVE  Handled(s, out, exact)
<1> DEFINE t == ExecBlockClientOnSwappedKeys(s, c, accesses)
           cmd == [t.cmd EXCEPT ![c] = accesses]
<1>1. accesses \in Seq(Accesses) /\ accesses # <<>>
  BY RequestsAssumption
<1>2. out = IF t.wants[c] # <<>> THEN [t EXCEPT !.cmd[c] = accesses] ELSE t
  BY DEF BlockClientOnSwappedKeys
<1>3. t = ExecBlockClientOnSwappedKeys(s, c, accesses)
  OBVIOUS
<1> HIDE DEF t
<1>4. LooksOn(s, t, c, exact)
  <2>1. Looked(s, c)
    BY DEF ClientsInv, Looked, WaitersPaused
  <2> QED
    BY <1>1, <1>3, <2>1, KeysWaitedFor
<1>5. /\ VmInv(t, exact) /\ Calm(s, t) /\ t.cmd = s.cmd /\ Agree(t) /\ ReadyOnce(t)
      /\ WaitersPaused(t, {c}) /\ t \in States
  BY <1>4 DEF LooksOn, Steps, Looked, VmInv
<1>6. CASE t.wants[c] = <<>>
  <2>1. WaitersPaused(t, {})
    BY <1>5, <1>6 DEF WaitersPaused
  <2> QED
    BY <1>2, <1>5, <1>6, <2>1 DEF Handled, ClientsInv
<1>7. CASE t.wants[c] # <<>>
  <2>1. out = [t EXCEPT !.cmd = cmd]
    BY <1>2, <1>7
  <2>2. /\ cmd \in Commands /\ cmd[c] = accesses
        /\ \A d \in Clients : d # c => cmd[d] = t.cmd[d]
    BY <1>5 DEF States, Commands
  <2> HIDE DEF cmd
  <2>3. /\ out \in States
        /\ out.key = t.key /\ out.used = t.used /\ out.file = t.file
        /\ out.newjobs = t.newjobs /\ out.processed = t.processed /\ out.pipe = t.pipe
        /\ out.thread = t.thread /\ out.job = t.job /\ out.panic = t.panic
        /\ out.data = t.data /\ out.risked = t.risked
        /\ out.wants = t.wants /\ out.io_keys = t.io_keys /\ out.ready = t.ready
        /\ out.cmd = cmd
    BY <1>5, <2>1, <2>2 DEF States
  <2>4. VmInv(out, exact) /\ Calm(t, out)
    BY <1>5, <2>3, ListsApart
  <2>5. Agree(out)
    BY <1>5, <2>3 DEF Agree
  <2>6. ReadyOnce(out)
    <3> SUFFICES ASSUME NEW d \in Clients
                 PROVE  Count(t.ready, d) = IF IoWait(out, d) /\ t.wants[d] = <<>> THEN 1 ELSE 0
      BY <2>3 DEF ReadyOnce
    <3>1. Count(t.ready, d) = IF IoWait(t, d) /\ t.wants[d] = <<>> THEN 1 ELSE 0
      BY <1>5 DEF ReadyOnce
    <3>2. d # c => IoWait(out, d) = IoWait(t, d)
      BY <2>2, <2>3 DEF IoWait
    <3> QED
      BY <1>7, <3>1, <3>2
  <2>7. WaitersPaused(out, {})
    BY <1>1, <1>5, <2>2, <2>3 DEF WaitersPaused, IoWait, NoCmd
  <2> QED
    BY <1>5, <2>4, <2>5, <2>6, <2>7 DEF Handled, ClientsInv, Calm
<1> QED
  BY <1>6, <1>7

\* A key that a handler does not have to wait for is in no thread's hands.
LEMMA KeysFree ==
  ASSUME NEW exact, NEW s, VmInv(s, exact), NEW keys, Cancellable(s, keys),
         NEW k \in Keys, k \in keys
  PROVE  Free(s, k)
<1> SUFFICES ASSUME NEW job \in JobsIn(s.job, k) PROVE FALSE
  BY DEF Free
<1>1. s.job \in Hands /\ \A t \in Threads : s.thread[t] = "work" <=> s.job[t] # NoJob
  BY DEF VmInv, States, Queues
<1>2. PICK t \in DOMAIN s.job : Active(s.job, t, k) /\ job = s.job[t]
  BY InList
<1>3. t \in Threads /\ s.job[t].key = k
  BY <1>1, <1>2 DEF Hands, Active
<1>4. s.job[t] # NoJob
  BY <1>3, VmAssumption DEF NoJob, Job
<1> QED
  BY <1>1, <1>3, <1>4 DEF Cancellable

LEMMA KeysOfAccesses ==
  ASSUME NEW accesses \in Seq(Accesses)
  PROVE  KeysOf(accesses) \subseteq Keys
<1>1. \A i \in DOMAIN accesses : accesses[i] \in Accesses
  OBVIOUS
<1>2. \A access \in Accesses : access.key \in Keys
  BY DEF Accesses
<1> QED
  BY <1>1, <1>2 DEF KeysOf

LEMMA HandledOn ==
  ASSUME NEW exact, NEW s, NEW t, NEW u, Handled(s, t, exact), Handled(t, u, exact)
  PROVE  Handled(s, u, exact)
  BY DEF Handled, Calm

LEMMA CommandProcessed ==
  ASSUME NEW exact, VmInv(vm, exact), ClientsInv(vm), NEW c \in Clients, ProcessCommand(c)
  PROVE  Handled(vm, vm', exact)
<1>1. PICK accesses \in Requests :
        LET s == BlockClientOnSwappedKeys(vm, c, accesses)
        IN  /\ ~IoWait(vm, c) /\ Cancellable(vm, KeysOf(accesses))
            /\ vm' = IF IoWait(s, c) THEN s ELSE ExecCommand(s, accesses)
  BY DEF ProcessCommand
<1> DEFINE s == BlockClientOnSwappedKeys(vm, c, accesses)
           t == ExecCommand(s, accesses)
<1>2. ~IoWait(vm, c) /\ Cancellable(vm, KeysOf(accesses)) /\ vm' \in {s, t}
  BY <1>1
<1>3. accesses \in Seq(Accesses) /\ s = BlockClientOnSwappedKeys(vm, c, accesses)
  BY RequestsAssumption
<1>4. t = ExecCommand(s, accesses)
  OBVIOUS
<1> HIDE DEF s, t
<1>5. \A k \in KeysOf(accesses) : Free(vm, k)
  BY <1>2, <1>3, KeysOfAccesses, KeysFree
<1>6. Handled(vm, s, exact)
  BY <1>2, <1>3, <1>5, ClientBlocked
<1>7. \A k \in KeysOf(accesses) : Free(s, k)
  BY <1>5, <1>6 DEF Handled, Calm, Free
<1>8. VmInv(s, exact) /\ ClientsInv(s)
  BY <1>6 DEF Handled
<1>9. Goes(s, t, exact)
  BY <1>3, <1>4, <1>7, <1>8, AccessesGo
<1>10. Handled(s, t, exact)
  BY <1>9 DEF Goes, Steps, Handled
<1> QED
  BY <1>2, <1>6, <1>10, HandledOn

-----------------------------------------------------------------------------
(* Resuming and freeing clients.                                           *)

\* c is not suspended any more; q is left of the ready clients.
Released(s, c, q) ==
  [s EXCEPT !.ready = q, !.cmd[c] = NoCmd, !.stranded = @ \ {c}]

ReleasedOne(s, t, c, q, exact) ==
  /\ Handled(s, t, exact) /\ t.ready = q
  /\ \A d \in Clients : t.cmd[d] \in {s.cmd[d], NoCmd}

LEMMA ClientReleased ==
  ASSUME NEW exact, NEW s, VmInv(s, exact), Agree(s), WaitersPaused(s, {}),
         NEW c \in Clients, s.wants[c] = <<>>,
         NEW q \in Seq(Clients), Count(q, c) = 0,
         \A d \in Clients : d # c =>
           Count(q, d) = IF IoWait(s, d) /\ s.wants[d] = <<>> THEN 1 ELSE 0,
         NEW t, t = Released(s, c, q)
  PROVE  ReleasedOne(s, t, c, q, exact)
<1> DEFINE cmd == [s.cmd EXCEPT ![c] = NoCmd]
           stranded == s.stranded \ {c}
<1>1. s \in States /\ s.cmd \in Commands /\ s.stranded \in ClientSets
  BY DEF VmInv, States
<1>2. t = [s EXCEPT !.ready = q, !.cmd = cmd, !.stranded = stranded]
  BY <1>1 DEF Released, States
<1>3. /\ cmd \in Commands /\ cmd[c] = NoCmd
      /\ \A d \in Clients : d # c => cmd[d] = s.cmd[d]
  BY <1>1 DEF Commands
<1>4. stranded \in ClientSets /\ q \in Ready
  BY <1>1 DEF ClientSets, Ready
<1> HIDE DEF cmd, stranded
<1>5. /\ t \in States
      /\ t.key = s.key /\ t.used = s.used /\ t.file = s.file
      /\ t.newjobs = s.newjobs /\ t.processed = s.processed /\ t.pipe = s.pipe
      /\ t.thread = s.thread /\ t.job = s.job /\ t.panic = s.panic /\ t.data = s.data /\ t.risked = s.risked
      /\ t.wants = s.wants /\ t.io_keys = s.io_keys /\ t.ready = q /\ t.cmd = cmd
  BY <1>1, <1>2, <1>3, <1>4, ZenonT(40) DEF States
<1>6. VmInv(t, exact) /\ Calm(s, t)
  BY <1>5, ListsApart
<1>7. Agree(t)
  BY <1>5 DEF Agree
<1>8. ReadyOnce(t)
  <2> SUFFICES ASSUME NEW d \in Clients
               PROVE  Count(q, d) = IF IoWait(t, d) /\ s.wants[d] = <<>> THEN 1 ELSE 0
    BY <1>5 DEF ReadyOnce
  <2>1. CASE d = c
    BY <1>3, <1>5, <2>1 DEF IoWait
  <2>2. CASE d # c
    <3>1. IoWait(t, d) = IoWait(s, d)
      BY <1>3, <1>5, <2>2 DEF IoWait
    <3> QED
      BY <2>2, <3>1
  <2> QED
    BY <2>1, <2>2
<1>9. WaitersPaused(t, {})
  BY <1>3, <1>5 DEF WaitersPaused, IoWait
<1>10. \A d \in Clients : t.cmd[d] \in {s.cmd[d], NoCmd}
  BY <1>3, <1>5
<1> QED
  BY <1>5, <1>6, <1>7, <1>8, <1>9, <1>10 DEF ReleasedOne, Handled, ClientsInv

LEMMA CommandsTyped ==
  ASSUME NEW s \in States, NEW c \in Clients
  PROVE  s.cmd[c] \in Seq(Accesses)
<1>1. s.cmd[c] \in Requests \cup {NoCmd}
  BY DEF States, Commands
<1>2. NoCmd \in Seq(Accesses)
  BY DEF NoCmd
<1>3. \A accesses \in Requests : accesses \in Seq(Accesses)
  BY RequestsAssumption
<1> QED
  BY <1>1, <1>2, <1>3

\* The first client that is ready goes on.
Resumed(s, t, exact) ==
  /\ Handled(s, t, exact) /\ Keeps(Tail(s.ready), t.ready)
  /\ \A d \in Clients : t.cmd[d] \in {s.cmd[d], NoCmd}

LEMMA ClientResumed ==
  ASSUME NEW exact, NEW s, VmInv(s, exact), ClientsInv(s), s.ready # <<>>,
         NEW c, c = Head(s.ready), \A k \in KeysOf(s.cmd[c]) : Free(s, k),
         NEW out, out = Resume(s, c)
  PROVE  Resumed(s, out, exact)
<1> DEFINE q == Tail(s.ready)
           t == Released(s, c, q)
           accesses == s.cmd[c]
<1>1. s \in States /\ s.ready \in Seq(Clients) /\ s.cmd \in Commands
  BY ListsTyped DEF VmInv, States
<1>2. c \in Clients /\ s.ready[1] = c /\ 1 \in DOMAIN s.ready
  BY <1>1
<1>3. q \in Seq(Clients)
      /\ \A d : Count(q, d) = Count(s.ready, d) - (IF d = c THEN 1 ELSE 0)
  <2>1. ASSUME NEW d PROVE q \in Seq(Clients)
                           /\ Count(q, d) = Count(s.ready, d) - (IF d = c THEN 1 ELSE 0)
    BY <1>1, CountTail
  <2> QED
    BY <2>1
<1>4. Count(s.ready, c) \in Nat /\ Count(s.ready, c) # 0
  BY <1>1, <1>2, CountIsNat
<1>5. \A d \in Clients : Count(s.ready, d) = IF IoWait(s, d) /\ s.wants[d] = <<>> THEN 1 ELSE 0
  BY DEF ClientsInv, ReadyOnce
<1>6. s.wants[c] = <<>> /\ Count(s.ready, c) = 1
  BY <1>2, <1>4, <1>5
<1>7. \A d \in Clients : Count(s.ready, d) \in Nat
  BY <1>1, CountIsNat
<1>8. Count(q, c) = 0
  BY <1>3, <1>6
<1>9. \A d \in Clients : d # c =>
        Count(q, d) = IF IoWait(s, d) /\ s.wants[d] = <<>> THEN 1 ELSE 0
  BY <1>3, <1>5, <1>7
<1>10. accesses \in Seq(Accesses)
  BY <1>1, <1>2, CommandsTyped
<1>11. out = ExecCommand(t, accesses)
  BY DEF Resume, Released
<1>12. t = Released(s, c, q)
  OBVIOUS
<1>13. Agree(s) /\ WaitersPaused(s, {})
  BY DEF ClientsInv
<1>14. q = Tail(s.ready)
  OBVIOUS
<1> HIDE DEF q, t, accesses
<1>15. ReleasedOne(s, t, c, q, exact)
  BY <1>2, <1>3, <1>6, <1>8, <1>9, <1>12, <1>13, ClientReleased
<1>16. /\ Handled(s, t, exact) /\ VmInv(t, exact) /\ ClientsInv(t) /\ t.ready = q /\ t.job = s.job
       /\ \A d \in Clients : t.cmd[d] \in {s.cmd[d], NoCmd}
  BY <1>15 DEF ReleasedOne, Handled, Calm
<1>17. \A k \in KeysOf(accesses) : Free(t, k)
  BY <1>16 DEF accesses, Free
<1>18. Goes(t, out, exact)
  BY <1>10, <1>11, <1>16, <1>17, AccessesGo
<1>19. /\ Handled(t, out, exact) /\ Keeps(q, out.ready) /\ out.cmd = t.cmd
  BY <1>16, <1>18 DEF Goes, Steps, Handled
<1> QED
  BY <1>14, <1>16, <1>19, HandledOn DEF Resumed

\* What is left of the ready clients after i of them.
After(r, q, i) == Len(q) >= Len(r) - i /\ \A j \in 1 .. Len(r) - i : q[j] = r[i + j]

LEMMA ClientsResumed ==
  ASSUME NEW exact, VmInv(vm, exact), ClientsInv(vm), BeforeSleep
  PROVE  Handled(vm, vm', exact)
<1> DEFINE len == Len(vm.ready)
           Solves(f) == f = [i \in 0 .. len |-> IF i = 0 THEN vm
                                                ELSE Resume(f[i - 1], vm.ready[i])]
           S == [i \in 0 .. len |-> {u \in States :
                      /\ Handled(vm, u, exact) /\ After(vm.ready, u.ready, i)
                      /\ \A d \in Clients : u.cmd[d] \in {vm.cmd[d], NoCmd}}]
           F == [x \in States \X (1 .. len) |-> Resume(x[1], vm.ready[x[2]])]
           after == CHOOSE f : Solves(f)
<1>1. len \in Nat
  BY ListsTyped DEF VmInv
<1>2. vm \in S[0]
  <2>1. vm \in States /\ Handled(vm, vm, exact)
    BY DEF VmInv, Handled, Calm
  <2>2. vm.ready \in Seq(Clients)
    BY <2>1, ListsTyped
  <2>3. After(vm.ready, vm.ready, 0)
    BY <2>2 DEF After
  <2> QED
    BY <1>1, <2>1, <2>3
<1>3. ASSUME NEW i \in 1 .. len, NEW t \in S[i - 1]
      PROVE  Resume(t, vm.ready[i]) \in S[i] /\ F[<<t, i>>] = Resume(t, vm.ready[i])
  <2>1. i - 1 \in 0 .. len /\ i \in 0 .. len
    BY <1>1
  <2>2. t \in {u \in States :
                      /\ Handled(vm, u, exact) /\ After(vm.ready, u.ready, i - 1)
                      /\ \A d \in Clients : u.cmd[d] \in {vm.cmd[d], NoCmd}}
    BY <2>1
  <2>3. /\ Handled(vm, t, exact) /\ VmInv(t, exact) /\ ClientsInv(t) /\ t.job = vm.job
        /\ t \in States /\ After(vm.ready, t.ready, i - 1)
        /\ \A d \in Clients : t.cmd[d] \in {vm.cmd[d], NoCmd}
    BY <2>2 DEF Handled, Calm
  <2>4. t.ready \in Seq(Clients) /\ vm.ready \in Seq(Clients)
    BY <2>3, ListsTyped DEF VmInv
  <2> DEFINE c == vm.ready[i]
             u == Resume(t, c)
  <2>5. t.ready # <<>> /\ c = Head(t.ready) /\ c \in ToSet(vm.ready) /\ c \in Clients
    <3>1. Len(t.ready) >= 1 /\ t.ready[1] = vm.ready[(i - 1) + 1]
      BY <2>3, <2>4 DEF After
    <3>2. i \in DOMAIN vm.ready
      BY <2>4
    <3> QED
      BY <2>4, <3>1, <3>2 DEF ToSet
  <2>6. \A k \in KeysOf(t.cmd[c]) : Free(t, k)
    <3>1. Cancellable(vm, UNION {KeysOf(vm.cmd[d]) : d \in ToSet(vm.ready)})
      BY DEF BeforeSleep, CanResume
    <3>2. vm.cmd[c] \in Seq(Accesses)
      BY <2>5, CommandsTyped DEF VmInv
    <3>3. \A k \in KeysOf(vm.cmd[c]) : Free(vm, k)
      <4>1. KeysOf(vm.cmd[c]) \subseteq Keys
        BY <3>2, KeysOfAccesses
      <4>2. KeysOf(vm.cmd[c]) \subseteq UNION {KeysOf(vm.cmd[d]) : d \in ToSet(vm.ready)}
        BY <2>5
      <4> QED
        BY <3>1, <4>1, <4>2, KeysFree
    <3>4. KeysOf(NoCmd) = {}
      BY DEF KeysOf, NoCmd
    <3>5. \A k : Free(vm, k) => Free(t, k)
      BY <2>3 DEF Free
    <3> QED
      BY <2>3, <2>5, <3>3, <3>4, <3>5
  <2>7. Resumed(t, u, exact)
    <3>1. u = Resume(t, c)
      OBVIOUS
    <3> HIDE DEF u, c
    <3> QED
      BY <2>3, <2>5, <2>6, <3>1, ClientResumed
  <2> HIDE DEF u
  <2>8. Resume(t, vm.ready[i]) \in S[i]
    <3>1. /\ Handled(t, u, exact) /\ Keeps(Tail(t.ready), u.ready)
          /\ \A d \in Clients : u.cmd[d] \in {t.cmd[d], NoCmd}
      BY <2>7 DEF Resumed
    <3>2. u \in States /\ u.ready \in Seq(Clients)
      BY <3>1, ListsTyped DEF Handled, VmInv
    <3>3. Handled(vm, u, exact)
      BY <2>3, <3>1, HandledOn
    <3>4. After(vm.ready, u.ready, i)
      <4>1. /\ Tail(t.ready) \in Seq(Clients) /\ Len(Tail(t.ready)) = Len(t.ready) - 1
            /\ \A j \in 1 .. Len(t.ready) - 1 : Tail(t.ready)[j] = t.ready[j + 1]
        BY <2>4, <2>5
      <4>2. /\ Len(t.ready) >= Len(vm.ready) - (i - 1)
            /\ \A j \in 1 .. Len(vm.ready) - (i - 1) : t.ready[j] = vm.ready[(i - 1) + j]
        BY <2>3 DEF After
      <4>3. Len(u.ready) >= Len(t.ready) - 1
            /\ \A j \in 1 .. Len(t.ready) - 1 : u.ready[j] = t.ready[j + 1]
        BY <3>1, <4>1 DEF Keeps
      <4>4. ASSUME NEW j \in 1 .. Len(vm.ready) - i PROVE u.ready[j] = vm.ready[i + j]
        <5>0. /\ Len(vm.ready) \in Nat /\ Len(t.ready) \in Nat /\ i \in 1 .. Len(vm.ready)
              /\ Len(t.ready) >= Len(vm.ready) - (i - 1) /\ j \in 1 .. Len(vm.ready) - i
          BY <2>4, <4>2
        <5>1. /\ j + 1 \in 1 .. Len(vm.ready) - (i - 1) /\ j \in 1 .. Len(t.ready) - 1
              /\ (i - 1) + (j + 1) = i + j
          BY <5>0
        <5>2. u.ready[j] = t.ready[j + 1]
          BY <4>3, <5>1
        <5>3. t.ready[j + 1] = vm.ready[(i - 1) + (j + 1)]
          BY <4>2, <5>1
        <5> QED
          BY <5>1, <5>2, <5>3
      <4> QED
        BY <2>4, <3>2, <4>2, <4>3, <4>4 DEF After
    <3>5. \A d \in Clients : u.cmd[d] \in {vm.cmd[d], NoCmd}
      BY <2>3, <3>1
    <3> QED
      BY <2>1, <3>2, <3>3, <3>4, <3>5 DEF u
  <2>9. F[<<t, i>>] = Resume(t, vm.ready[i])
    BY <2>1, <2>2
  <2> QED
    BY <2>8, <2>9
<1> HIDE DEF S, F
<1>4. \E f : Recursive(f, len, vm, F) /\ \A i \in 0 .. len : f[i] \in S[i]
  <2> HIDE DEF len
  <2> QED
    BY <1>1, <1>2, <1>3, RecursionStays
<1>5. \E f : Solves(f)
  <2>1. PICK f : Recursive(f, len, vm, F) /\ \A i \in 0 .. len : f[i] \in S[i]
    BY <1>4
  <2>2. f = [i \in 0 .. len |-> IF i = 0 THEN vm ELSE F[<<f[i - 1], i>>]]
    BY <2>1 DEF Recursive
  <2>3. \A i \in 0 .. len : i # 0 => F[<<f[i - 1], i>>] = Resume(f[i - 1], vm.ready[i])
    <3>1. \A i \in 0 .. len : i # 0 => i \in 1 .. len /\ i - 1 \in 0 .. len
      BY <1>1
    <3> QED
      BY <1>3, <2>1, <3>1
  <2>4. Solves(f)
    BY <2>2, <2>3, Zenon
  <2> QED
    BY <2>4
<1>6. Solves(after)
  <2> HIDE DEF Solves
  <2> QED
    BY <1>5
<1>7. after[len] = vm'
  BY DEF BeforeSleep
<1> HIDE DEF after
<1>8. after[0] = vm /\ \A i \in 1 .. len : after[i] = Resume(after[i - 1], vm.ready[i])
  <2> HIDE DEF len
  <2> QED
    BY <1>1, <1>6
<1>9. \A i \in 0 .. len : after[i] \in S[i]
  <2>1. \A i \in 1 .. len : after[i - 1] \in S[i - 1] => after[i] \in S[i]
    BY <1>3, <1>8
  <2> HIDE DEF len
  <2> QED
    BY <1>1, <1>2, <1>8, <2>1, StepByStep
<1>10. after[len] \in S[len]
  BY <1>1, <1>9
<1> QED
  BY <1>1, <1>7, <1>10 DEF S

\* i of the keys that c waited for are left out.
Forgotten(s, t, c, i, exact) ==
  /\ VmInv(t, exact) /\ Calm(s, t) /\ Agree(t) /\ t.ready = s.ready /\ t.cmd = s.cmd
  /\ \A d \in Clients : d # c => t.wants[d] = s.wants[d]
  /\ Len(t.wants[c]) = Len(s.wants[c]) - i

LEMMA OneForgotten ==
  ASSUME NEW exact, NEW s, NEW c \in Clients, NEW i \in 1 .. Len(s.wants[c]),
         s.wants[c] \in Seq(Keys),
         NEW t, Forgotten(s, t, c, i - 1, exact),
         NEW k, k = Head(t.wants[c]), NEW u, u = DontWaitForSwappedKey(t, c, k)
  PROVE  Forgotten(s, u, c, i, exact)
<1>1. /\ VmInv(t, exact) /\ Calm(s, t) /\ Agree(t) /\ t.ready = s.ready /\ t.cmd = s.cmd
      /\ \A d \in Clients : d # c => t.wants[d] = s.wants[d]
      /\ Len(t.wants[c]) = Len(s.wants[c]) - (i - 1)
  BY DEF Forgotten
<1>2. t \in States /\ t.wants[c] \in Seq(Keys)
  BY <1>1, ListsTyped DEF VmInv
<1>3. Len(t.wants[c]) >= 1
  BY <1>1
<1>4. 1 \in DOMAIN t.wants[c] /\ t.wants[c][1] = k /\ k \in Keys
  BY <1>2, <1>3
<1>5. Count(t.wants[c], k) # 0
  BY <1>2, <1>4, CountIsNat
<1>6. Dropped(t, u, c, k)
  BY <1>1, <1>2, <1>4, <1>5, WaitDropped
<1>7. u \in States /\ u = [t EXCEPT !.wants = u.wants, !.io_keys = u.io_keys]
  BY <1>6, Zenon DEF Dropped
<1>8. /\ u.key = t.key /\ u.used = t.used /\ u.file = t.file
      /\ u.newjobs = t.newjobs /\ u.processed = t.processed /\ u.pipe = t.pipe
      /\ u.thread = t.thread /\ u.job = t.job /\ u.panic = t.panic /\ u.data = t.data /\ u.risked = t.risked
      /\ u.ready = t.ready /\ u.cmd = t.cmd
  BY <1>2, <1>7 DEF States
<1>9. VmInv(u, exact) /\ Calm(t, u)
  BY <1>1, <1>7, <1>8, ListsApart
<1>10. Calm(s, u)
  BY <1>1, <1>9 DEF Calm
<1>11. /\ Agree(u) /\ Len(u.wants[c]) = Len(t.wants[c]) - 1
       /\ \A d \in Clients : d # c => u.wants[d] = t.wants[d]
  BY <1>6, Zenon DEF Dropped
<1>12. Len(u.wants[c]) = Len(s.wants[c]) - i
  <2> DEFINE n == Len(s.wants[c])
  <2>1. n \in Nat /\ i \in Int
    OBVIOUS
  <2>2. Len(u.wants[c]) = n - (i - 1) - 1
    BY <1>1, <1>11, Zenon
  <2> HIDE DEF n
  <2>3. n - (i - 1) - 1 = n - i
    BY <2>1
  <2> QED
    BY <2>2, <2>3, Zenon DEF n
<1>13. /\ u.ready = s.ready /\ u.cmd = s.cmd
       /\ \A d \in Clients : d # c => u.wants[d] = s.wants[d]
  BY <1>1, <1>8, <1>11
<1> QED
  BY <1>9, <1>10, <1>11, <1>12, <1>13 DEF Forgotten

LEMMA ClientFreed ==
  ASSUME NEW exact, VmInv(vm, exact), ClientsInv(vm), NEW c \in Clients, FreeClient(c)
  PROVE  Handled(vm, vm', exact)
<1> DEFINE len == Len(vm.wants[c])
           Solves(f) == f = [i \in 0 .. len |-> IF i = 0 THEN vm
                             ELSE DontWaitForSwappedKey(f[i - 1], c, Head(f[i - 1].wants[c]))]
           S == [i \in 0 .. len |-> {u \in States : Forgotten(vm, u, c, i, exact)}]
           F == [x \in States \X (1 .. len) |-> DontWaitForSwappedKey(x[1], c, Head(x[1].wants[c]))]
           after == CHOOSE f : Solves(f)
<1>1. len \in Nat
  BY ListsTyped DEF VmInv
<1>2. vm \in S[0]
  <2>1. vm \in States /\ Calm(vm, vm) /\ Agree(vm)
    BY DEF VmInv, ClientsInv, Calm
  <2>2. Len(vm.wants[c]) - 0 = Len(vm.wants[c])
    BY <1>1
  <2>3. Forgotten(vm, vm, c, 0, exact)
    BY <2>1, <2>2 DEF Forgotten
  <2> QED
    BY <1>1, <2>1, <2>3
<1>3. ASSUME NEW i \in 1 .. len, NEW t \in S[i - 1]
      PROVE  /\ DontWaitForSwappedKey(t, c, Head(t.wants[c])) \in S[i]
             /\ F[<<t, i>>] = DontWaitForSwappedKey(t, c, Head(t.wants[c]))
  <2>1. i - 1 \in 0 .. len /\ i \in 0 .. len
    BY <1>1
  <2>2. t \in {u \in States : Forgotten(vm, u, c, i - 1, exact)}
    BY <2>1
  <2>3. vm.wants[c] \in Seq(Keys) /\ Forgotten(vm, t, c, i - 1, exact) /\ t \in States
    BY <2>2, ListsTyped DEF VmInv
  <2> DEFINE k == Head(t.wants[c])
             u == DontWaitForSwappedKey(t, c, k)
  <2>4. Forgotten(vm, u, c, i, exact)
    BY <2>3, OneForgotten
  <2>8. DontWaitForSwappedKey(t, c, Head(t.wants[c])) \in S[i]
    <3>1. u \in States
      BY <2>4 DEF Forgotten, VmInv
    <3> QED
      BY <2>1, <2>4, <3>1
  <2>9. F[<<t, i>>] = DontWaitForSwappedKey(t, c, Head(t.wants[c]))
    BY <2>1, <2>2
  <2> QED
    BY <2>8, <2>9
<1> HIDE DEF S, F
<1>4. \E f : Recursive(f, len, vm, F) /\ \A i \in 0 .. len : f[i] \in S[i]
  <2> HIDE DEF len
  <2> QED
    BY <1>1, <1>2, <1>3, RecursionStays
<1>5. \E f : Solves(f)
  <2>1. PICK f : Recursive(f, len, vm, F) /\ \A i \in 0 .. len : f[i] \in S[i]
    BY <1>4
  <2>2. f = [i \in 0 .. len |-> IF i = 0 THEN vm ELSE F[<<f[i - 1], i>>]]
    BY <2>1 DEF Recursive
  <2>3. \A i \in 0 .. len :
          i # 0 => F[<<f[i - 1], i>>] = DontWaitForSwappedKey(f[i - 1], c, Head(f[i - 1].wants[c]))
    <3>1. \A i \in 0 .. len : i # 0 => i \in 1 .. len /\ i - 1 \in 0 .. len
      BY <1>1
    <3> QED
      BY <1>3, <2>1, <3>1
  <2>4. Solves(f)
    BY <2>2, <2>3, Zenon
  <2> QED
    BY <2>4
<1>6. Solves(after)
  <2> HIDE DEF Solves
  <2> QED
    BY <1>5
<1>7. after[len] = after[Len(vm.wants[c])]
  OBVIOUS
<1> HIDE DEF after
<1>8. /\ after[0] = vm
      /\ \A i \in 1 .. len :
           after[i] = DontWaitForSwappedKey(after[i - 1], c, Head(after[i - 1].wants[c]))
  <2> HIDE DEF len
  <2> QED
    BY <1>1, <1>6, SMTT(30)
<1>9. \A i \in 0 .. len : after[i] \in S[i]
  <2>1. \A i \in 1 .. len : after[i - 1] \in S[i - 1] => after[i] \in S[i]
    BY <1>3, <1>8
  <2> HIDE DEF len
  <2> QED
    BY <1>1, <1>2, <1>8, <2>1, StepByStep
<1>10. after[len] \in S[len]
  BY <1>1, <1>9
<1> DEFINE q == RemoveFirst(vm.ready, c)
<1>11. Forgotten(vm, after[len], c, len, exact)
  BY <1>1, <1>10 DEF S
<1>12. vm' = [after[len] EXCEPT !.ready = RemoveFirst(@, c), !.cmd[c] = NoCmd,
                                !.stranded = @ \ {c}]
  BY <1>7 DEF FreeClient, after
<1> DEFINE t == after[len]
<1>13. /\ VmInv(t, exact) /\ Calm(vm, t) /\ Agree(t) /\ t.ready = vm.ready /\ t.cmd = vm.cmd
       /\ \A d \in Clients : d # c => t.wants[d] = vm.wants[d]
       /\ Len(t.wants[c]) = 0 /\ t \in States
  BY <1>1, <1>11 DEF Forgotten, VmInv
<1>14. t.wants[c] = <<>>
  BY <1>13, ListsTyped
<1>15. vm' = Released(t, c, q)
  BY <1>12, <1>13 DEF Released
<1>16. /\ q \in Seq(Clients) /\ vm.ready \in Seq(Clients)
       /\ \A d : Count(q, d) = Count(vm.ready, d)
                               - (IF d = c /\ Count(vm.ready, c) # 0 THEN 1 ELSE 0)
  <2>1. vm.ready \in Seq(Clients)
    BY ListsTyped DEF VmInv
  <2>2. q = RemoveFirst(vm.ready, c)
    OBVIOUS
  <2> HIDE DEF q
  <2> QED
    BY <2>1, <2>2, CountRemoveFirst
<1> HIDE DEF q, t
<1>17. \A d \in Clients :
         /\ Count(vm.ready, d) = IF IoWait(vm, d) /\ vm.wants[d] = <<>> THEN 1 ELSE 0
         /\ IoWait(t, d) = IoWait(vm, d)
  BY <1>13 DEF ClientsInv, ReadyOnce, IoWait
<1>18. Count(q, c) = 0
  BY <1>16, <1>17
<1>19. ASSUME NEW d \in Clients, d # c
       PROVE  Count(q, d) = IF IoWait(t, d) /\ t.wants[d] = <<>> THEN 1 ELSE 0
  BY <1>13, <1>16, <1>17, <1>19
<1>20. WaitersPaused(t, {})
  BY <1>13, <1>14 DEF ClientsInv, WaitersPaused, IoWait
<1>21. ReleasedOne(t, vm', c, q, exact)
  BY <1>13, <1>14, <1>15, <1>16, <1>18, <1>19, <1>20, ClientReleased
<1> QED
  BY <1>13, <1>21 DEF ReleasedOne, Handled, Calm

-----------------------------------------------------------------------------
(* Swapping out.                                                           *)

LEMMA SwapHandled ==
  ASSUME NEW exact, NEW s, VmInv(s, exact), ClientsInv(s), NEW t \in SwapOneObject(s)
  PROVE  Handled(s, t, exact)
<1>1. PICK k \in Swappable(s) : t = SwapObjectThreaded(s, k)
  BY DEF SwapOneObject
<1>2. VmInv(t, exact) /\ Calm(s, t) /\ SameClients(s, t)
  BY <1>1, SwapQueued
<1>3. s \in States
  BY DEF VmInv
<1> QED
  BY <1>2, <1>3, SameClientsStep DEF Handled

\* However many keys are queued after a DO_SWAP.
LEMMA SwapsHandled ==
  ASSUME NEW exact, NEW s, VmInv(s, exact), ClientsInv(s), NEW out \in MoreSwaps(s)
  PROVE  Handled(s, out, exact)
<1> DEFINE G == {u \in States : Handled(s, u, exact)}
           Some(set) == {u \in set : Len(u.newjobs) \in Len(s.newjobs) + 1 .. MaxThreads}
           More(set) == set \cup UNION {SwapOneObject(t) : t \in Some(set)}
           base == {s} \cup SwapOneObject(s)
           len == MaxThreads
           Solves(f) == f = [i \in 0 .. len |-> IF i = 0 THEN base
                                                ELSE More(f[i - 1])]
           S == [i \in 0 .. len |-> SUBSET G]
           F == [x \in (SUBSET G) \X (1 .. len) |-> More(x[1])]
           after == CHOOSE f : Solves(f)
<1>1. len \in Nat
  BY VmAssumption
<1>2. base \in S[0]
  <2>1. Handled(s, s, exact)
    BY DEF Handled, Calm
  <2>2. \A u \in base : Handled(s, u, exact)
    BY <2>1, SwapHandled
  <2>3. \A u : Handled(s, u, exact) => u \in States
    BY DEF Handled, VmInv
  <2> QED
    BY <1>1, <2>2, <2>3
<1>3. ASSUME NEW i \in 1 .. len, NEW t \in S[i - 1]
      PROVE  More(t) \in S[i] /\ F[<<t, i>>] = More(t)
  <2>1. i - 1 \in 0 .. len /\ i \in 0 .. len
    BY <1>1
  <2>2. t \in SUBSET G
    BY <2>1
  <2>3. ASSUME NEW u \in More(t) PROVE u \in G
    <3>1. CASE u \in t
      BY <2>2, <3>1
    <3>2. CASE u \notin t
      <4>1. PICK v \in t : u \in SwapOneObject(v)
        BY <3>2
      <4>2. Handled(s, v, exact)
        BY <2>2, <4>1
      <4>3. Handled(v, u, exact)
        BY <4>1, <4>2, SwapHandled DEF Handled
      <4>4. Handled(s, u, exact) /\ u \in States
        BY <4>2, <4>3, HandledOn DEF Handled, VmInv
      <4> QED
        BY <4>4
    <3> QED
      BY <3>1, <3>2
  <2>8. More(t) \in S[i]
    BY <2>1, <2>3
  <2>9. F[<<t, i>>] = More(t)
    BY <2>1, <2>2
  <2> QED
    BY <2>8, <2>9
<1> HIDE DEF S, F, More, base
<1>4. \E f : Recursive(f, len, base, F) /\ \A i \in 0 .. len : f[i] \in S[i]
  <2> HIDE DEF len
  <2> QED
    BY <1>1, <1>2, <1>3, RecursionStays
<1>5. \E f : Solves(f)
  <2>1. PICK f : Recursive(f, len, base, F) /\ \A i \in 0 .. len : f[i] \in S[i]
    BY <1>4
  <2>2. f = [i \in 0 .. len |-> IF i = 0 THEN base ELSE F[<<f[i - 1], i>>]]
    BY <2>1 DEF Recursive
  <2>3. \A i \in 0 .. len : i # 0 => F[<<f[i - 1], i>>] = More(f[i - 1])
    <3>1. \A i \in 0 .. len : i # 0 => i \in 1 .. len /\ i - 1 \in 0 .. len
      BY <1>1
    <3> QED
      BY <1>3, <2>1, <3>1
  <2>4. Solves(f)
    BY <2>2, <2>3, Zenon
  <2> QED
    BY <2>4
<1>6. Solves(after)
  <2> HIDE DEF Solves
  <2> QED
    BY <1>5
<1>7. after[len] = MoreSwaps(s)
  BY DEF MoreSwaps, More, base
<1> HIDE DEF after
<1>8. after[0] = base /\ \A i \in 1 .. len : after[i] = More(after[i - 1])
  <2> HIDE DEF len
  <2> QED
    BY <1>1, <1>6
<1>9. \A i \in 0 .. len : after[i] \in S[i]
  <2>1. \A i \in 1 .. len : after[i - 1] \in S[i - 1] => after[i] \in S[i]
    BY <1>3, <1>8
  <2> HIDE DEF len
  <2> QED
    BY <1>1, <1>2, <1>8, <2>1, StepByStep
<1>10. after[len] \in S[len]
  BY <1>1, <1>9
<1> QED
  BY <1>1, <1>7, <1>10 DEF S

-----------------------------------------------------------------------------
(* Allocating pages.                                                       *)

LEMMA PagesFound ==
  ASSUME NEW s, NEW n \in Nat \ {0}, NEW base \in Pages,
         NEW page, page = FindContiguousPages(s, n, base), page # -1
  PROVE  page \in Pages /\ Run(page, n) \subseteq Pages \ s.used
<1> DEFINE This(offset) ==
             base + offset - (IF base + offset >= VmPages THEN VmPages ELSE 0)
           Grown(x, offset) ==
             IF This(offset) \in s.used THEN 0 ELSE (IF This(offset) = 0 THEN 0 ELSE x) + 1
           Solves(f) ==
             f = [offset \in -1..(VmPages - 1) |->
                    IF offset = -1 \/ This(offset) \in s.used THEN 0
                    ELSE (IF This(offset) = 0 THEN 0 ELSE f[offset - 1]) + 1]
           numfree == CHOOSE f : Solves(f)
           found == {offset \in Pages : numfree[offset] = n}
           IsFree(offset, m) ==
             m \in Nat /\ \A p \in This(offset) - (m - 1) .. This(offset) : p \in Pages \ s.used
<1>1. VmPages \in Nat /\ Pages = 0 .. VmPages - 1 /\ base \in 0 .. VmPages - 1
  BY ZeroPage DEF Pages
<1>2. page = IF found = {} THEN -1 ELSE This(Min(found)) - (n - 1)
  BY DEF FindContiguousPages
<1>3. \A offset \in Pages : /\ This(offset) \in Pages
                            /\ This(offset) # 0 => This(offset) = This(offset - 1) + 1
  BY <1>1
<1>4. \E f : Solves(f)
  <2> DEFINE G == [x \in Nat \X (1 .. VmPages) |-> Grown(x[1], x[2] - 1)]
             S == [i \in 0 .. VmPages |-> Nat]
  <2>1. \A i \in 1 .. VmPages : \A x \in S[i - 1] :
          G[<<x, i>>] = Grown(x, i - 1) /\ G[<<x, i>>] \in S[i]
    <3> SUFFICES ASSUME NEW i \in 1 .. VmPages, NEW x \in S[i - 1]
                 PROVE  G[<<x, i>>] = Grown(x, i - 1) /\ G[<<x, i>>] \in S[i]
      OBVIOUS
    <3>1. i - 1 \in 0 .. VmPages /\ i \in 0 .. VmPages
      BY <1>1
    <3>2. x \in Nat
      BY <3>1
    <3>3. G[<<x, i>>] = Grown(x, i - 1)
      BY <3>2
    <3>4. Grown(x, i - 1) \in Nat
      BY <3>2
    <3> QED
      BY <3>1, <3>3, <3>4
  <2>2. 0 \in S[0]
    BY <1>1
  <2> HIDE DEF G, S, Grown
  <2>3. PICK g : Recursive(g, VmPages, 0, G) /\ \A i \in 0 .. VmPages : g[i] \in S[i]
    BY <1>1, <2>1, <2>2, RecursionStays
  <2>4. g = [i \in 0 .. VmPages |-> IF i = 0 THEN 0 ELSE G[<<g[i - 1], i>>]]
    BY <2>3 DEF Recursive
  <2> DEFINE f == [offset \in -1..(VmPages - 1) |-> g[offset + 1]]
  <2>5. g[0] = 0 /\ \A i \in 1 .. VmPages : g[i] = Grown(g[i - 1], i - 1)
    <3>1. g[0] = 0
      BY <1>1, <2>4
    <3>2. ASSUME NEW i \in 1 .. VmPages PROVE g[i] = Grown(g[i - 1], i - 1)
      <4>1. i - 1 \in 0 .. VmPages /\ i \in 0 .. VmPages /\ i # 0
        BY <1>1
      <4>2. g[i] = G[<<g[i - 1], i>>]
        BY <2>4, <4>1
      <4> QED
        BY <2>1, <2>3, <4>1, <4>2
    <3> QED
      BY <3>1, <3>2
  <2>6. \A offset \in -1..(VmPages - 1) :
          f[offset] = IF offset = -1 \/ This(offset) \in s.used THEN 0
                      ELSE (IF This(offset) = 0 THEN 0 ELSE f[offset - 1]) + 1
    <3> SUFFICES ASSUME NEW offset \in -1..(VmPages - 1)
                 PROVE  f[offset] = IF offset = -1 \/ This(offset) \in s.used THEN 0
                                    ELSE (IF This(offset) = 0 THEN 0 ELSE f[offset - 1]) + 1
      OBVIOUS
    <3> HIDE DEF This
    <3>1. CASE offset = -1
      BY <1>1, <2>5, <3>1
    <3>2. CASE offset # -1
      <4>1. offset + 1 \in 1 .. VmPages /\ offset - 1 \in -1..(VmPages - 1)
        BY <1>1, <3>2
      <4>2. f[offset] = g[offset + 1] /\ f[offset - 1] = g[(offset + 1) - 1]
        BY <4>1
      <4>3. g[offset + 1] = Grown(g[(offset + 1) - 1], offset)
        BY <2>5, <4>1
      <4> QED
        BY <3>2, <4>2, <4>3 DEF Grown
    <3> QED
      BY <3>1, <3>2
  <2>7. Solves(f)
    <3> HIDE DEF This
    <3> QED
      BY <2>6
  <2> QED
    BY <2>7
<1>5. Solves(numfree)
  <2> HIDE DEF Solves
  <2> QED
    BY <1>4
<1> HIDE DEF numfree
<1>6. \A offset \in -1..(VmPages - 1) : IsFree(offset, numfree[offset])
  <2> DEFINE g == [i \in 0 .. VmPages |-> numfree[i - 1]]
             S == [i \in 0 .. VmPages |-> {m \in Nat : IsFree(i - 1, m)}]
  <2>1. numfree[-1] = 0
    BY <1>1, <1>5
  <2>2. g[0] \in S[0]
    <3>1. IsFree(-1, 0)
      BY <1>1
    <3> HIDE DEF IsFree
    <3>2. 0 - 1 = -1 /\ 0 \in 0 .. VmPages
      BY <1>1
    <3> QED
      BY <2>1, <3>1, <3>2
  <2>3. ASSUME NEW i \in 1 .. VmPages, g[i - 1] \in S[i - 1] PROVE g[i] \in S[i]
    <3> DEFINE offset == i - 1
               m == numfree[offset - 1]
    <3>1. /\ i - 1 \in 0 .. VmPages /\ i \in 0 .. VmPages
          /\ offset \in Pages /\ offset \in -1..(VmPages - 1) /\ offset # -1
      BY <1>1
    <3>2. IsFree(offset - 1, m)
      BY <2>3, <3>1
    <3>3. numfree[offset] = Grown(m, offset)
      <4> HIDE DEF This
      <4> QED
        BY <1>5, <3>1
    <3>4. This(offset) \in Pages /\ (This(offset) # 0 => This(offset) = This(offset - 1) + 1)
      BY <1>3, <3>1
    <3> HIDE DEF offset, m
    <3>5. IsFree(offset, numfree[offset])
      <4> DEFINE here == This(offset)
                 before == This(offset - 1)
      <4>1. here \in Pages /\ (here # 0 => here = before + 1) /\ here \in Int
        BY <1>1, <3>4
      <4>8. before \in Int
        BY <1>1, <3>1
      <4>2. m \in Nat /\ \A p \in before - (m - 1) .. before : p \in Pages \ s.used
        BY <3>2
      <4>3. numfree[offset] = IF here \in s.used THEN 0 ELSE (IF here = 0 THEN 0 ELSE m) + 1
        BY <3>3
      <4>4. IsFree(offset, numfree[offset])
              <=> /\ numfree[offset] \in Nat
                  /\ \A p \in here - (numfree[offset] - 1) .. here : p \in Pages \ s.used
        OBVIOUS
      <4> HIDE DEF here, before, IsFree
      <4>5. CASE here \in s.used
        BY <4>1, <4>3, <4>4, <4>5
      <4>6. CASE here \notin s.used /\ here = 0
        BY <4>1, <4>3, <4>4, <4>6
      <4>7. CASE here \notin s.used /\ here # 0
        <5>1. numfree[offset] = m + 1 /\ here = before + 1 /\ before \in Int
          BY <4>1, <4>3, <4>7, <4>8
        <5>2. ASSUME NEW p \in here - m .. here PROVE p \in Pages \ s.used
          <6>1. p = here \/ p \in before - (m - 1) .. before
            BY <4>1, <4>2, <5>1
          <6> QED
            BY <4>1, <4>2, <4>7, <6>1
        <5> QED
          BY <4>2, <4>4, <5>1, <5>2
      <4> QED
        BY <4>5, <4>6, <4>7
    <3>6. g[i] = numfree[offset] /\ numfree[offset] \in Nat
      BY <3>1, <3>5 DEF offset
    <3> HIDE DEF IsFree
    <3> QED
      BY <3>1, <3>5, <3>6 DEF offset
  <2> HIDE DEF g, S
  <2>4. \A i \in 0 .. VmPages : g[i] \in S[i]
    BY <1>1, <2>2, <2>3, StepByStep
  <2> SUFFICES ASSUME NEW offset \in -1..(VmPages - 1) PROVE IsFree(offset, numfree[offset])
    OBVIOUS
  <2>5. offset + 1 \in 0 .. VmPages /\ (offset + 1) - 1 = offset
    BY <1>1
  <2>6. g[offset + 1] \in S[offset + 1]
    BY <2>4, <2>5
  <2> HIDE DEF IsFree
  <2> QED
    BY <2>5, <2>6 DEF g, S
<1>7. found # {} /\ found \subseteq Nat
  BY <1>1, <1>2
<1> DEFINE last == Min(found)
<1>8. last \in found
  BY <1>7, LeastIsThere
<1>9. page = This(last) - (n - 1)
  BY <1>2, <1>7
<1> HIDE DEF last
<1>10. last \in Pages /\ numfree[last] = n
  BY <1>8
<1>11. last \in -1..(VmPages - 1)
  BY <1>1, <1>10
<1>12. IsFree(last, n)
  BY <1>6, <1>10, <1>11
<1>13. This(last) \in Int
  BY <1>1, <1>3, <1>10
<1> DEFINE here == This(last)
<1>14. here \in Int /\ page = here - (n - 1)
       /\ \A p \in here - (n - 1) .. here : p \in Pages \ s.used
  BY <1>9, <1>12, <1>13
<1> HIDE DEF here, This, IsFree
<1>15. Run(page, n) = here - (n - 1) .. here /\ page \in here - (n - 1) .. here
  BY <1>14 DEF Run
<1> QED
  BY <1>14, <1>15

-----------------------------------------------------------------------------
(* Completing jobs.                                                        *)

LEMMA PipeFits ==
  ASSUME NEW exact, NEW s, VmInv(s, exact)
  PROVE  /\ s.pipe \in Nat /\ s.pipe <= Len(s.processed)
         /\ IsFiniteSet(Signaling(s)) /\ Cardinality(Signaling(s)) \in Nat
<1>1. MaxThreads \in Nat
  BY VmAssumption
<1>2. IsFiniteSet(Threads)
  BY <1>1, FS_Interval DEF Threads
<1>3. IsFiniteSet(Signaling(s)) /\ Cardinality(Signaling(s)) \in Nat
  BY <1>2, FS_Subset, FS_CardinalityType DEF Signaling
<1>4. /\ s.pipe \in Nat /\ s.processed \in Seq(JobRecords)
      /\ Len(s.processed) = s.pipe + Cardinality(Signaling(s))
  BY DEF VmInv, States, DoneQueues, Queues
<1> QED
  BY <1>3, <1>4

\* The main thread has taken the processed jobs of b up to the n-th.
Taken(b, s, n) ==
  /\ s \in States /\ Queues(s) /\ Calm(b, s) /\ SameClients(b, s)
  /\ s.key = b.key /\ s.used = b.used /\ s.data = b.data /\ s.risked = b.risked /\ s.panic = b.panic
  /\ s.newjobs = b.newjobs
  /\ \A k \in Keys :
       \/ ~Active(b.processed, n, k) /\ JobsIn(s.processed, k) = JobsIn(b.processed, k)
       \/ Active(b.processed, n, k) /\ JobsIn(s.processed, k) = {}

LEMMA JobsTakenOff ==
  ASSUME NEW exact, VmInv(vm, exact), ~vm.panic, NEW n \in 1 .. vm.pipe,
         \A i \in 1 .. n - 1 : vm.processed[i].canceled,
         NEW s, s = TakeProcessed(n)
  PROVE  Taken(vm, s, n)
<1> DEFINE q == SubSeq(vm.processed, n + 1, Len(vm.processed))
           pipe == vm.pipe - n
           panic == /\ ~vm.processed[n].canceled
                    /\ vm.key[vm.processed[n].key].storage = "absent"
<1>1. /\ vm \in States /\ Queues(vm) /\ vm.processed \in Seq(JobRecords) /\ vm.pipe \in Nat
      /\ vm.pipe <= Len(vm.processed) /\ Cardinality(Signaling(vm)) \in Nat
  BY PipeFits DEF VmInv, States, DoneQueues
<1>2. n \in 1 .. Len(vm.processed)
  BY <1>1
<1>3. /\ q \in Seq(JobRecords) /\ Len(q) = Len(vm.processed) - n
      /\ \E At : Without(q, vm.processed, n, At)
  BY <1>1, <1>2, JobsTaken
<1>4. /\ OneIn(q)
      /\ \A k \in Keys :
           \/ ~Active(vm.processed, n, k) /\ JobsIn(q, k) = JobsIn(vm.processed, k)
           \/ Active(vm.processed, n, k) /\ JobsIn(q, k) = {}
  <2>1. PICK At : Without(q, vm.processed, n, At)
    BY <1>3
  <2>2. OneIn(vm.processed) /\ n \in DOMAIN vm.processed
    BY <1>1, <1>2 DEF Queues
  <2> HIDE DEF q
  <2> QED
    BY <2>1, <2>2, JobGone
<1>5. ~panic
  <2> SUFFICES ASSUME ~vm.processed[n].canceled
               PROVE  vm.key[vm.processed[n].key].storage # "absent"
    OBVIOUS
  <2> DEFINE job == vm.processed[n]
  <2>1. job \in JobRecords /\ n \in DOMAIN vm.processed
    BY <1>1, <1>2
  <2>2. job.key \in Keys /\ job.type \in JobTypes
    BY <2>1 DEF JobRecords
  <2>3. job \in ActiveJobs(vm, job.key)
    BY <2>1, InList DEF Active, ActiveJobs
  <2>4. JobFits(vm, job.key, job)
    BY <2>2, <2>3 DEF VmInv, KeyInv
  <2> QED
    BY <2>2, <2>4 DEF JobFits, JobTypes
<1>6. s = [vm EXCEPT !.processed = q, !.pipe = pipe, !.panic = panic]
  BY DEF TakeProcessed
<1>7. pipe \in Nat /\ panic \in BOOLEAN
  BY <1>1
<1> HIDE DEF q, pipe, panic
<1>8. q \in DoneQueues
  BY <1>3 DEF DoneQueues
<1>9. /\ s \in States /\ s.processed = q /\ s.pipe = pipe /\ s.panic = panic
      /\ s.key = vm.key /\ s.used = vm.used /\ s.file = vm.file /\ s.newjobs = vm.newjobs
      /\ s.thread = vm.thread /\ s.job = vm.job /\ s.data = vm.data
      /\ s.risked = vm.risked /\ SameClients(vm, s)
  BY <1>1, <1>6, <1>7, <1>8 DEF States, SameClients
<1>10. Queues(s)
  <2>1. Len(q) = pipe + Cardinality(Signaling(vm))
    BY <1>1, <1>3 DEF Queues, pipe
  <2> QED
    BY <1>1, <1>4, <1>9, <2>1 DEF Queues, Signaling
<1>11. s.panic = vm.panic
  <2>1. vm.panic \in BOOLEAN /\ s.panic \in BOOLEAN
    BY <1>1, <1>9 DEF States
  <2> QED
    BY <1>5, <1>9, <2>1
<1>12. Calm(vm, s)
  BY <1>9 DEF Calm
<1> QED
  BY <1>4, <1>9, <1>10, <1>11, <1>12 DEF Taken

LEMMA CanceledTaken ==
  ASSUME NEW exact, NEW b, VmInv(b, exact), NEW n, NEW s, Taken(b, s, n),
         b.processed[n].canceled
  PROVE  VmInv(s, exact)
<1>1. s.file = b.file /\ s.job = b.job /\ s.key = b.key /\ s.data = b.data /\ s.risked = b.risked /\ s.used = b.used
  BY DEF Taken, Calm
<1>2. \A k \in Keys : Same(b, s, k)
  BY <1>1 DEF Taken, Same, Active
<1> QED
  BY <1>1, <1>2, NoKey DEF Taken

\* The job about k that is to be completed; s is b without it.
ToComplete(b, s, k, job, exact) ==
  /\ VmInv(b, exact) /\ ClientsInv(b) /\ k \in Keys
  /\ Emptied(b, s, k) /\ Calm(b, s) /\ SameClients(b, s)
  /\ job \in JobRecords /\ job.key = k /\ ~job.canceled /\ job \in ActiveJobs(b, k)
  /\ JobFits(b, k, job) /\ JobDone(b, k, job) /\ Stored(b, k)

LEMMA JobTakenOff ==
  ASSUME NEW exact, NEW b, VmInv(b, exact), ClientsInv(b), NEW n \in 1 .. Len(b.processed),
         ~b.processed[n].canceled, NEW s, Taken(b, s, n)
  PROVE  ToComplete(b, s, b.processed[n].key, b.processed[n], exact)
<1> DEFINE job == b.processed[n]
           k == job.key
<1>1. b.processed \in Seq(JobRecords)
  BY DEF VmInv, States, DoneQueues
<1>2. job \in JobRecords /\ n \in DOMAIN b.processed
  BY <1>1
<1>3. k \in Keys
  BY <1>2 DEF JobRecords
<1>4. Active(b.processed, n, k)
  BY DEF Active
<1>5. job \in JobsIn(b.processed, k) /\ job \in ActiveJobs(b, k)
  BY <1>2, <1>4, InList DEF ActiveJobs
<1>6. KeyInv(b, k)
  BY <1>3 DEF VmInv
<1>7. JobFits(b, k, job) /\ JobDone(b, k, job) /\ Stored(b, k)
  BY <1>5, <1>6 DEF KeyInv
<1>8. JobsIn(b.newjobs, k) = {} /\ JobsIn(b.job, k) = {}
  BY <1>5, <1>6 DEF KeyInv, OnePlace
<1>9. /\ s \in States /\ Queues(s) /\ Calm(b, s) /\ SameClients(b, s)
      /\ s.key = b.key /\ s.used = b.used /\ s.data = b.data /\ s.risked = b.risked /\ s.panic = b.panic
      /\ s.newjobs = b.newjobs /\ s.file = b.file /\ s.job = b.job
  BY DEF Taken, Calm
<1>10. JobsIn(s.processed, k) = {}
  BY <1>3, <1>4 DEF Taken
<1>11. \A l \in Keys : l # k => ~Active(b.processed, n, l)
  BY DEF Active
<1>12. \A l \in Keys : l # k => Same(b, s, l)
  BY <1>9, <1>11 DEF Taken, Same
<1>13. ActiveJobs(s, k) = {}
  BY <1>8, <1>9, <1>10 DEF ActiveJobs
<1>14. Emptied(b, s, k)
  BY <1>9, <1>12, <1>13 DEF Emptied
<1> QED
  BY <1>2, <1>3, <1>5, <1>7, <1>9, <1>14 DEF ToComplete

\* What the completion of a job comes to.  While a child runs nothing is to be
\* written.
Completes(s, t, exact) == VmInv(t, exact) /\ ClientsInv(t) /\ (child => Calm(s, t))

LEMMA HandledCompletes ==
  ASSUME NEW exact, NEW b, NEW s, NEW t, Completes(b, s, exact), Handled(s, t, exact)
  PROVE  Completes(b, t, exact)
  BY DEF Completes, Handled, Calm

LEMMA ClientsKept ==
  ASSUME NEW s, ClientsInv(s), NEW t, SameClients(s, t)
  PROVE  ClientsInv(t)
  BY DEF ClientsInv, Agree, ReadyOnce, WaitersPaused, IoWait, SameClients

LEMMA LoadCompleted ==
  ASSUME NEW exact, NEW b, NEW s, NEW k, NEW job, ToComplete(b, s, k, job, exact),
         job.type = "LOAD", NEW t, t = CompleteLoad(s, job)
  PROVE  Completes(b, t, exact)
<1> DEFINE w == Loaded(s, k, job.val)
<1>1. /\ VmInv(b, exact) /\ ClientsInv(b) /\ k \in Keys /\ Emptied(b, s, k)
      /\ Calm(b, s) /\ SameClients(b, s) /\ job.key = k
      /\ JobFits(b, k, job) /\ JobDone(b, k, job)
  BY DEF ToComplete
<1>2. s.key = b.key /\ s.data = b.data /\ s.risked = b.risked
  BY <1>1 DEF Emptied
<1>3. /\ s.key[k].storage \in {"SWAPPED", "LOADING"}
      /\ job.val \in Values /\ (s.data[k] # Lost => job.val = s.data[k])
  BY <1>1, <1>2 DEF JobFits, JobDone
<1>4. t = HandleClientsBlockedOnSwappedKey(w, k) /\ w = Loaded(s, k, job.val)
  BY <1>1, <1>3 DEF CompleteLoad
<1> HIDE DEF w
<1>5. IsLoaded(s, w, k, exact)
  BY <1>1, <1>3, <1>4, ValueLoaded
<1>6. VmInv(w, exact) /\ Calm(s, w) /\ SameClients(s, w) /\ w \in States
  BY <1>5 DEF IsLoaded, VmInv
<1>7. ClientsInv(w)
  BY <1>1, <1>6, ClientsKept DEF SameClients
<1>8. Told(w, t)
  BY <1>1, <1>4, <1>6, <1>7, ClientsTold
<1>9. Steps(w, t, exact) /\ ClientsInv(t)
  BY <1>6, <1>8, ToldSteps
<1> QED
  BY <1>1, <1>6, <1>9 DEF Completes, Steps, Calm

LEMMA KeyUndone ==
  ASSUME NEW exact, NEW b, NEW s, NEW k, NEW job, ToComplete(b, s, k, job, exact),
         job.type = "PREPARE_SWAP", NEW t, t = UndoStorage(s, k)
  PROVE  Completes(b, t, exact)
<1>1. /\ VmInv(b, exact) /\ ClientsInv(b) /\ k \in Keys /\ Emptied(b, s, k)
      /\ Calm(b, s) /\ SameClients(b, s) /\ job \in ActiveJobs(b, k)
  BY DEF ToComplete
<1>2. /\ s \in States /\ Queues(s)
      /\ s.key = b.key /\ s.used = b.used /\ s.file = b.file /\ s.data = b.data /\ s.risked = b.risked
      /\ s.panic = b.panic /\ (\A l \in Keys : l # k => Same(b, s, l)) /\ ActiveJobs(s, k) = {}
  BY <1>1 DEF Emptied
<1>3. s.key \in KeyTables /\ s.key[k] \in KeyObjects
  BY <1>1, <1>2 DEF States, KeyTables
<1> DEFINE key == Undone(s.key[k])
           table == [s.key EXCEPT ![k] = key]
           risked == s.risked \ {k}
<1>4. key \in KeyObjects /\ risked \in KeySets
  BY <1>2, <1>3 DEF Undone, KeyObjects, Storages, States, KeySets
<1>5. t = [s EXCEPT !.key = table, !.risked = risked]
  BY <1>2, <1>3 DEF UndoStorage, Undone, States, KeyTables
<1> HIDE DEF key
<1>6. /\ table \in KeyTables /\ table[k] = key
      /\ \A l \in Keys : l # k => table[l] = s.key[l]
  BY <1>1, <1>3, <1>4, KeyChanged
<1> HIDE DEF table, risked
<1>7. /\ t \in States /\ t.key = table /\ t.used = s.used /\ t.file = s.file
      /\ t.newjobs = s.newjobs /\ t.processed = s.processed /\ t.pipe = s.pipe
      /\ t.thread = s.thread /\ t.job = s.job /\ t.panic = s.panic /\ t.data = s.data
      /\ t.risked = risked /\ SameClients(s, t)
  BY <1>2, <1>4, <1>5, <1>6 DEF States, SameClients
<1>8. Queues(t)
  BY <1>2, <1>7 DEF Queues, Signaling
<1>9. \A l \in Keys : l # k => Same(b, t, l)
  BY <1>2, <1>6, <1>7 DEF Same, risked
<1>10. ActiveJobs(t, k) = {}
  BY <1>2, <1>7 DEF ActiveJobs
<1>11. t.key[k] = Undone(b.key[k])
  BY <1>2, <1>6, <1>7 DEF key
<1>12. t.used = b.used \ (IF job.type = "DO_SWAP" THEN Run(job.page, job.pages) ELSE {})
  BY <1>2, <1>7
<1>13. t.file = b.file /\ t.data = b.data /\ t.risked = b.risked \ {k} /\ t.panic = b.panic
  BY <1>2, <1>7 DEF risked
<1>14. VmInv(t, exact)
  BY <1>1, <1>7, <1>8, <1>9, <1>10, <1>11, <1>12, <1>13, JobDropped
<1>15. ClientsInv(t)
  BY <1>1, <1>7, ClientsKept DEF SameClients
<1> QED
  BY <1>1, <1>7, <1>14, <1>15 DEF Completes, Calm

LEMMA SwapPrepared ==
  ASSUME NEW exact, NEW b, NEW s, NEW k, NEW job, ToComplete(b, s, k, job, exact),
         job.type = "PREPARE_SWAP", ~child,
         NEW base \in Pages, NEW page, page = FindContiguousPages(s, job.pages, base),
         page # -1,
         NEW new, new = [job EXCEPT !.type = "DO_SWAP", !.page = page],
         NEW t, t = QueueIOJob(MarkPagesUsed(s, page, job.pages), new)
  PROVE  Completes(b, t, exact)
<1>1. /\ VmInv(b, exact) /\ ClientsInv(b) /\ k \in Keys /\ Emptied(b, s, k)
      /\ Calm(b, s) /\ SameClients(b, s) /\ job \in ActiveJobs(b, k)
      /\ job \in JobRecords /\ job.key = k /\ ~job.canceled
      /\ JobFits(b, k, job) /\ JobDone(b, k, job) /\ Stored(b, k)
  BY DEF ToComplete
<1>2. /\ s \in States /\ Queues(s)
      /\ s.key = b.key /\ s.used = b.used /\ s.file = b.file /\ s.data = b.data /\ s.risked = b.risked
      /\ s.panic = b.panic /\ (\A l \in Keys : l # k => Same(b, s, l)) /\ ActiveJobs(s, k) = {}
  BY <1>1 DEF Emptied
<1>3. /\ b.key[k].storage = "SWAPPING" /\ job.val \in Values /\ job.pages = Size[job.val]
      /\ k \notin b.risked => job.val = b.key[k].val
  BY <1>1 DEF JobFits, JobDone
<1>4. job.pages \in Nat \ {0}
  BY <1>3, ZeroPage, VmAssumption
<1>5. page \in Pages /\ Run(page, job.pages) \subseteq Pages \ s.used
  BY <1>4, PagesFound
<1>6. /\ new \in NewJobs /\ new.key = k /\ new.type = "DO_SWAP" /\ new.page = page
      /\ new.val = job.val /\ new.pages = job.pages
  BY <1>1, <1>5 DEF NewJobs, JobRecords, JobTypes
<1> DEFINE u == MarkPagesUsed(s, page, job.pages)
           used == s.used \cup Run(page, job.pages)
<1>7. u = [s EXCEPT !.used = used] /\ used \in PageSets
  BY <1>2, <1>5 DEF MarkPagesUsed, States, PageSets
<1>8. t = QueueIOJob(u, new)
  OBVIOUS
<1> HIDE DEF u, used
<1>9. /\ u \in States /\ u.used = used /\ u.key = s.key /\ u.file = s.file
      /\ u.newjobs = s.newjobs /\ u.processed = s.processed /\ u.pipe = s.pipe
      /\ u.thread = s.thread /\ u.job = s.job /\ u.panic = s.panic /\ u.data = s.data /\ u.risked = s.risked
      /\ SameClients(s, u)
  BY <1>2, <1>7 DEF States, SameClients
<1>10. Queues(u)
  BY <1>2, <1>9 DEF Queues, Signaling
<1>11. /\ JobsIn(s.newjobs, k) = {} /\ JobsIn(s.processed, k) = {} /\ JobsIn(s.job, k) = {}
  BY <1>2 DEF ActiveJobs
<1>12. IsQueued(u, t, new)
  BY <1>6, <1>8, <1>9, <1>10, <1>11, Queued
<1>13. /\ t.key = u.key /\ t.used = u.used /\ t.file = u.file /\ t.processed = u.processed
       /\ t.job = u.job /\ t.panic = u.panic /\ t.data = u.data /\ t.risked = u.risked /\ SameClients(u, t)
  BY <1>9, <1>12, QueuedOnly
<1>14. /\ t \in States /\ Queues(t)
       /\ JobsIn(t.newjobs, k) = {new}
       /\ \A l : l # k => JobsIn(t.newjobs, l) = JobsIn(s.newjobs, l)
  BY <1>6, <1>9, <1>11, <1>12 DEF IsQueued
<1>15. /\ JobsIn(t.processed, k) = {} /\ JobsIn(t.job, k) = {} /\ ActiveJobs(t, k) = {new}
  BY <1>9, <1>11, <1>13, <1>14 DEF ActiveJobs
<1>16. \A l \in Keys : l # k => Same(b, t, l)
  BY <1>2, <1>9, <1>13, <1>14 DEF Same
<1>17. PagesOf(b, k) = {}
  BY <1>1, PagesOfKey
<1>18. PagesOf(t, k) = Run(page, job.pages)
  <2>1. {j \in ActiveJobs(t, k) : j.type = "DO_SWAP"} = {new}
    BY <1>6, <1>15
  <2> QED
    <3>1. t.key[k].storage = "SWAPPING"
      BY <1>2, <1>3, <1>9, <1>13
    <3>2. PagesOf(t, k) = UNION {Run(j.page, j.pages) : j \in {new}}
      BY <2>1, <3>1 DEF PagesOf
    <3>3. Run(new.page, new.pages) = Run(page, job.pages)
      BY <1>6
    <3>4. {Run(j.page, j.pages) : j \in {new}} = {Run(new.page, new.pages)}
      OBVIOUS
    <3>5. \A run : UNION {run} = run
      OBVIOUS
    <3>6. PagesOf(t, k) = UNION {Run(page, job.pages)}
      BY <3>2, <3>3, <3>4
    <3> QED
      BY <3>5, <3>6, Zenon
<1>19. KeyInv(t, k)
  <2>1. t.key[k] = b.key[k] /\ t.data[k] = b.data[k] /\ t.risked = b.risked /\ t.file = b.file
    BY <1>2, <1>9, <1>13
  <2>2. Stored(t, k)
    BY <1>1, <2>1 DEF Stored, OnPages
  <2>3. JobFits(t, k, new)
    BY <1>3, <1>5, <1>6, <2>1 DEF JobFits
  <2> QED
    BY <1>14, <1>15, <2>2, <2>3 DEF KeyInv, OnePlace
<1>20. t.used = b.used \cup Run(page, job.pages) /\ t.file = b.file /\ t.panic = b.panic
  BY <1>2, <1>9, <1>13 DEF used
<1>21. HasJob(t, k) /\ (exact => GoneOver(t))
  BY <1>1, <1>2, <1>9, <1>13, <1>15, <1>20 DEF HasJob, VmInv, Exact, GoneOver
<1>22. /\ PagesOf(t, k) \subseteq t.used
       /\ PagesOf(t, k) \cap (b.used \ PagesOf(b, k)) = {}
       /\ b.used \ PagesOf(b, k) \subseteq t.used
       /\ t.used \subseteq (b.used \ PagesOf(b, k)) \cup PagesOf(t, k)
  BY <1>2, <1>5, <1>17, <1>18, <1>20
<1>23. VmInv(t, exact)
  BY <1>1, <1>14, <1>16, <1>19, <1>20, <1>21, <1>22, OneKey
<1>24. ClientsInv(t)
  BY <1>1, <1>9, <1>13, ClientsKept DEF SameClients
<1> QED
  BY <1>23, <1>24 DEF Completes

LEMMA SwapDone ==
  ASSUME NEW exact, NEW b, NEW s, NEW k, NEW job, ToComplete(b, s, k, job, exact),
         job.type = "DO_SWAP", NEW t, t = CompleteDoSwap(s, job)
  PROVE  Completes(b, t, exact)
<1>1. /\ VmInv(b, exact) /\ ClientsInv(b) /\ k \in Keys /\ Emptied(b, s, k)
      /\ Calm(b, s) /\ SameClients(b, s) /\ job \in ActiveJobs(b, k)
      /\ job \in JobRecords /\ job.key = k
      /\ JobFits(b, k, job) /\ JobDone(b, k, job) /\ Stored(b, k)
  BY DEF ToComplete
<1>2. /\ s \in States /\ Queues(s)
      /\ s.key = b.key /\ s.used = b.used /\ s.file = b.file /\ s.data = b.data /\ s.risked = b.risked
      /\ s.panic = b.panic /\ (\A l \in Keys : l # k => Same(b, s, l)) /\ ActiveJobs(s, k) = {}
  BY <1>1 DEF Emptied
<1>3. /\ b.key[k].storage = "SWAPPING" /\ job.val \in Values /\ job.pages = Size[job.val]
      /\ b.data[k] \in Values \cup {Lost}
      /\ k \notin b.risked =>
           OnPages(b, job.page, job.val) /\ (b.data[k] # Lost => job.val = b.data[k])
  BY <1>1 DEF JobFits, JobDone, Stored
<1> DEFINE key == [storage |-> "SWAPPED", val |-> None, page |-> job.page, pages |-> job.pages]
           table == [s.key EXCEPT ![k] = key]
           panic == s.panic \/ s.key[k].storage # "SWAPPING"
           d == IF k \in b.risked THEN Lost ELSE b.data[k]
           data == [s.data EXCEPT ![k] = d]
           risked == s.risked \ {k}
<1>4. key \in KeyObjects
  BY <1>1 DEF KeyObjects, Storages, JobRecords
<1>5. s.key \in KeyTables /\ s.panic \in BOOLEAN /\ panic \in BOOLEAN
  BY <1>2 DEF States
<1>6. panic = s.panic
  BY <1>2, <1>3, <1>5
<1>22. /\ data \in Data /\ risked \in KeySets /\ data[k] = d /\ d \in Values \cup {Lost}
       /\ \A l \in Keys : l # k => data[l] = s.data[l]
  BY <1>1, <1>2, <1>3 DEF States, Data, KeySets
<1>7. t = [s EXCEPT !.panic = panic, !.key = table, !.data = data, !.risked = risked]
  BY <1>1, <1>2 DEF CompleteDoSwap, States, Data
<1>8. key.storage = "SWAPPED" /\ key.val = None /\ key.page = job.page /\ key.pages = job.pages
  OBVIOUS
<1> HIDE DEF key
<1>9. /\ table \in KeyTables /\ table[k] = key
      /\ \A l \in Keys : l # k => table[l] = s.key[l]
  BY <1>1, <1>4, <1>5, KeyChanged
<1> HIDE DEF table, panic, data, d, risked
<1>10. /\ t \in States /\ t.key = table /\ t.used = s.used /\ t.file = s.file
       /\ t.newjobs = s.newjobs /\ t.processed = s.processed /\ t.pipe = s.pipe
       /\ t.thread = s.thread /\ t.job = s.job /\ t.panic = panic /\ t.data = data
       /\ t.risked = risked /\ SameClients(s, t)
  BY <1>2, <1>5, <1>7, <1>9, <1>22, ZenonT(40) DEF States, SameClients
<1>11. Queues(t)
  BY <1>2, <1>10 DEF Queues, Signaling
<1>12. \A l \in Keys : l # k => Same(b, t, l)
  BY <1>2, <1>9, <1>10, <1>22 DEF Same, risked
<1>13. /\ ActiveJobs(t, k) = {}
       /\ JobsIn(t.newjobs, k) = {} /\ JobsIn(t.processed, k) = {} /\ JobsIn(t.job, k) = {}
  BY <1>2, <1>10 DEF ActiveJobs
<1>14. KeyInv(t, k)
  <2>1. k \notin b.risked => OnPages(t, job.page, job.val)
    BY <1>2, <1>3, <1>10 DEF OnPages
  <2>2. /\ t.key[k] = key /\ t.data[k] \in Values \cup {Lost} /\ k \notin t.risked
        /\ t.data[k] # Lost => k \notin b.risked /\ t.data[k] = job.val
    BY <1>2, <1>3, <1>9, <1>10, <1>22 DEF d, risked
  <2>3. Stored(t, k)
    BY <1>3, <1>8, <2>1, <2>2 DEF Stored
  <2> QED
    BY <1>13, <2>3 DEF KeyInv, OnePlace
<1>15. PagesOf(b, k) = Run(job.page, job.pages)
  BY <1>1, PagesOfKey
<1>16. PagesOf(t, k) = Run(job.page, job.pages)
  <2>1. {j \in ActiveJobs(t, k) : j.type = "DO_SWAP"} = {}
    BY <1>13
  <2>2. t.key[k] = key
    BY <1>9, <1>10
  <2> QED
    BY <1>8, <2>1, <2>2 DEF PagesOf
<1>17. HasJob(t, k)
  BY <1>8, <1>9, <1>10 DEF HasJob
<1>18. t.used = b.used /\ t.file = b.file /\ t.panic = b.panic
  BY <1>2, <1>6, <1>10
<1>19. PagesOf(b, k) \subseteq b.used /\ (exact => GoneOver(t))
  <2>1. \A l \in Keys : b.data[l] = Lost => t.data[l] = Lost
    BY <1>2, <1>10, <1>22 DEF d
  <2> QED
    BY <1>1, <1>18, <2>1 DEF VmInv, PagesUsed, Exact, GoneOver
<1>20. VmInv(t, exact)
  BY <1>1, <1>10, <1>11, <1>12, <1>14, <1>15, <1>16, <1>17, <1>18, <1>19, OneKey
<1>21. ClientsInv(t)
  BY <1>1, <1>10, ClientsKept DEF SameClients
<1> QED
  BY <1>1, <1>10, <1>20, <1>21 DEF Completes, Calm

LEMMA JobCompleted ==
  ASSUME NEW exact, NEW s, NEW job, ToComplete(vm, s, job.key, job, exact), ~job.canceled,
         NEW trytoswap, Complete(s, job, trytoswap)
  PROVE  Completes(vm, vm', exact)
<1>1. CASE job.type = "LOAD" /\ vm' = CompleteLoad(s, job)
  BY <1>1, LoadCompleted
<1>2. CASE job.type = "PREPARE_SWAP" /\ \E base \in Pages : vm' = CompletePrepareSwap(s, job, base)
  <2>1. PICK base \in Pages : vm' = CompletePrepareSwap(s, job, base)
    BY <1>2
  <2> DEFINE page == FindContiguousPages(s, job.pages, base)
             new == [job EXCEPT !.type = "DO_SWAP", !.page = page]
  <2>2. vm' = IF ~CanSwapOut \/ page = -1 THEN UndoStorage(s, job.key)
              ELSE QueueIOJob(MarkPagesUsed(s, page, job.pages), new)
    BY <2>1 DEF CompletePrepareSwap
  <2>3. new = [job EXCEPT !.type = "DO_SWAP", !.page = page]
    OBVIOUS
  <2>4. page = FindContiguousPages(s, job.pages, base)
    OBVIOUS
  <2> HIDE DEF page, new
  <2>5. CASE child \/ page = -1
    BY <1>2, <2>2, <2>5, KeyUndone DEF CanSwapOut
  <2>6. CASE ~child /\ page # -1
    <3>1. vm' = QueueIOJob(MarkPagesUsed(s, page, job.pages), new)
      BY <2>2, <2>6 DEF CanSwapOut
    <3> QED
      BY <1>2, <2>3, <2>4, <2>6, <3>1, SwapPrepared
  <2> QED
    BY <2>5, <2>6
<1>3. CASE /\ job.type = "DO_SWAP"
           /\ vm' \in LET t == CompleteDoSwap(s, job)
                     IN  IF trytoswap /\ CanSwapOut THEN MoreSwaps(t) ELSE {t}
  <2> DEFINE t == CompleteDoSwap(s, job)
  <2>1. vm' = t \/ vm' \in MoreSwaps(t)
    BY <1>3
  <2>2. t = CompleteDoSwap(s, job)
    OBVIOUS
  <2> HIDE DEF t
  <2>3. Completes(vm, t, exact)
    BY <1>3, <2>2, SwapDone
  <2>4. ASSUME vm' \in MoreSwaps(t) PROVE Completes(vm, vm', exact)
    <3>1. VmInv(t, exact) /\ ClientsInv(t)
      BY <2>3 DEF Completes
    <3>2. Handled(t, vm', exact)
      BY <2>4, <3>1, SwapsHandled
    <3> QED
      BY <2>3, <3>2, HandledCompletes
  <2> QED
    BY <2>1, <2>3, <2>4
<1> QED
  BY <1>1, <1>2, <1>3 DEF Complete

LEMMA JobsCompleted ==
  ASSUME NEW exact, VmInv(vm, exact), ClientsInv(vm), ~vm.panic,
         NEW trytoswap, CompletedJobs(trytoswap)
  PROVE  Completes(vm, vm', exact)
<1>1. PICK n \in 1 .. vm.pipe :
        /\ \A i \in 1 .. n - 1 : vm.processed[i].canceled
        /\ \E s \in {TakeProcessed(n)} : Complete(s, vm.processed[n], trytoswap)
  BY DEF CompletedJobs
<1> DEFINE s == TakeProcessed(n)
           job == vm.processed[n]
<1>2. Complete(s, job, trytoswap) /\ s = TakeProcessed(n)
  BY <1>1
<1>3. n \in 1 .. Len(vm.processed)
  <2>1. vm.pipe \in Nat /\ vm.pipe <= Len(vm.processed) /\ vm.processed \in Seq(JobRecords)
    BY PipeFits DEF VmInv, States, DoneQueues
  <2> QED
    BY <2>1
<1> HIDE DEF s
<1>4. Taken(vm, s, n)
  BY <1>1, <1>2, JobsTakenOff
<1>5. CASE job.canceled
  <2>1. vm' = s
    BY <1>2, <1>5 DEF Complete
  <2>2. VmInv(s, exact) /\ Calm(vm, s) /\ SameClients(vm, s)
    BY <1>4, <1>5, CanceledTaken DEF Taken
  <2> QED
    BY <2>1, <2>2, ClientsKept DEF Completes
<1>6. CASE ~job.canceled
  <2>1. ToComplete(vm, s, job.key, job, exact)
    BY <1>3, <1>4, <1>6, JobTakenOff
  <2> HIDE DEF job
  <2> QED
    BY <1>2, <1>6, <2>1, JobCompleted
<1> QED
  BY <1>5, <1>6

-----------------------------------------------------------------------------
(* The I/O threads.                                                        *)

\* A thread begins or ends to signal, or does neither.
LEMMA ThreadMoved ==
  ASSUME NEW threads \in ThreadStates, NEW t \in Threads,
         NEW state \in {"off", "take", "work", "signal"},
         NEW moved, moved = [threads EXCEPT ![t] = state]
  PROVE  /\ moved \in ThreadStates /\ moved[t] = state
         /\ \A u \in Threads : u # t => moved[u] = threads[u]
  BY DEF ThreadStates

LEMMA ThreadExits ==
  ASSUME VmInv(vm, errors = 0), NEW t \in Threads, TakeJob(t), vm.newjobs = <<>>
  PROVE  /\ VmInv(vm', errors = 0) /\ SameClients(vm, vm') /\ vm'.file = vm.file
         /\ vm'.newjobs = vm.newjobs /\ vm'.job = vm.job
<1> DEFINE threads == [vm.thread EXCEPT ![t] = "off"]
<1>0. vm.thread[t] = "take"
  BY Zenon DEF TakeJob
<1>1. vm \in States /\ Queues(vm) /\ vm.thread \in ThreadStates
  BY DEF VmInv, States
<1>2. /\ threads \in ThreadStates /\ threads[t] = "off"
      /\ \A u \in Threads : u # t => threads[u] = vm.thread[u]
  BY <1>1, ThreadMoved
<1>3. vm' = [vm EXCEPT !.thread = threads]
  BY Zenon DEF TakeJob
<1> HIDE DEF threads
<1>4. /\ vm' \in States /\ vm'.thread = threads
      /\ vm'.key = vm.key /\ vm'.used = vm.used /\ vm'.file = vm.file
      /\ vm'.newjobs = vm.newjobs /\ vm'.processed = vm.processed /\ vm'.pipe = vm.pipe
      /\ vm'.job = vm.job /\ vm'.panic = vm.panic /\ vm'.data = vm.data
      /\ vm'.risked = vm.risked /\ SameClients(vm, vm')
  BY <1>1, <1>2, <1>3 DEF States, SameClients
<1>5. Queues(vm')
  <2>1. Signaling(vm') = Signaling(vm)
    BY <1>0, <1>2, <1>4 DEF Signaling
  <2>2. \A u \in Threads : threads[u] = "work" <=> vm.job[u] # NoJob
    BY <1>0, <1>1, <1>2 DEF Queues
  <2> QED
    BY <1>1, <1>4, <2>1, <2>2 DEF Queues
<1>6. \A k \in Keys : Same(vm, vm', k)
  BY <1>4 DEF Same
<1>7. VmInv(vm', errors = 0)
  BY <1>4, <1>5, <1>6, NoKey
<1> QED
  BY <1>4, <1>7

LEMMA HeadTaken ==
  ASSUME NEW S, NEW q \in Seq(S), q # <<>>
  PROVE  /\ Tail(q) \in Seq(S) /\ Head(q) \in S /\ 1 \in DOMAIN q /\ q[1] = Head(q)
         /\ \A i \in DOMAIN Tail(q) : i + 1 \in DOMAIN q /\ Tail(q)[i] = q[i + 1]
         /\ \E At : Without(Tail(q), q, 1, At)
<1> DEFINE r == Tail(q)
<1>1. /\ r \in Seq(S) /\ Head(q) \in S /\ 1 \in DOMAIN q /\ q[1] = Head(q)
      /\ DOMAIN r = 1 .. Len(q) - 1 /\ DOMAIN q = 1 .. Len(q) /\ Len(q) \in Nat
      /\ \A i \in 1 .. Len(q) - 1 : r[i] = q[i + 1]
  OBVIOUS
<1> HIDE DEF r
<1> DEFINE At == [i \in DOMAIN r |-> i + 1]
<1>2. \A i \in DOMAIN r : /\ At[i] \in DOMAIN q /\ At[i] # 1 /\ r[i] = q[At[i]]
                          /\ At[i] = i + 1
  BY <1>1
<1>3. \A i, j \in DOMAIN r : At[i] = At[j] => i = j
  BY <1>1, <1>2
<1>4. ASSUME NEW i \in DOMAIN q, i # 1 PROVE \E j \in DOMAIN r : r[j] = q[i]
  <2>1. i - 1 \in DOMAIN r /\ r[i - 1] = q[i]
    BY <1>1, <1>4
  <2> QED
    BY <2>1
<1> HIDE DEF At
<1>5. Without(r, q, 1, At)
  BY <1>2, <1>3, <1>4 DEF Without, Active
<1> QED
  BY <1>1, <1>2, <1>5 DEF r

LEMMA JobTakenUp ==
  ASSUME VmInv(vm, errors = 0), NEW t \in Threads, TakeJob(t), vm.newjobs # <<>>
  PROVE  /\ VmInv(vm', errors = 0) /\ SameClients(vm, vm') /\ vm'.file = vm.file
         /\ NoWrites(vm.newjobs) => NoWrites(vm'.newjobs)
         /\ NoWrites(vm.newjobs) /\ NoWrites(vm.job) => NoWrites(vm'.job)
<1> DEFINE threads == [vm.thread EXCEPT ![t] = "work"]
           new == Head(vm.newjobs)
           k == new.key
           hands == [vm.job EXCEPT ![t] = new]
           newjobs == Tail(vm.newjobs)
<1>0. /\ vm.thread[t] = "take"
      /\ vm' = [vm EXCEPT !.thread[t] = "work", !.job[t] = Head(vm.newjobs), !.newjobs = Tail(@)]
  BY Zenon DEF TakeJob
<1>1. /\ vm \in States /\ Queues(vm) /\ vm.thread \in ThreadStates
      /\ vm.newjobs \in Seq(NewJobs) /\ vm.job \in Hands
  BY DEF VmInv, States, NewQueues
<1>2. /\ threads \in ThreadStates /\ threads[t] = "work"
      /\ \A u \in Threads : u # t => threads[u] = vm.thread[u]
  BY <1>1, ThreadMoved
<1>3. /\ newjobs \in Seq(NewJobs) /\ new \in NewJobs /\ 1 \in DOMAIN vm.newjobs
      /\ vm.newjobs[1] = new
      /\ \A i \in DOMAIN newjobs : i + 1 \in DOMAIN vm.newjobs /\ newjobs[i] = vm.newjobs[i + 1]
      /\ \E At : Without(newjobs, vm.newjobs, 1, At)
  BY <1>1, HeadTaken
<1>4. k \in Keys /\ ~new.canceled /\ new # NoJob
  BY <1>3, VmAssumption DEF NewJobs, JobRecords, NoJob, Job
<1>5. vm.job[t] = NoJob /\ OneIn(vm.newjobs) /\ OneIn(vm.job)
  BY <1>0, <1>1 DEF Queues
<1>6. vm' = [vm EXCEPT !.thread = threads, !.job = hands, !.newjobs = newjobs]
  BY <1>0, <1>1 DEF States
<1>7. /\ Active(vm.newjobs, 1, k) /\ \A l \in Keys : l # k => ~Active(vm.newjobs, 1, l)
  BY <1>3, <1>4 DEF Active
<1> HIDE DEF threads, newjobs
<1>8. /\ OneIn(newjobs) /\ JobsIn(newjobs, k) = {}
      /\ \A l \in Keys : l # k => JobsIn(newjobs, l) = JobsIn(vm.newjobs, l)
  <2>1. PICK At : Without(newjobs, vm.newjobs, 1, At)
    BY <1>3
  <2> HIDE DEF k
  <2> QED
    BY <1>3, <1>4, <1>5, <1>7, <2>1, JobGone
<1>9. new \in JobsIn(vm.newjobs, k)
  BY <1>3, <1>7, InList
<1>10. KeyInv(vm, k) /\ JobsIn(vm.job, k) = {} /\ JobsIn(vm.processed, k) = {}
  BY <1>4, <1>9 DEF VmInv, KeyInv, OnePlace
<1>11. JobsIn(vm.newjobs, k) = {new}
  <2>1. \A job \in JobsIn(vm.newjobs, k) : job = new
    BY <1>1, <1>4, <1>9, <1>10, OneJob DEF ActiveJobs, KeyInv
  <2> QED
    BY <1>9, <2>1
<1>12. /\ hands \in Hands /\ OneIn(hands)
       /\ \A l \in Keys : JobsIn(hands, l) = JobsIn(vm.job, l) \cup (IF k = l THEN {new} ELSE {})
  <2>1. ASSUME NEW l \in Keys
        PROVE  /\ hands \in Hands
               /\ JobsIn(hands, l) = JobsIn(vm.job, l) \cup (IF k = l THEN {new} ELSE {})
               /\ OneIn(vm.job) /\ JobsIn(vm.job, k) = {} => OneIn(hands)
    BY <1>1, <1>3, <1>5, HandFilled
  <2> QED
    BY <1>4, <1>5, <1>10, <2>1
<1>13. hands[t] = new /\ \A u \in Threads : u # t => hands[u] = vm.job[u]
  BY <1>1 DEF Hands
<1> HIDE DEF hands
<1>14. /\ vm' \in States /\ vm'.thread = threads /\ vm'.job = hands /\ vm'.newjobs = newjobs
       /\ vm'.key = vm.key /\ vm'.used = vm.used /\ vm'.file = vm.file
       /\ vm'.processed = vm.processed /\ vm'.pipe = vm.pipe
       /\ vm'.panic = vm.panic /\ vm'.data = vm.data /\ vm'.risked = vm.risked
       /\ SameClients(vm, vm')
  BY <1>1, <1>2, <1>3, <1>6, <1>12 DEF States, SameClients, NewQueues
<1>15. Queues(vm')
  <2>1. Signaling(vm') = Signaling(vm)
    BY <1>0, <1>2, <1>14 DEF Signaling
  <2>2. \A u \in Threads : threads[u] = "work" <=> hands[u] # NoJob
    BY <1>1, <1>2, <1>4, <1>13 DEF Queues
  <2> QED
    BY <1>1, <1>8, <1>12, <1>14, <2>1, <2>2 DEF Queues
<1> HIDE DEF k
<1>16. \A l \in Keys : l # k => Same(vm, vm', l)
  BY <1>8, <1>12, <1>14 DEF Same
<1>17. /\ JobsIn(vm'.newjobs, k) = {} /\ JobsIn(vm'.job, k) = {new}
       /\ JobsIn(vm'.processed, k) = {} /\ ActiveJobs(vm', k) = ActiveJobs(vm, k)
  BY <1>4, <1>8, <1>10, <1>11, <1>12, <1>14 DEF ActiveJobs
<1>18. PagesOf(vm', k) = PagesOf(vm, k)
  BY <1>14, <1>17 DEF PagesOf
<1>19. KeyInv(vm', k)
  <2>1. Stored(vm', k)
    BY <1>10, <1>14 DEF KeyInv, Stored, OnPages
  <2>2. \A job \in ActiveJobs(vm', k) : JobFits(vm', k, job)
    BY <1>10, <1>14, <1>17 DEF KeyInv, JobFits
  <2> QED
    BY <1>17, <2>1, <2>2 DEF KeyInv, OnePlace
<1>20. (errors = 0) => GoneOver(vm') /\ HasJob(vm', k)
  <2>1. (errors = 0) => GoneOver(vm) /\ HasJob(vm, k)
    BY <1>4 DEF VmInv, Exact
  <2> QED
    BY <1>14, <1>17, <2>1 DEF HasJob, GoneOver
<1>21. PagesOf(vm, k) \subseteq vm.used
  BY <1>4 DEF VmInv, PagesUsed
<1>22. VmInv(vm', errors = 0)
  BY <1>4, <1>14, <1>15, <1>16, <1>18, <1>19, <1>20, <1>21, OneKey
<1>23. NoWrites(vm.newjobs) => NoWrites(newjobs) /\ new.type # "DO_SWAP"
  BY <1>3 DEF NoWrites
<1>24. new.type # "DO_SWAP" /\ NoWrites(vm.job) => NoWrites(hands)
  BY <1>1, <1>12, <1>13 DEF NoWrites, Hands
<1> QED
  BY <1>14, <1>22, <1>23, <1>24

\* The job that a working thread has in hand.
LEMMA JobInHand ==
  ASSUME NEW exact, VmInv(vm, exact), NEW t \in Threads, vm.thread[t] = "work",
         NEW job, job = vm.job[t]
  PROVE  /\ job \in NewJobs /\ job.key \in Keys /\ job \in JobsIn(vm.job, job.key)
         /\ job \in ActiveJobs(vm, job.key)
         /\ JobFits(vm, job.key, job) /\ Stored(vm, job.key)
<1> DEFINE k == job.key
<1>1. vm \in States /\ vm.job \in Hands /\ Queues(vm)
  BY DEF VmInv, States
<1>2. job # NoJob /\ t \in DOMAIN vm.job
  BY <1>1 DEF Queues, Hands
<1>3. job \in NewJobs
  BY <1>1, <1>2 DEF Hands
<1>4. ~job.canceled /\ k \in Keys
  BY <1>3 DEF NewJobs, JobRecords
<1>5. Active(vm.job, t, k)
  BY <1>4 DEF Active
<1>6. job \in JobsIn(vm.job, k)
  BY <1>2, <1>5, InList
<1>7. job \in ActiveJobs(vm, k) /\ KeyInv(vm, k)
  BY <1>4, <1>6 DEF ActiveJobs, VmInv
<1> QED
  BY <1>3, <1>4, <1>6, <1>7 DEF KeyInv

\* What a thread makes of the job about k that it has in hand: the swap file, the
\* keys at risk, how many writes fell short, and the job.
Worked(job, k, file, risked, torn, out) ==
  /\ file \in Files /\ out \in JobRecords /\ torn \in Nat
  /\ out.key = k /\ out.type = job.type /\ out.page = job.page
  /\ risked = vm.risked \/ (job.type = "DO_SWAP" /\ risked = vm.risked \cup {k})
  /\ job.type # "DO_SWAP" => file = vm.file
  /\ \A p \in Pages \ PagesOf(vm, k) : file[p] = vm.file[p]
  /\ out.canceled => job.type = "DO_SWAP"
  /\ ~out.canceled =>
       /\ job.type = "LOAD" => out.val \in Values /\ (vm.data[k] # Lost => out.val = vm.data[k])
       /\ job.type = "PREPARE_SWAP" => out.val = job.val /\ out.pages = Size[out.val]
       /\ job.type = "DO_SWAP" =>
            /\ out = job
            /\ k \notin risked =>
                 \A p \in Run(job.page, job.pages) : p \in Pages /\ file[p] = job.val

\* The thread works, and is done with the job.
WorkDone(t, k, file, risked, torn, out) ==
  /\ Worked(vm.job[t], k, file, risked, torn, out)
  /\ vm' = [vm EXCEPT !.file = file, !.risked = risked, !.torn = torn,
                      !.processed = Append(vm.processed, out),
                      !.job = [vm.job EXCEPT ![t] = NoJob],
                      !.thread = [vm.thread EXCEPT ![t] = "signal"]]
  /\ errors' = errors + (IF out.canceled THEN 1 ELSE 0)

\* A thread that gets its job done without touching the swap file.
LEMMA FileLeft ==
  ASSUME NEW exact, VmInv(vm, exact), NEW t \in Threads, NEW k, NEW out,
         Worked(vm.job[t], k, vm.file, vm.risked, vm.torn, out),
         vm' = Processed(vm, t, out), errors \in Nat,
         errors' = errors + (IF out.canceled THEN 1 ELSE 0)
  PROVE  WorkDone(t, k, vm.file, vm.risked, vm.torn, out)
<1>1. vm \in States
  BY DEF VmInv
<1>2. vm' = [vm EXCEPT !.file = vm.file, !.risked = vm.risked, !.torn = vm.torn,
                       !.processed = Append(vm.processed, out),
                       !.job = [vm.job EXCEPT ![t] = NoJob],
                       !.thread = [vm.thread EXCEPT ![t] = "signal"]]
  BY <1>1 DEF Processed, States
<1> QED
  BY <1>2 DEF WorkDone

\* The process is gone when the value to load is not there, which it is unless it
\* is lost.
LEMMA LoadWorked ==
  ASSUME NEW exact, VmInv(vm, exact), errors \in Nat, NEW t \in Threads,
         vm.thread[t] = "work", NEW job, job = vm.job[t], ProcessLoad(t, job)
  PROVE  \/ vm' = Gone(vm) /\ errors' = errors /\ vm.data[job.key] = Lost
         \/ \E out : WorkDone(t, job.key, vm.file, vm.risked, vm.torn, out)
<1> DEFINE k == job.key
           v == ReadObjectFromSwap(vm, job.page)
           out == [job EXCEPT !.val = v]
<1>1. job \in NewJobs /\ k \in Keys /\ JobFits(vm, k, job)
  BY JobInHand
<1>2. job.type = "LOAD" /\ errors' = errors
      /\ vm' = IF v = None THEN Gone(vm) ELSE Processed(vm, t, out)
  BY DEF ProcessLoad
<1>3. v \in Values \cup {None} /\ (vm.data[k] # Lost => v = vm.data[k] /\ v \in Values)
  <2>1. vm.key[k].storage = "LOADING" /\ job.page = vm.key[k].page
    BY <1>1, <1>2 DEF JobFits
  <2> QED
    BY <1>1, <2>1, ValueRead
<1> HIDE DEF v
<1>4. None \notin Values
  BY VmAssumption
<1>5. CASE v = None
  BY <1>2, <1>3, <1>4, <1>5
<1>6. CASE v # None
  <2>1. /\ out \in JobRecords /\ out.key = k /\ out.type = job.type
        /\ out.page = job.page /\ ~out.canceled /\ out.val = v
    BY <1>1, <1>3 DEF NewJobs, JobRecords
  <2>2. vm.file \in Files /\ vm.torn \in Nat
    BY DEF VmInv, States
  <2> HIDE DEF out, k
  <2>3. Worked(vm.job[t], k, vm.file, vm.risked, vm.torn, out)
    BY <1>2, <1>3, <1>6, <2>1, <2>2 DEF Worked
  <2>4. vm' = Processed(vm, t, out) /\ errors' = errors + (IF out.canceled THEN 1 ELSE 0)
    BY <1>2, <1>6, <2>1
  <2> QED
    BY <2>3, <2>4, FileLeft DEF k
<1> QED
  BY <1>5, <1>6

LEMMA PrepareWorked ==
  ASSUME NEW exact, VmInv(vm, exact), errors \in Nat, NEW t \in Threads,
         vm.thread[t] = "work", NEW job, job = vm.job[t], ProcessPrepareSwap(t, job)
  PROVE  \E out : WorkDone(t, job.key, vm.file, vm.risked, vm.torn, out)
<1> DEFINE k == job.key
           out == [job EXCEPT !.pages = Size[job.val]]
<1>1. job \in NewJobs /\ k \in Keys /\ JobFits(vm, k, job)
  BY JobInHand
<1>2. job.type = "PREPARE_SWAP" /\ errors' = errors /\ vm' = Processed(vm, t, out)
  BY DEF ProcessPrepareSwap
<1>3. Size[job.val] \in 0 .. VmPages
  BY <1>1, <1>2, ZeroPage, VmAssumption DEF JobFits
<1>4. /\ out \in JobRecords /\ out.key = k /\ out.type = job.type /\ out.page = job.page
      /\ ~out.canceled /\ out.val = job.val /\ out.pages = Size[job.val]
  BY <1>1, <1>3 DEF NewJobs, JobRecords
<1>5. vm.file \in Files /\ vm.torn \in Nat
  BY DEF VmInv, States
<1> HIDE DEF out, k
<1>6. Worked(vm.job[t], k, vm.file, vm.risked, vm.torn, out)
  BY <1>2, <1>4, <1>5 DEF Worked
<1>7. errors' = errors + (IF out.canceled THEN 1 ELSE 0)
  BY <1>2, <1>4
<1> QED
  BY <1>2, <1>6, <1>7, FileLeft DEF k

\* A write that falls short puts the key at risk, one that cannot seek cancels
\* the job.
LEMMA SwapWorked ==
  ASSUME NEW exact, VmInv(vm, exact), errors \in Nat, NEW t \in Threads,
         vm.thread[t] = "work", NEW job, job = vm.job[t], ProcessDoSwap(t, job)
  PROVE  \E file, risked, torn, out : WorkDone(t, job.key, file, risked, torn, out)
<1> DEFINE k == job.key
<1>1. /\ job \in NewJobs /\ k \in Keys /\ job \in ActiveJobs(vm, k) /\ JobFits(vm, k, job)
      /\ job.type = "DO_SWAP"
  BY JobInHand DEF ProcessDoSwap
<1>2. /\ vm \in States /\ vm.file \in Files /\ vm.torn \in Nat
      /\ job \in JobRecords /\ ~job.canceled /\ job.pages \in Nat /\ job.page \in Nat
  <2>1. VmPages \in Nat
    BY ZeroPage
  <2> QED
    BY <1>1, <2>1 DEF VmInv, States, NewJobs, JobRecords, Pages
<1>3. /\ PagesOf(vm, k) = Run(job.page, job.pages) /\ Run(job.page, job.pages) \subseteq Pages
      /\ job.val \in Values
  BY <1>1, PagesOfKey DEF JobFits
<1> HIDE DEF k
<1>4. ASSUME NEW n \in 0 .. job.pages, errors' = errors,
             vm' = Processed(WriteObjectOnSwap(vm, job, n), t, job)
      PROVE  \E file, risked, torn, out : WorkDone(t, k, file, risked, torn, out)
  <2> DEFINE file == [p \in Pages |-> IF p \in Run(job.page, n) THEN job.val ELSE vm.file[p]]
             risked == IF n < job.pages THEN vm.risked \cup {k} ELSE vm.risked
             torn == IF n < job.pages THEN vm.torn + 1 ELSE vm.torn
  <2>1. Run(job.page, n) \subseteq Run(job.page, job.pages)
    BY <1>2 DEF Run
  <2>2. /\ file \in Files /\ \A p \in Pages : file[p] = IF p \in Run(job.page, n) THEN job.val
                                                       ELSE vm.file[p]
    BY <1>2, <1>3 DEF Files
  <2>3. torn \in Nat /\ (risked = vm.risked \/ risked = vm.risked \cup {k})
    BY <1>2
  <2>4. k \notin risked => n = job.pages
    BY <1>2
  <2>5. vm' = [vm EXCEPT !.file = file, !.risked = risked, !.torn = torn,
                         !.processed = Append(vm.processed, job),
                         !.job = [vm.job EXCEPT ![t] = NoJob],
                         !.thread = [vm.thread EXCEPT ![t] = "signal"]]
    <3>1. WriteObjectOnSwap(vm, job, n)
            = [vm EXCEPT !.file = file, !.risked = risked, !.torn = torn]
      BY DEF WriteObjectOnSwap, k
    <3> HIDE DEF file, risked, torn
    <3> QED
      BY <1>2, <1>4, <3>1 DEF Processed, States
  <2> HIDE DEF file, risked, torn
  <2>6. Worked(vm.job[t], k, file, risked, torn, job)
    BY <1>1, <1>2, <1>3, <2>1, <2>2, <2>3, <2>4 DEF Worked, k
  <2>7. errors' = errors + (IF job.canceled THEN 1 ELSE 0)
    BY <1>2, <1>4
  <2>8. WorkDone(t, k, file, risked, torn, job)
    BY <2>5, <2>6, <2>7 DEF WorkDone
  <2> QED
    BY <2>8
<1>5. ASSUME errors' = errors + 1, vm' = Processed(vm, t, [job EXCEPT !.canceled = TRUE])
      PROVE  \E file, risked, torn, out : WorkDone(t, k, file, risked, torn, out)
  <2> DEFINE out == [job EXCEPT !.canceled = TRUE]
  <2>1. /\ out \in JobRecords /\ out.key = k /\ out.type = job.type /\ out.page = job.page
        /\ out.canceled /\ vm' = Processed(vm, t, out)
    BY <1>2, <1>5 DEF JobRecords, k
  <2> HIDE DEF out
  <2>2. Worked(vm.job[t], k, vm.file, vm.risked, vm.torn, out)
    BY <1>1, <1>2, <2>1 DEF Worked
  <2>3. errors' = errors + (IF out.canceled THEN 1 ELSE 0)
    BY <1>5, <2>1
  <2>4. WorkDone(t, k, vm.file, vm.risked, vm.torn, out)
    BY <2>1, <2>2, <2>3, FileLeft
  <2> QED
    BY <2>4
<1> QED
  BY <1>4, <1>5, Zenon DEF ProcessDoSwap, k

LEMMA JobWorked ==
  ASSUME NEW exact, VmInv(vm, exact), errors \in Nat, NEW t \in Threads, ProcessJob(t)
  PROVE  /\ vm.thread[t] = "work"
         /\ \/ vm' = Gone(vm) /\ errors' = errors /\ \E k \in Keys : vm.data[k] = Lost
            \/ \E file, risked, torn, out :
                 WorkDone(t, vm.job[t].key, file, risked, torn, out)
<1>1. /\ vm.thread[t] = "work"
      /\ \/ ProcessLoad(t, vm.job[t])
         \/ ProcessPrepareSwap(t, vm.job[t])
         \/ ProcessDoSwap(t, vm.job[t])
  BY Zenon DEF ProcessJob
<1>2. vm.job[t].key \in Keys
  BY <1>1, JobInHand
<1> QED
  BY <1>1, <1>2, LoadWorked, PrepareWorked, SwapWorked

LEMMA SignalCounted ==
  ASSUME NEW exact, VmInv(vm, exact), NEW t \in Threads, NEW state \in {"take", "signal"},
         vm.thread[t] = IF state = "signal" THEN "work" ELSE "signal",
         NEW threads \in ThreadStates, threads[t] = state,
         \A u \in Threads : u # t => threads[u] = vm.thread[u]
  PROVE  Cardinality({u \in Threads : threads[u] = "signal"})
           = Cardinality(Signaling(vm)) + (IF state = "signal" THEN 1 ELSE -1)
<1> DEFINE old == Signaling(vm)
           now == {u \in Threads : threads[u] = "signal"}
<1>1. IsFiniteSet(old) /\ Cardinality(old) \in Nat
  BY PipeFits
<1>2. CASE state = "signal"
  <2>1. t \notin old /\ now = old \cup {t}
    BY <1>2 DEF Signaling
  <2> QED
    BY <1>1, <1>2, <2>1, FS_AddElement
<1>3. CASE state = "take"
  <2>1. t \in old /\ now = old \ {t}
    BY <1>3 DEF Signaling
  <2> QED
    BY <1>1, <1>3, <2>1, FS_RemoveElement
<1> QED
  BY <1>2, <1>3

LEMMA WorkProcessed ==
  ASSUME VmInv(vm, errors = 0), errors \in Nat, NEW t \in Threads, vm.thread[t] = "work",
         NEW file, NEW risked, NEW torn, NEW done,
         WorkDone(t, vm.job[t].key, file, risked, torn, done)
  PROVE  /\ VmInv(vm', errors' = 0) /\ errors' \in Nat /\ SameClients(vm, vm')
         /\ NoWrites(vm.newjobs) => NoWrites(vm'.newjobs)
         /\ NoWrites(vm.job) => NoWrites(vm'.job) /\ vm'.file = vm.file
<1> DEFINE job == vm.job[t]
           k == job.key
           threads == [vm.thread EXCEPT ![t] = "signal"]
           hands == [vm.job EXCEPT ![t] = NoJob]
           processed == Append(vm.processed, done)
<1>2. /\ vm \in States /\ Queues(vm) /\ vm.thread \in ThreadStates /\ vm.job \in Hands
      /\ vm.processed \in Seq(JobRecords) /\ vm.thread[t] = "work"
  BY DEF VmInv, States, DoneQueues
<1>3. /\ job \in NewJobs /\ k \in Keys /\ job \in JobsIn(vm.job, k)
      /\ Worked(job, k, file, risked, torn, done)
  BY JobInHand DEF WorkDone
<1>4. /\ threads \in ThreadStates /\ threads[t] = "signal"
      /\ \A u \in Threads : u # t => threads[u] = vm.thread[u]
  BY <1>2, ThreadMoved
<1>5. vm' = [vm EXCEPT !.file = file, !.risked = risked, !.torn = torn,
                       !.processed = processed, !.job = hands, !.thread = threads]
  BY DEF WorkDone
<1>6. done.canceled \in BOOLEAN /\ (done.canceled => errors' # 0)
      /\ (~done.canceled => errors' = errors) /\ errors' \in Nat
  BY <1>3 DEF Worked, JobRecords, WorkDone
<1>7. /\ file \in Files /\ done \in JobRecords /\ done.key = k /\ torn \in Nat
      /\ risked \in KeySets /\ \A l \in Keys : l # k => (l \in risked <=> l \in vm.risked)
  BY <1>2, <1>3 DEF Worked, States, KeySets
<1>8. processed \in Seq(JobRecords) /\ Len(processed) = Len(vm.processed) + 1
  BY <1>2, <1>7
<1>9. OneIn(vm.processed) /\ OneIn(vm.job) /\ t \in DOMAIN vm.job
  BY <1>2 DEF Queues, Hands
<1>10. KeyInv(vm, k) /\ JobsIn(vm.newjobs, k) = {} /\ JobsIn(vm.processed, k) = {}
  BY <1>3 DEF VmInv, KeyInv, OnePlace
<1>11. job.key = k /\ ~job.canceled /\ job.type \in JobTypes
  BY <1>3 DEF NewJobs, JobRecords
<1> HIDE DEF k, threads
<1>12. /\ OneIn(processed)
       /\ \A l : JobsIn(processed, l)
                   = JobsIn(vm.processed, l)
                     \cup (IF k = l /\ ~done.canceled THEN {done} ELSE {})
  <2>1. ASSUME NEW l
        PROVE  /\ JobsIn(processed, l)
                    = JobsIn(vm.processed, l)
                      \cup (IF done.key = l /\ ~done.canceled THEN {done} ELSE {})
               /\ OneIn(vm.processed) /\ (done.canceled \/ JobsIn(vm.processed, done.key) = {})
                    => OneIn(processed)
    BY <1>2, <1>7, JobAppended
  <2> HIDE DEF processed
  <2> QED
    BY <1>7, <1>9, <1>10, <2>1
<1>13. hands \in Hands /\ \E At : Without(hands, vm.job, t, At)
  BY <1>2, HandEmptied
<1>14. hands[t] = NoJob /\ \A u \in Threads : u # t => hands[u] = vm.job[u]
  BY <1>2 DEF Hands
<1>15. Active(vm.job, t, k) /\ \A l \in Keys : l # k => ~Active(vm.job, t, l)
  BY <1>11 DEF Active
<1> HIDE DEF hands, processed
<1>16. /\ OneIn(hands) /\ JobsIn(hands, k) = {}
       /\ \A l \in Keys : l # k => JobsIn(hands, l) = JobsIn(vm.job, l)
  <2>1. PICK At : Without(hands, vm.job, t, At)
    BY <1>13
  <2> QED
    BY <1>3, <1>9, <1>15, <2>1, JobGone
<1>17. /\ vm' \in States /\ vm'.file = file /\ vm'.processed = processed
       /\ vm'.risked = risked /\ vm'.job = hands /\ vm'.thread = threads
       /\ vm'.key = vm.key /\ vm'.used = vm.used /\ vm'.newjobs = vm.newjobs
       /\ vm'.pipe = vm.pipe /\ vm'.panic = vm.panic /\ vm'.data = vm.data
       /\ SameClients(vm, vm')
  BY <1>2, <1>4, <1>5, <1>7, <1>8, <1>13 DEF States, SameClients, DoneQueues
<1>18. Queues(vm')
  <2>1. Cardinality(Signaling(vm')) = Cardinality(Signaling(vm)) + 1
    BY <1>2, <1>4, <1>17, SignalCounted DEF Signaling
  <2>2. \A u \in Threads : threads[u] = "work" <=> hands[u] # NoJob
    BY <1>2, <1>4, <1>14 DEF Queues
  <2>3. vm.pipe \in Nat /\ Cardinality(Signaling(vm)) \in Nat
    BY PipeFits
  <2>4. Len(processed) = vm.pipe + Cardinality(Signaling(vm'))
    BY <1>2, <1>8, <2>1, <2>3, SMTT(30) DEF Queues
  <2> QED
    BY <1>2, <1>12, <1>16, <1>17, <2>2, <2>4 DEF Queues
<1>19. \A l \in Keys : l # k => Same(vm, vm', l)
  BY <1>7, <1>12, <1>16, <1>17 DEF Same
<1>20. /\ JobsIn(vm'.newjobs, k) = {} /\ JobsIn(vm'.job, k) = {}
       /\ JobsIn(vm'.processed, k) = IF done.canceled THEN {} ELSE {done}
       /\ ActiveJobs(vm', k) = IF done.canceled THEN {} ELSE {done}
  BY <1>10, <1>12, <1>16, <1>17 DEF ActiveJobs
<1>21. job \in ActiveJobs(vm, k) /\ JobFits(vm, k, job) /\ Stored(vm, k)
  BY <1>3, <1>10 DEF ActiveJobs, KeyInv
<1>22. \A p \in Pages \ PagesOf(vm, k) : vm'.file[p] = vm.file[p]
  BY <1>3, <1>17 DEF Worked
<1>23. Stored(vm', k)
  <2>1. CASE job.type = "LOAD"
    <3>1. vm'.file = vm.file /\ vm'.risked = vm.risked
      BY <1>3, <1>17, <2>1 DEF Worked
    <3> QED
      BY <1>17, <1>21, <3>1 DEF Stored, OnPages
  <2>2. CASE job.type # "LOAD"
    <3>1. vm.key[k].storage = "SWAPPING"
      BY <1>21, <2>2 DEF JobFits
    <3> QED
      BY <1>17, <1>21, <3>1 DEF Stored
  <2> QED
    BY <2>1, <2>2
<1>24. ASSUME ~done.canceled PROVE JobFits(vm', k, done) /\ JobDone(vm', k, done)
  <2>1. /\ done.type = job.type /\ done.page = job.page
        /\ job.type = "LOAD" =>
             done.val \in Values /\ (vm.data[k] # Lost => done.val = vm.data[k])
        /\ job.type = "PREPARE_SWAP" => done.val = job.val /\ done.pages = Size[done.val]
        /\ job.type = "DO_SWAP" =>
             /\ done = job
             /\ k \notin risked =>
                  \A p \in Run(job.page, job.pages) : p \in Pages /\ file[p] = job.val
        /\ k \in vm.risked => k \in risked
    BY <1>3, <1>24 DEF Worked
  <2>2. JobFits(vm', k, done)
    BY <1>11, <1>17, <1>21, <2>1 DEF JobFits, JobTypes
  <2>3. JobDone(vm', k, done)
    BY <1>11, <1>17, <1>21, <2>1 DEF JobFits, JobDone, JobTypes, OnPages
  <2> QED
    BY <2>2, <2>3
<1>25. KeyInv(vm', k)
  BY <1>20, <1>23, <1>24 DEF KeyInv, OnePlace
<1>26. PagesOf(vm', k) = IF done.canceled THEN {} ELSE PagesOf(vm, k)
  <2>1. CASE done.canceled
    <3>1. job.type = "DO_SWAP"
      BY <1>3, <2>1 DEF Worked
    <3>2. vm'.key[k].storage = "SWAPPING"
      BY <1>17, <1>21, <3>1 DEF JobFits
    <3>3. {j \in ActiveJobs(vm', k) : j.type = "DO_SWAP"} = {}
      BY <1>20, <2>1
    <3> QED
      BY <2>1, <3>2, <3>3 DEF PagesOf
  <2>2. CASE ~done.canceled
    <3>1. done.type = job.type /\ (job.type = "DO_SWAP" => done = job)
      BY <1>3, <2>2 DEF Worked
    <3>2. ActiveJobs(vm', k) = {done} /\ ActiveJobs(vm, k) = {job}
      <4>1. \A j \in ActiveJobs(vm, k) : j = job
        BY <1>2, <1>3, <1>10, <1>21, OneJob DEF KeyInv
      <4> QED
        BY <1>20, <1>21, <2>2, <4>1
    <3>3. {j \in ActiveJobs(vm', k) : j.type = "DO_SWAP"}
            = {j \in ActiveJobs(vm, k) : j.type = "DO_SWAP"}
      BY <3>1, <3>2
    <3> QED
      BY <1>17, <2>2, <3>3 DEF PagesOf
  <2> QED
    BY <2>1, <2>2
<1>27. PagesOf(vm, k) \subseteq vm.used
  BY <1>3 DEF VmInv, PagesUsed
<1>28. VmInv(vm', errors' = 0)
  <2>1. CASE done.canceled
    <3>1. VmInv(vm, FALSE)
      BY DEF VmInv
    <3>2. VmInv(vm', FALSE)
      <4>1. /\ PagesOf(vm', k) = {} /\ vm.used \ PagesOf(vm, k) \subseteq vm'.used
        BY <1>17, <1>26, <2>1
      <4> QED
        BY <1>3, <1>17, <1>18, <1>19, <1>22, <1>25, <3>1, <4>1, OneKeyOnFile
    <3> QED
      BY <1>6, <2>1, <3>2 DEF VmInv
  <2>2. CASE ~done.canceled
    <3>1. PagesOf(vm', k) = PagesOf(vm, k)
      BY <1>26, <2>2
    <3>2. (errors = 0) => GoneOver(vm') /\ HasJob(vm', k)
      <4>1. (errors = 0) => GoneOver(vm)
        BY DEF VmInv, Exact
      <4> QED
        BY <1>17, <1>20, <2>2, <4>1 DEF HasJob, GoneOver
    <3>3. VmInv(vm', errors = 0)
      BY <1>3, <1>17, <1>18, <1>19, <1>22, <1>25, <1>27, <3>1, <3>2, OneKeyOnFile
    <3> QED
      BY <1>6, <2>2, <3>3
  <2> QED
    BY <2>1, <2>2
<1>29. NoWrites(vm.job) => NoWrites(vm'.job) /\ vm'.file = vm.file
  <2> SUFFICES ASSUME NoWrites(vm.job) PROVE NoWrites(hands) /\ file = vm.file
    BY <1>17
  <2>1. job.type # "DO_SWAP"
    BY <1>9 DEF NoWrites
  <2>2. file = vm.file
    BY <1>3, <2>1 DEF Worked
  <2>3. NoJob.type # "DO_SWAP"
    BY DEF NoJob, Job
  <2>4. DOMAIN hands = Threads /\ DOMAIN vm.job = Threads
    BY <1>2, <1>13 DEF Hands
  <2>5. NoWrites(hands)
    BY <1>14, <2>3, <2>4 DEF NoWrites
  <2> QED
    BY <2>2, <2>5
<1> QED
  BY <1>6, <1>17, <1>28, <1>29

LEMMA JobProcessed ==
  ASSUME VmInv(vm, errors = 0), errors \in Nat, NEW t \in Threads, ProcessJob(t)
  PROVE  /\ VmInv(vm', errors' = 0) /\ errors' \in Nat /\ SameClients(vm, vm')
         /\ NoWrites(vm.newjobs) => NoWrites(vm'.newjobs)
         /\ NoWrites(vm.job) => NoWrites(vm'.job) /\ vm'.file = vm.file
<1>1. /\ vm.thread[t] = "work"
      /\ \/ vm' = Gone(vm) /\ errors' = errors /\ \E k \in Keys : vm.data[k] = Lost
         \/ \E file, risked, torn, out : WorkDone(t, vm.job[t].key, file, risked, torn, out)
  BY JobWorked
<1>2. CASE vm' = Gone(vm) /\ errors' = errors /\ \E k \in Keys : vm.data[k] = Lost
  <2>1. VmInv(vm', errors = 0) /\ Calm(vm, vm') /\ SameClients(vm, vm')
    BY <1>2, ProcessGone
  <2>2. VmInv(vm', errors' = 0)
    BY <1>2, <2>1
  <2> QED
    BY <1>2, <2>1, <2>2 DEF Calm
<1>3. CASE \E file, risked, torn, out : WorkDone(t, vm.job[t].key, file, risked, torn, out)
  BY <1>1, <1>3, WorkProcessed
<1> QED
  BY <1>1, <1>2, <1>3

LEMMA MainSignaled ==
  ASSUME VmInv(vm, errors = 0), NEW t \in Threads, SignalMain(t)
  PROVE  /\ VmInv(vm', errors = 0) /\ SameClients(vm, vm') /\ vm'.file = vm.file
         /\ vm'.newjobs = vm.newjobs /\ vm'.job = vm.job
<1> DEFINE threads == [vm.thread EXCEPT ![t] = "take"]
           pipe == vm.pipe + 1
<1>1. /\ vm \in States /\ Queues(vm) /\ vm.thread \in ThreadStates
      /\ vm.thread[t] = "signal" /\ vm.pipe \in Nat /\ Cardinality(Signaling(vm)) \in Nat
  BY PipeFits DEF VmInv, States, SignalMain
<1>2. /\ threads \in ThreadStates /\ threads[t] = "take"
      /\ \A u \in Threads : u # t => threads[u] = vm.thread[u]
  BY <1>1, ThreadMoved
<1>3. vm' = [vm EXCEPT !.pipe = pipe, !.thread = threads] /\ pipe \in Nat
  BY <1>1 DEF SignalMain
<1> HIDE DEF threads, pipe
<1>4. /\ vm' \in States /\ vm'.thread = threads /\ vm'.pipe = pipe
      /\ vm'.key = vm.key /\ vm'.used = vm.used /\ vm'.file = vm.file
      /\ vm'.newjobs = vm.newjobs /\ vm'.processed = vm.processed
      /\ vm'.job = vm.job /\ vm'.panic = vm.panic /\ vm'.data = vm.data
      /\ vm'.risked = vm.risked /\ SameClients(vm, vm')
  BY <1>1, <1>2, <1>3 DEF States, SameClients
<1>5. Queues(vm')
  <2>1. Cardinality(Signaling(vm')) = Cardinality(Signaling(vm)) + (-1)
    BY <1>1, <1>2, <1>4, SignalCounted DEF Signaling
  <2>2. \A u \in Threads : threads[u] = "work" <=> vm.job[u] # NoJob
    BY <1>1, <1>2 DEF Queues
  <2>3. Len(vm.processed) = pipe + Cardinality(Signaling(vm'))
    BY <1>1, <2>1 DEF Queues, pipe
  <2> QED
    BY <1>1, <1>4, <2>2, <2>3 DEF Queues
<1>6. \A k \in Keys : Same(vm, vm', k)
  BY <1>4 DEF Same
<1>7. VmInv(vm', errors = 0)
  BY <1>4, <1>5, <1>6, NoKey
<1> QED
  BY <1>4, <1>7

-----------------------------------------------------------------------------
(* The invariant, and the initial states.                                  *)

\* While a child runs nothing is to be written, and what it has to read is there.
ImageKept ==
  /\ ~child => image = <<>>
  /\ child => /\ NoWrites(vm.newjobs) /\ NoWrites(vm.job)
              /\ \A k \in DOMAIN image :
                   /\ image[k].page \in Pages /\ image[k].val \in Values
                   /\ OnPages(vm, image[k].page, image[k].val)

IInv == VmInv(vm, errors = 0) /\ ClientsInv(vm) /\ errors \in Nat /\ ImageKept

LEMMA InitVmInv ==
  ASSUME Init
  PROVE  VmInv(vm, errors = 0)
<1>1. /\ vm.key = [k \in Keys |-> Absent] /\ vm.used = {} /\ vm.file = [p \in Pages |-> None]
      /\ vm.newjobs = <<>> /\ vm.processed = <<>> /\ vm.pipe = 0
      /\ vm.thread = [t \in Threads |-> "off"] /\ vm.job = [t \in Threads |-> NoJob]
      /\ vm.io_keys = [k \in Keys |-> <<>>] /\ vm.wants = [c \in Clients |-> <<>>]
      /\ vm.cmd = [c \in Clients |-> NoCmd] /\ vm.ready = <<>> /\ vm.panic = FALSE
      /\ vm.stranded = {} /\ vm.data = [k \in Keys |-> None]
      /\ vm.risked = {} /\ vm.torn = 0
  BY DEF Init
<1>2. vm \in States
  <2>1. Absent \in KeyObjects
    BY ZeroPage DEF Absent, KeyObjects, Storages
  <2>2. /\ vm.key \in KeyTables /\ vm.used \in PageSets /\ vm.file \in Files
        /\ vm.newjobs \in NewQueues /\ vm.processed \in DoneQueues /\ vm.pipe \in Nat
        /\ vm.thread \in ThreadStates /\ vm.job \in Hands
        /\ vm.io_keys \in ClientLists /\ vm.wants \in KeyLists /\ vm.cmd \in Commands
        /\ vm.ready \in Ready /\ vm.panic \in BOOLEAN /\ vm.stranded \in ClientSets
        /\ vm.data \in Data /\ vm.risked \in KeySets /\ vm.torn \in Nat
    <3>1. vm.key \in KeyTables /\ vm.used \in PageSets
      BY <1>1, <2>1 DEF KeyTables, PageSets
    <3>2. vm.file \in Files /\ vm.data \in Data
      BY <1>1 DEF Files, Data
    <3>3. vm.newjobs \in NewQueues /\ vm.processed \in DoneQueues /\ vm.pipe \in Nat
      BY <1>1 DEF NewQueues, DoneQueues
    <3>4. vm.thread \in ThreadStates /\ vm.job \in Hands
      BY <1>1 DEF ThreadStates, Hands
    <3>5. vm.io_keys \in ClientLists /\ vm.wants \in KeyLists /\ vm.cmd \in Commands
      BY <1>1 DEF ClientLists, KeyLists, Commands
    <3>6. vm.ready \in Ready /\ vm.stranded \in ClientSets
      BY <1>1 DEF Ready, ClientSets
    <3>7. vm.panic \in BOOLEAN
      BY <1>1, Zenon
    <3>8. vm.risked \in KeySets /\ vm.torn \in Nat
      BY <1>1 DEF KeySets
    <3> QED
      BY <3>1, <3>2, <3>3, <3>4, <3>5, <3>6, <3>7, <3>8
  <2> QED
    BY <2>2 DEF Init, States
<1>3. ASSUME NEW list, DOMAIN list = {}
      PROVE  OneIn(list) /\ \A k \in Keys : JobsIn(list, k) = {}
  BY <1>3, InList DEF OneIn
<1>4. OneIn(vm.job) /\ \A k \in Keys : JobsIn(vm.job, k) = {}
  <2>1. \A t \in DOMAIN vm.job : \A k \in Keys : ~Active(vm.job, t, k)
    BY <1>1, VmAssumption DEF Active, NoJob, Job
  <2> QED
    BY <2>1, InList DEF OneIn
<1>5. DOMAIN vm.newjobs = {} /\ DOMAIN vm.processed = {} /\ Len(vm.processed) = 0
  BY <1>1
<1>6. \A k \in Keys : /\ JobsIn(vm.newjobs, k) = {} /\ JobsIn(vm.processed, k) = {}
                      /\ ActiveJobs(vm, k) = {} /\ vm.key[k] = Absent
  BY <1>1, <1>3, <1>4, <1>5 DEF ActiveJobs
<1>7. Queues(vm)
  <2>1. Cardinality(Signaling(vm)) = 0
    <3>1. Signaling(vm) = {}
      BY <1>1 DEF Signaling
    <3> QED
      BY <3>1, FS_EmptySet
  <2>2. \A t \in Threads : vm.thread[t] # "work" /\ vm.job[t] = NoJob
    BY <1>1
  <2> QED
    BY <1>1, <1>3, <1>4, <1>5, <2>1, <2>2 DEF Queues
<1>8. ASSUME NEW k \in Keys PROVE KeyInv(vm, k) /\ PagesOf(vm, k) = {} /\ HasJob(vm, k)
  <2>1. vm.key[k].storage = "absent"
    BY <1>6 DEF Absent
  <2>2. Stored(vm, k)
    BY <1>1, <1>6, <2>1 DEF Stored
  <2>3. PagesOf(vm, k) = {}
    BY <1>6, <2>1 DEF PagesOf
  <2> QED
    BY <1>6, <2>1, <2>2, <2>3 DEF KeyInv, OnePlace, HasJob
<1> QED
  BY <1>1, <1>2, <1>7, <1>8 DEF VmInv, PagesApart, PagesUsed, Exact, GoneOver

LEMMA InitInv == Init => IInv
<1> SUFFICES ASSUME Init PROVE IInv
  OBVIOUS
<1>1. ClientsInv(vm)
  <2>1. /\ \A c \in Clients : vm.wants[c] = <<>> /\ vm.cmd[c] = NoCmd
        /\ \A k \in Keys : vm.io_keys[k] = <<>>
        /\ vm.ready = <<>>
    BY DEF Init
  <2> QED
    BY <2>1, CountEmpty DEF ClientsInv, Agree, ReadyOnce, WaitersPaused, IoWait
<1>2. ImageKept /\ errors \in Nat
  BY DEF Init, ImageKept
<1> QED
  BY <1>1, <1>2, InitVmInv DEF IInv

-----------------------------------------------------------------------------
(* The steps.                                                              *)

LEMMA QuietImage ==
  ASSUME ImageKept, UNCHANGED <<child, image>>, child => Calm(vm, vm')
  PROVE  ImageKept'
  BY DEF ImageKept, Calm, OnPages

\* Handlers of the main thread.
LEMMA MainInv ==
  ASSUME IInv, UNCHANGED <<child, image, errors>>, Completes(vm, vm', errors = 0)
  PROVE  IInv'
  BY QuietImage DEF IInv, Completes

LEMMA HandlerInv ==
  ASSUME IInv, UNCHANGED <<child, image, errors>>, Handled(vm, vm', errors = 0)
  PROVE  IInv'
  BY MainInv DEF Handled, Completes

LEMMA CommandInv ==
  ASSUME IInv, NEW c \in Clients, ProcessCommand(c) \/ FreeClient(c)
  PROVE  IInv'
<1>1. Handled(vm, vm', errors = 0)
  BY CommandProcessed, ClientFreed DEF IInv
<1>2. UNCHANGED <<child, image, errors>>
  BY Zenon DEF ProcessCommand, FreeClient, forks
<1> QED
  BY <1>1, <1>2, HandlerInv

LEMMA ResumeInv ==
  ASSUME IInv, BeforeSleep
  PROVE  IInv'
<1>1. Handled(vm, vm', errors = 0)
  BY ClientsResumed DEF IInv
<1>2. UNCHANGED <<child, image, errors>>
  BY DEF BeforeSleep, forks
<1> QED
  BY <1>1, <1>2, HandlerInv

LEMMA CronInv ==
  ASSUME IInv, ServerCron
  PROVE  IInv'
<1>1. Handled(vm, vm', errors = 0)
  BY SwapHandled DEF IInv, ServerCron
<1>2. UNCHANGED <<child, image, errors>>
  BY DEF ServerCron, forks
<1> QED
  BY <1>1, <1>2, HandlerInv

LEMMA CompletedInv ==
  ASSUME IInv, ThreadedIOCompletedJob \/ WaitEmptyIOJobsQueue
  PROVE  IInv'
<1>1. PICK trytoswap \in BOOLEAN : CompletedJobs(trytoswap)
  BY DEF ThreadedIOCompletedJob, WaitEmptyIOJobsQueue
<1>2. ~vm.panic /\ UNCHANGED <<child, image, errors>>
  BY DEF ThreadedIOCompletedJob, WaitEmptyIOJobsQueue, MainRuns, forks
<1>3. Completes(vm, vm', errors = 0)
  BY <1>1, <1>2, JobsCompleted DEF IInv
<1> QED
  BY <1>2, <1>3, MainInv

\* I/O threads.
LEMMA ThreadInv ==
  ASSUME IInv, NEW t \in Threads, IOThreadEntryPoint(t)
  PROVE  IInv'
<1>1. UNCHANGED <<child, image>>
  <2>1. TakeJob(t) => UNCHANGED <<child, image>>
    BY Zenon DEF TakeJob, forks
  <2>2. ProcessJob(t) => UNCHANGED <<child, image>>
    BY Zenon DEF ProcessJob, forks
  <2>3. SignalMain(t) => UNCHANGED <<child, image>>
    BY Zenon DEF SignalMain, forks
  <2> QED
    BY <2>1, <2>2, <2>3 DEF IOThreadEntryPoint
<1>2. ASSUME VmInv(vm', errors' = 0), errors' \in Nat, SameClients(vm, vm'),
             NoWrites(vm.newjobs) => NoWrites(vm'.newjobs),
             NoWrites(vm.newjobs) /\ NoWrites(vm.job) =>
               NoWrites(vm'.job) /\ vm'.file = vm.file
      PROVE  IInv'
  <2>1. ClientsInv(vm')
    BY <1>2, ClientsKept DEF IInv
  <2>2. ImageKept'
    BY <1>1, <1>2 DEF IInv, ImageKept, OnPages
  <2> QED
    BY <1>2, <2>1, <2>2 DEF IInv
<1>3. CASE TakeJob(t)
  <2>1. vm.thread[t] = "take" /\ errors' = errors
    BY <1>3 DEF TakeJob
  <2>2. CASE vm.newjobs = <<>>
    <3>1. /\ VmInv(vm', errors = 0) /\ SameClients(vm, vm') /\ vm'.file = vm.file
          /\ vm'.newjobs = vm.newjobs /\ vm'.job = vm.job
      BY <1>3, <2>2, ThreadExits DEF IInv
    <3>2. VmInv(vm', errors' = 0) /\ errors' \in Nat
      BY <2>1, <3>1 DEF IInv
    <3> QED
      BY <1>2, <3>1, <3>2
  <2>3. CASE vm.newjobs # <<>>
    <3>1. /\ VmInv(vm', errors = 0) /\ SameClients(vm, vm') /\ vm'.file = vm.file
          /\ NoWrites(vm.newjobs) => NoWrites(vm'.newjobs)
          /\ NoWrites(vm.newjobs) /\ NoWrites(vm.job) => NoWrites(vm'.job)
      BY <1>3, <2>3, JobTakenUp DEF IInv
    <3>2. VmInv(vm', errors' = 0) /\ errors' \in Nat
      BY <2>1, <3>1 DEF IInv
    <3> QED
      BY <1>2, <3>1, <3>2
  <2> QED
    BY <2>2, <2>3
<1>4. CASE ProcessJob(t)
  <2>1. /\ VmInv(vm', errors' = 0) /\ errors' \in Nat /\ SameClients(vm, vm')
        /\ NoWrites(vm.newjobs) => NoWrites(vm'.newjobs)
        /\ NoWrites(vm.job) => NoWrites(vm'.job) /\ vm'.file = vm.file
    BY <1>4, JobProcessed DEF IInv
  <2> QED
    BY <1>2, <2>1
<1>5. CASE SignalMain(t)
  <2>1. errors' = errors
    BY <1>5 DEF SignalMain
  <2>2. /\ VmInv(vm', errors = 0) /\ SameClients(vm, vm') /\ vm'.file = vm.file
        /\ vm'.newjobs = vm.newjobs /\ vm'.job = vm.job
    BY <1>5, MainSignaled DEF IInv
  <2>3. VmInv(vm', errors' = 0) /\ errors' \in Nat
    BY <2>1, <2>2 DEF IInv
  <2> QED
    BY <1>2, <2>2, <2>3
<1> QED
  BY <1>3, <1>4, <1>5 DEF IOThreadEntryPoint

\* fork: the queues are empty, and the values on disk are on their pages.
LEMMA ForkInv ==
  ASSUME IInv, Fork
  PROVE  IInv'
<1>1. /\ vm' = vm /\ errors' = errors /\ child' = TRUE
      /\ image' = [k \in {k \in OnDisk : vm.data[k] # Lost} |->
                     [page |-> vm.key[k].page, val |-> vm.data[k]]]
      /\ vm.newjobs = <<>> /\ \A t \in Threads : vm.thread[t] = "off"
  BY DEF Fork, QueuesEmpty
<1>2. vm \in States /\ Queues(vm) /\ \A k \in Keys : Stored(vm, k)
  BY DEF IInv, VmInv, KeyInv
<1>3. NoWrites(vm.newjobs)
  BY <1>1 DEF NoWrites
<1>4. NoWrites(vm.job)
  <2>1. DOMAIN vm.job = Threads
    BY <1>2 DEF States, Hands
  <2>2. \A t \in Threads : vm.job[t] = NoJob
    BY <1>1, <1>2 DEF Queues
  <2> QED
    BY <2>1, <2>2 DEF NoWrites, NoJob, Job
<1>5. ASSUME NEW k \in DOMAIN image'
      PROVE  /\ image'[k].page \in Pages /\ image'[k].val \in Values
             /\ OnPages(vm', image'[k].page, image'[k].val)
  <2>1. k \in Keys /\ vm.key[k].storage \in {"SWAPPED", "LOADING"} /\ vm.data[k] # Lost
    BY <1>1 DEF OnDisk
  <2>2. image'[k].page = vm.key[k].page /\ image'[k].val = vm.data[k]
    BY <1>1
  <2>3. vm.key[k].page \in Pages
    BY <1>2, <2>1 DEF States, KeyTables, KeyObjects
  <2>4. vm.data[k] \in Values /\ OnPages(vm, vm.key[k].page, vm.data[k])
    BY <1>2, <2>1 DEF Stored
  <2> QED
    BY <1>1, <2>2, <2>3, <2>4
<1>6. ImageKept'
  BY <1>1, <1>3, <1>4, <1>5 DEF ImageKept
<1> QED
  BY <1>1, <1>6 DEF IInv

LEMMA ChildInv ==
  ASSUME IInv, StartSave \/ ChildExits \/ UNCHANGED vars
  PROVE  IInv'
<1>1. vm' = vm /\ errors' = errors
  BY DEF StartSave, ChildExits, vars
<1>2. ImageKept'
  <2>1. CASE UNCHANGED <<child, image>>
    BY <1>1, <2>1 DEF IInv, ImageKept
  <2>2. CASE ChildExits
    BY <2>2 DEF ChildExits, ImageKept
  <2> QED
    BY <2>1, <2>2 DEF StartSave, vars
<1> QED
  BY <1>1, <1>2 DEF IInv

LEMMA NextInv == IInv /\ [Next]_vars => IInv'
  BY CommandInv, ResumeInv, CronInv, CompletedInv, ThreadInv, ForkInv, ChildInv DEF Next

LEMMA Invariant == Spec => []IInv
  BY InitInv, NextInv, PTL DEF Spec

-----------------------------------------------------------------------------
(* The properties.                                                         *)

\* However commands, threads, the completion of jobs and their cancellation
\* interleave, and whichever swap writes cannot seek, the value of a key is where
\* its key object says, and it is what was stored last (lookupKey,
\* deleteIfSwapped, vmThreadedIOCompletedJob, vmCancelThreadedIOJob).  Exempt are
\* the values the code loses: overwritten by dictReplace (RENAME, SORT STORE,
\* MSET) on disk or on the way to it, or swapped by a write that fell short.
THEOREM ValuesAlwaysKept == Spec => []ValuesKept
<1>1. IInv => ValuesKept
  <2> SUFFICES ASSUME IInv, NEW k \in Keys, vm.data[k] # Lost
               PROVE  LET key == vm.key[k]
                      IN  \/ key.storage = "absent" /\ vm.data[k] = None
                          \/ key.storage \in {"MEMORY", "SWAPPING"} /\ key.val = vm.data[k]
                          \/ /\ key.storage \in {"SWAPPED", "LOADING"}
                             /\ key.val = None /\ key.pages = Size[vm.data[k]]
                             /\ ReadObjectFromSwap(vm, key.page) = vm.data[k]
    BY DEF ValuesKept
  <2>1. Stored(vm, k) /\ vm \in States
    BY DEF IInv, VmInv, KeyInv
  <2>2. vm.key[k].storage \in Storages /\ vm.key[k].page \in Pages
    BY <2>1 DEF States, KeyTables, KeyObjects
  <2>3. CASE vm.key[k].storage \in {"absent", "MEMORY", "SWAPPING"}
    BY <2>1, <2>3 DEF Stored
  <2>4. CASE vm.key[k].storage \in {"SWAPPED", "LOADING"}
    <3>1. /\ vm.data[k] \in Values /\ vm.key[k].val = None
          /\ vm.key[k].pages = Size[vm.data[k]] /\ OnPages(vm, vm.key[k].page, vm.data[k])
      BY <2>1, <2>4 DEF Stored
    <3>2. ReadObjectFromSwap(vm, vm.key[k].page) = vm.data[k]
      BY <2>2, <3>1, PagesRead
    <3> QED
      BY <2>4, <3>1, <3>2
  <2> QED
    BY <2>2, <2>3, <2>4 DEF Storages
<1> QED
  BY <1>1, Invariant, PTL

\* The places of a list with an active job about a key: one or none.
LEMMA ActiveCounted ==
  ASSUME NEW list, OneIn(list), NEW k \in Keys
  PROVE  Cardinality({i \in DOMAIN list : list[i].key = k /\ ~list[i].canceled})
           = IF JobsIn(list, k) = {} THEN 0 ELSE 1
<1> DEFINE I == {i \in DOMAIN list : Active(list, i, k)}
<1>1. {i \in DOMAIN list : list[i].key = k /\ ~list[i].canceled} = I
  BY DEF Active
<1>2. JobsIn(list, k) = {} <=> I = {}
  BY InList
<1>3. \A i, j \in I : i = j
  BY DEF OneIn
<1> HIDE DEF I
<1>4. CASE I = {}
  BY <1>1, <1>2, <1>4, FS_EmptySet
<1>5. CASE I # {}
  <2>1. PICK i : i \in I
    BY <1>5
  <2>2. I = {i}
    BY <1>3, <2>1
  <2> QED
    BY <1>1, <1>2, <1>5, <2>2, FS_Singleton
<1> QED
  BY <1>4, <1>5

LEMMA JobsCounted ==
  ASSUME NEW s, NEW k \in Keys, Queues(s), OnePlace(s, k)
  PROVE  JobCount(s, k) = IF ActiveJobs(s, k) = {} THEN 0 ELSE 1
<1> DEFINE In(list) == Cardinality({i \in DOMAIN list : list[i].key = k /\ ~list[i].canceled})
<1>1. /\ In(s.newjobs) = IF JobsIn(s.newjobs, k) = {} THEN 0 ELSE 1
      /\ In(s.processed) = IF JobsIn(s.processed, k) = {} THEN 0 ELSE 1
      /\ In(s.job) = IF JobsIn(s.job, k) = {} THEN 0 ELSE 1
  BY ActiveCounted DEF Queues
<1>2. JobCount(s, k) = In(s.newjobs) + In(s.processed) + In(s.job)
  BY DEF JobCount
<1>3. ActiveJobs(s, k) = {}
        <=> JobsIn(s.newjobs, k) = {} /\ JobsIn(s.processed, k) = {} /\ JobsIn(s.job, k) = {}
  BY DEF ActiveJobs
<1> HIDE DEF In
<1> QED
  BY <1>1, <1>2, <1>3 DEF OnePlace

\* As long as no swap write was unable to seek, the assertion of
\* vmCancelThreadedIOJob ("We should never reach this", redis.c:9607) does not
\* fail: a key that is swapped or loaded has exactly one active job, of its kind,
\* and no other has any, and if the process went down at all, by an assertion or
\* by _exit, a value is lost.  Whatever has failed, no page of the swap file has
\* two owners and every owned page is marked in the bitmap; until a write cannot
\* seek, no other page is.
THEOREM JobsAndPagesAlwaysMatchKeys == Spec => []JobsAndPagesMatchKeys
<1>1. IInv => JobsMatchKeys
  <2> SUFFICES ASSUME IInv, errors = 0 PROVE JobsMatchKeys
    BY DEF JobsMatchKeys
  <2>1. Exact(vm) /\ vm \in States /\ Queues(vm) /\ \A k \in Keys : KeyInv(vm, k)
    BY DEF IInv, VmInv
  <2>2. ASSUME NEW k \in Keys
        PROVE  /\ JobCount(vm, k)
                    = (IF vm.key[k].storage \in {"SWAPPING", "LOADING"} THEN 1 ELSE 0)
               /\ \A job \in ActiveJobs(vm, k) :
                    (job.type = "LOAD") <=> (vm.key[k].storage = "LOADING")
    <3>1. \A job \in ActiveJobs(vm, k) : JobFits(vm, k, job)
      BY <2>1 DEF KeyInv
    <3>2. JobCount(vm, k) = IF ActiveJobs(vm, k) = {} THEN 0 ELSE 1
      BY <2>1, JobsCounted DEF KeyInv
    <3>3. ActiveJobs(vm, k) = {} <=> ~ (vm.key[k].storage \in {"SWAPPING", "LOADING"})
      BY <2>1, <3>1 DEF JobFits, Exact, HasJob
    <3>4. \A job \in ActiveJobs(vm, k) :
            (job.type = "LOAD") <=> (vm.key[k].storage = "LOADING")
      BY <3>1 DEF JobFits
    <3> QED
      BY <3>2, <3>3, <3>4
  <2> QED
    BY <2>1, <2>2 DEF JobsMatchKeys, Exact, GoneOver
<1>2. IInv => PagesHaveOneOwner
  BY DEF IInv, VmInv, PagesApart, PagesUsed, Exact, PagesHaveOneOwner
<1> QED
  BY <1>1, <1>2, Invariant, PTL DEF JobsAndPagesMatchKeys

\* A saving child finds in the swap file, until it exits, the values of the keys
\* that were on disk, and not lost, when it was forked, although the parent goes on loading,
\* deleting and overwriting them: no DO_SWAP is left, and none is made while it
\* runs (waitEmptyIOJobsQueue, vmCanSwapOut).
THEOREM ImageAlwaysIntact == Spec => []ImageIntact
<1>1. IInv => ImageIntact
  <2> SUFFICES ASSUME IInv, NEW k \in DOMAIN image
               PROVE  ReadObjectFromSwap(vm, image[k].page) = image[k].val
    BY DEF ImageIntact
  <2>1. child
    BY DEF IInv, ImageKept
  <2>2. /\ image[k].page \in Pages /\ image[k].val \in Values
        /\ OnPages(vm, image[k].page, image[k].val)
    BY <2>1 DEF IInv, ImageKept
  <2> QED
    BY <2>2, PagesRead
<1> QED
  BY <1>1, Invariant, PTL

\* The clients that wait for a key, as the key and as the clients say, are the
\* same, as often; a suspended client that waits for no key is in the list of
\* those to resume, once, and nobody else is (waitForSwappedKey,
\* handleClientsBlockedOnSwappedKey, beforeSleep, freeClient).
THEOREM WaitersAlwaysAgree == Spec => []WaitersAgree
<1>1. IInv => WaitersAgree
  BY DEF IInv, ClientsInv, Agree, ReadyOnce, Count, WaitersAgree
<1> QED
  BY <1>1, Invariant, PTL
=============================================================================
