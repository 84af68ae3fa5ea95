--------------------------------- MODULE Ae ---------------------------------
(***************************************************************************)
(* ae.c over ae_epoll.c: file events and what epoll is told of them, the   *)
(* list of timers, and one turn of the loop.                               *)
(*                                                                         *)
(* A handler is a record of what it does to the loop, as the handlers of   *)
(* redis.c do: it may free a client, which takes its events away, queue a  *)
(* reply for one, take a new connection under a descriptor that is free,   *)
(* or find its own reply sent.  calls lists the handlers of this turn.     *)
(***************************************************************************)
EXTENDS Integers, Sequences, SequencesExt

CONSTANTS Setsize,       \* AE_SETSIZE
          Thousand       \* milliseconds in a second

Bits == {"r", "w"}
Fds == 0..(Setsize - 1)

Proc(does, fd) == [does |-> does, fd |-> fd]
NoProc == Proc("none", 0)
ReadQuery == Proc("read", 0)
SendReply == Proc("sent", 0)

\* One is called again after n milliseconds, one makes a timer of n milliseconds,
\* one deletes the others; all but the first are called once.
TimeProc(does, n) == [does |-> does, n |-> n]

AeCreateEventLoop ==
  [events |-> [fd \in Fds |-> [mask |-> {}, r |-> NoProc, w |-> NoProc]], maxfd |-> -1, epoll |-> <<>>,
   timers |-> <<>>, nextid |-> 0, now |-> [sec |-> 0, ms |-> 0], calls |-> <<>>]

-----------------------------------------------------------------------------
(* File events.                                                            *)

\* epoll_ctl: the interest in fd, {} removes it.
EpollCtl(l, fd, mask) ==
  LET others == DOMAIN l.epoll \ {fd}
  IN  [l EXCEPT !.epoll = [d \in IF mask = {} THEN others ELSE others \cup {fd} |->
                             IF d = fd THEN mask ELSE l.epoll[d]]]

AeApiAddEvent(l, fd, mask) == EpollCtl(l, fd, mask \cup l.events[fd].mask)
AeApiDelEvent(l, fd, delmask) == EpollCtl(l, fd, l.events[fd].mask \ delmask)

\* epoll may refuse the descriptor.
AeCreateFileEvent(l, fd, mask, proc, accepted) ==
  LET e == l.events[fd]
      set == [mask |-> e.mask \cup mask, r |-> IF "r" \in mask THEN proc ELSE e.r,
              w |-> IF "w" \in mask THEN proc ELSE e.w]
  IN  IF fd >= Setsize \/ ~accepted THEN l
      ELSE [AeApiAddEvent(l, fd, mask) EXCEPT !.events[fd] = set, !.maxfd = IF fd > @ THEN fd ELSE @]

\* The highest descriptor below fd that has an event, or -1.
Below(events, fd) ==
  LET used == {d \in 0..(fd - 1) : events[d].mask # {}}
  IN  IF used = {} THEN -1 ELSE CHOOSE d \in used : \A e \in used : e <= d

AeDeleteFileEvent(l, fd, mask) ==
  LET left == [l.events EXCEPT ![fd].mask = @ \ mask]
      maxfd == IF fd = l.maxfd /\ left[fd].mask = {} THEN Below(left, fd) ELSE l.maxfd
  IN  IF fd >= Setsize \/ l.events[fd].mask = {} THEN l
      ELSE AeApiDelEvent([l EXCEPT !.events = left, !.maxfd = maxfd], fd, mask)

-----------------------------------------------------------------------------
(* Timers, the newest first.                                               *)

\* aeAddMillisecondsToNow
After(now, n) ==
  LET ms == now.ms + (n % Thousand)
      carry == IF ms >= Thousand THEN 1 ELSE 0
  IN  [sec |-> now.sec + (n \div Thousand) + carry, ms |-> ms - carry * Thousand]

Due(now, when) == now.sec > when.sec \/ (now.sec = when.sec /\ now.ms >= when.ms)

AeCreateTimeEvent(l, n, proc) ==
  [l EXCEPT !.nextid = @ + 1,
            !.timers = <<[id |-> l.nextid, when |-> After(l.now, n), proc |-> proc]>> \o @]

AeDeleteTimeEvent(l, id) == [l EXCEPT !.timers = SelectSeq(@, LAMBDA te : te.id # id)]

\* Of timers that are due at the same time the first.
AeSearchNearestTimer(l) ==
  LET Earlier(a, b) == a.sec < b.sec \/ (a.sec = b.sec /\ a.ms < b.ms)
      T == l.timers
  IN  T[CHOOSE i \in DOMAIN T : /\ \A j \in DOMAIN T : ~Earlier(T[j].when, T[i].when)
                                /\ \A j \in 1..(i - 1) : Earlier(T[i].when, T[j].when)]

\* What a handler does before it returns.
CallTimer(l, te) ==
  LET called == [l EXCEPT !.calls = Append(@, [fd |-> -1, bit |-> "t", id |-> te.id, proc |-> NoProc])]
  IN  CASE te.proc.does \in {"again", "once"} -> called
        [] te.proc.does = "spawn" -> AeCreateTimeEvent(called, te.proc.n, TimeProc("once", 0))
        [] te.proc.does = "drop" -> [called EXCEPT !.timers = SelectSeq(@, LAMBDA o : o.id = te.id)]

RECURSIVE TimersFrom(_, _, _)

\* The list from position p on, from the head again after every call.
TimersFrom(l, p, maxId) ==
  LET te == l.timers[p]
      called == CallTimer(l, te)
      rearmed == [i \in DOMAIN called.timers |->
                    IF called.timers[i].id # te.id THEN called.timers[i]
                    ELSE [called.timers[i] EXCEPT !.when = After(l.now, te.proc.n)]]
  IN  IF p > Len(l.timers) THEN l
      ELSE IF te.id > maxId \/ ~Due(l.now, te.when) THEN TimersFrom(l, p + 1, maxId)
      ELSE TimersFrom(IF te.proc.does = "again" THEN [called EXCEPT !.timers = rearmed]
                      ELSE AeDeleteTimeEvent(called, te.id), 1, maxId)

ProcessTimeEvents(l) == TimersFrom(l, 1, l.nextid - 1)

-----------------------------------------------------------------------------
(* A turn.                                                                 *)

\* The time to the nearest timer, with which epoll_wait is called.
Timeout(l) ==
  LET shortest == AeSearchNearestTimer(l).when
      borrow == IF shortest.ms < l.now.ms THEN 1 ELSE 0
      sec == shortest.sec - l.now.sec - borrow
      ms == shortest.ms + borrow * Thousand - l.now.ms
  IN  (IF sec < 0 THEN 0 ELSE sec) * Thousand + ms

Run(l, fd, proc) ==
  CASE proc.does \in {"none", "read"} -> l
    [] proc.does = "sent" -> AeDeleteFileEvent(l, fd, {"w"})
    [] proc.does = "free" -> AeDeleteFileEvent(AeDeleteFileEvent(l, proc.fd, {"r"}), proc.fd, {"w"})
    [] proc.does = "reply" -> IF l.events[proc.fd].mask = {} THEN l
                              ELSE AeCreateFileEvent(l, proc.fd, {"w"}, SendReply, TRUE)
    [] proc.does = "accept" -> IF l.events[proc.fd].mask # {} THEN l
                               ELSE AeCreateFileEvent(l, proc.fd, {"r"}, ReadQuery, TRUE)

Called(l, fd, bit) ==
  LET proc == l.events[fd][bit]
  IN  Run([l EXCEPT !.calls = Append(@, [fd |-> fd, bit |-> bit, id |-> -1, proc |-> proc])], fd, proc)

\* One descriptor of those that fired.
FileEvent(l, fd, mask) ==
  LET rfired == "r" \in l.events[fd].mask \cap mask
      read == IF rfired THEN Called(l, fd, "r") ELSE l
      e == read.events[fd]
  IN  IF "w" \in e.mask \cap mask /\ (~rfired \/ e.w # e.r) THEN Called(read, fd, "w") ELSE read

Elapse(l, n) == [l EXCEPT !.now = After(@, n)]

\* After elapsed milliseconds in beforeSleep fired is what epoll_wait returns;
\* nothing when no descriptor was ready until the timeout.
AeProcessEvents(l, elapsed, fired) ==
  LET asleep == Elapse([l EXCEPT !.calls = <<>>], elapsed)
      awake == IF fired = <<>> THEN Elapse(asleep, Timeout(asleep)) ELSE asleep
  IN  ProcessTimeEvents(FoldLeft(LAMBDA m, f : FileEvent(m, f.fd, f.mask), awake, fired))

\* What epoll_wait may return: descriptors with any of the events asked for; with
\* none of them when only an error is reported.
Fired(l) ==
  LET some == UNION {{[fd |-> fd, mask |-> mask] : mask \in SUBSET l.epoll[fd]} : fd \in DOMAIN l.epoll}
  IN  {<<a>> : a \in some} \cup {p \in some \X some : p[1].fd # p[2].fd}
      \cup (IF l.timers = <<>> THEN {} ELSE {<<>>})

AeExec(l, c) ==
  LET a == c.args
  IN  CASE c.name = "create" -> AeCreateFileEvent(l, a[1], a[2], a[3], a[4])
        [] c.name = "delete" -> AeDeleteFileEvent(l, a[1], a[2])
        [] c.name = "timer" -> AeCreateTimeEvent(l, a[1], a[2])
        [] c.name = "untimer" -> AeDeleteTimeEvent(l, a[1])
        [] c.name = "turn" -> AeProcessEvents(l, a[1], a[2])

-----------------------------------------------------------------------------
(* What is expected of it.                                                 *)

\* epoll is interested in what the events say, maxfd is the last descriptor that
\* has one, the timers have different identifiers, the newest first.
LoopOK(l) ==
  /\ DOMAIN l.epoll = {fd \in Fds : l.events[fd].mask # {}}
  /\ \A fd \in DOMAIN l.epoll : l.epoll[fd] = l.events[fd].mask /\ \A bit \in l.epoll[fd] : l.events[fd][bit] # NoProc
  /\ l.maxfd = Below(l.events, Setsize)
  /\ \A i, j \in DOMAIN l.timers : i < j => l.timers[i].id > l.timers[j].id
  /\ \A te \in ToSet(l.timers) : te.id < l.nextid /\ te.when.ms \in 0..(Thousand - 1)

\* Call j takes the event away, or sets one.
TakesAway(call, fd, bit) ==
  (call.proc.does = "free" /\ call.proc.fd = fd) \/ (call.proc.does = "sent" /\ call.fd = fd /\ bit = "w")
SetsEvent(call, fd) == call.proc.does \in {"reply", "accept"} /\ call.proc.fd = fd

\* In a turn a handler is called for an event that was ready, once, and not when
\* an earlier handler of the turn has taken the event away and none has set it
\* again; one that is not called was taken away, or is the one just called.
FilesAgree(calls, fired) ==
  /\ \A f \in ToSet(fired) : \A bit \in f.mask :
       \/ \E i \in DOMAIN calls : calls[i].fd = f.fd /\ (calls[i].bit = bit \/ bit = "w")
       \/ \E i \in DOMAIN calls : TakesAway(calls[i], f.fd, bit)
  /\ \A i \in DOMAIN calls : calls[i].fd # -1 =>
       /\ \E f \in ToSet(fired) : f.fd = calls[i].fd /\ calls[i].bit \in f.mask
       /\ \A j \in 1..(i - 1) :
            /\ <<calls[j].fd, calls[j].bit>> # <<calls[i].fd, calls[i].bit>>
            /\ TakesAway(calls[j], calls[i].fd, calls[i].bit) =>
                 \E k \in (j + 1)..(i - 1) : SetsEvent(calls[k], calls[i].fd)

Milliseconds(t) == t.sec * Thousand + t.ms

\* A timer is called when its time has come, once, unless another one has deleted
\* it; those made in the turn wait for the next.
TimersAgree(l, t) ==
  LET called == {t.calls[i].id : i \in {i \in DOMAIN t.calls : t.calls[i].fd = -1}}
  IN  /\ \A i, j \in DOMAIN t.calls : i # j /\ t.calls[i].fd = -1 => t.calls[i].id # t.calls[j].id
      /\ \A te \in ToSet(l.timers) :
           IF te.id \in called THEN Milliseconds(te.when) <= Milliseconds(t.now)
           ELSE Milliseconds(te.when) > Milliseconds(t.now) \/ \A o \in ToSet(t.timers) : o.id # te.id
      /\ \A id \in called : id < l.nextid

\* Without anything to do the loop sleeps until the nearest timer, no longer.
\* (When a timer has been due for a while already it sleeps up to a second.)
SleepAgrees(l, elapsed) ==
  LET asleep == Elapse(l, elapsed)
      missing == Milliseconds(AeSearchNearestTimer(l).when) - Milliseconds(asleep.now)
  IN  l.timers # <<>> => IF missing >= 0 THEN Timeout(asleep) = missing ELSE Timeout(asleep) \in 0..(Thousand - 1)

\* t is what has become of l.
AeAgrees(l, c, t) ==
  c.name = "turn" => FilesAgree(t.calls, c.args[2]) /\ TimersAgree(l, t) /\ SleepAgrees(l, c.args[1])

=============================================================================
