----------------------------- MODULE BlockingPop -----------------------------
(***************************************************************************)
(* Blocking list pops and MULTI/EXEC in redis.c.  A client that finds no   *)
(* element is put in the list of every key it waits for; a push hands its  *)
(* element to the first client of the key's list and then, still inside    *)
(* the push, runs what that client has sent in the meantime.               *)
(*                                                                         *)
(* Commands nest, so the C stack is modelled: while it is not empty only   *)
(* its top frame moves.  A frame is a call of processInputBuffer           *)
(* ("input"), of call and the command in it ("run", then "rest" or "exec", *)
(* then "done"), or of closeTimedoutClients ("cron").                      *)
(*                                                                         *)
(* Lists are pushed at the tail and popped at the head: LPUSH and BRPOP    *)
(* differ in the end they take.  RPOPLPUSH goes on with a list node that    *)
(* the client it serves may free: see NodeStaysAlive.                      *)
(***************************************************************************)
EXTENDS Integers, Sequences, FiniteSets, SequencesExt, Functions

CONSTANTS
  Clients,
  Keys,
  Requests,   \* client -> the requests it may send: [op, keys, timed]
  Limit,      \* bound: op -> how many requests of that kind are sent
  MaxRequests \* bound: how many requests are sent

\* A request has the keys its command takes; BLPOP and BRPOP, at least one
\* and none twice (the bookkeeping of a key named twice is not modelled).
WellFormed(req) ==
  /\ req.keys \in Seq(Keys) /\ req.timed \in BOOLEAN
  /\ \/ req.op = "push" /\ Len(req.keys) = 1
     \/ req.op = "pop" /\ Len(req.keys) > 0 /\ IsInjective(req.keys)
     \/ req.op \in {"rename", "rpoplpush"} /\ Len(req.keys) = 2
     \/ req.op \in {"multi", "exec", "discard", "quit"}

ASSUME RequestsAssumption == \A c \in Clients : \A req \in Requests[c] : WellFormed(req)

ASSUME LimitAssumption == "push" \in DOMAIN Limit /\ Limit["push"] \in Nat

VARIABLES
  lists,      \* key -> its list
  waiting,    \* db->blockingkeys: key -> the clients blocked for it
  blockingkeys, \* client -> the keys it is blocked for, <<>> when it is not
  blockingto, \* client -> "none", "running" or "over"
  querybuf,   \* client -> the requests received and not processed
  multi,      \* the clients with REDIS_MULTI
  mstate,     \* client -> the commands queued since MULTI
  stack,      \* the C stack, innermost frame first
  dirty,      \* server.dirty
  aof,        \* the commands call and EXEC have propagated
  sent,       \* op -> how many requests of that kind were sent
  arrival,    \* history: the blocked clients in order of arrival
  got,        \* history: client -> the elements it was given
  misfed      \* history: a command was propagated that changed nothing itself

clientState == <<blockingkeys, blockingto, querybuf, multi, mstate>>
vars == <<lists, waiting, clientState, stack, dirty, aof, sent, arrival, got, misfed>>

-----------------------------------------------------------------------------
Init ==
  /\ lists = [k \in Keys |-> <<>>] /\ waiting = [k \in Keys |-> <<>>]
  /\ blockingkeys = [c \in Clients |-> <<>>] /\ blockingto = [c \in Clients |-> "none"]
  /\ querybuf = [c \in Clients |-> <<>>]
  /\ multi = {} /\ mstate = [c \in Clients |-> <<>>]
  /\ stack = <<>> /\ dirty = 0 /\ aof = <<>>
  /\ sent = [op \in DOMAIN Limit |-> 0]
  /\ arrival = <<>> /\ got = [c \in Clients |-> <<>>] /\ misfed = FALSE

Top == Head(stack)
Callers == Tail(stack)
Idle == stack = <<>>

\* own: the command has itself changed the dataset it leaves behind.
Frame(c, cmd, at) == [who |-> c, cmd |-> cmd, before |-> dirty, at |-> at, own |-> FALSE]

NoCmd == [op |-> "none", keys |-> <<>>, timed |-> FALSE, ele |-> 0]

\* The top frame goes on at another place, with the calls it makes above it.
GoTo(at, own, calls) == stack' = calls \o <<[Top EXCEPT !.at = at, !.own = own]>> \o Callers

Return == stack' = Callers

-----------------------------------------------------------------------------
(* Blocking and unblocking.                                                *)

Blocked(c) == blockingkeys[c] # <<>>

\* listDelNode of what listSearchKey finds.
Without(seq, c) == RemoveFirst(seq, c)

BlockForKeys(c, keys, timed) ==
  /\ blockingkeys' = [blockingkeys EXCEPT ![c] = keys]
  /\ blockingto' = [blockingto EXCEPT ![c] = IF timed THEN "running" ELSE "none"]
  /\ waiting' = [k \in Keys |-> IF k \in ToSet(keys)
                                  THEN Append(waiting[k], c) ELSE waiting[k]]
  /\ arrival' = Append(arrival, c)

\* unblockClientWaitingData, up to the call of processInputBuffer.
UnblockClientWaitingData(c) ==
  /\ waiting' = [k \in Keys |-> IF k \in ToSet(blockingkeys[c])
                                  THEN Without(waiting[k], c) ELSE waiting[k]]
  /\ blockingkeys' = [blockingkeys EXCEPT ![c] = <<>>]
  /\ blockingto' = [blockingto EXCEPT ![c] = "none"]
  /\ arrival' = Without(arrival, c)

\* The input a client has sent ahead is processed at once.
ProcessesInput(c) == IF querybuf[c] # <<>> THEN <<Frame(c, NoCmd, "input")>> ELSE <<>>

-----------------------------------------------------------------------------
(* The commands: what cmd->proc does, in the frame of call.                *)

Gives(c, e) == got' = [got EXCEPT ![c] = Append(@, e)]

\* Mutant of Receiver: the newest of the waiting clients is served.
ReceiverLast(k) == Last(waiting[k])

Receiver(k) == Head(waiting[k])

\* handleClientsWaitingListPush, when somebody waits.
Serve(k, e, at, own) ==
  LET receiver == Receiver(k)
  IN  /\ waiting[k] # <<>>
      /\ Gives(receiver, e)
      /\ UnblockClientWaitingData(receiver)
      /\ GoTo(at, own, ProcessesInput(receiver))

\* Mutant of Push: server.dirty does not change.
PushUncounted(k, e) ==
  \/ /\ Serve(k, e, "done", FALSE)
     /\ UNCHANGED <<lists, querybuf, dirty>>
  \/ /\ waiting[k] = <<>>
     /\ lists' = [lists EXCEPT ![k] = Append(@, e)]
     /\ GoTo("done", TRUE, <<>>)
     /\ UNCHANGED <<waiting, blockingkeys, blockingto, querybuf, arrival, got, dirty>>

\* pushGenericCommand.
Push(k, e) ==
  \/ /\ Serve(k, e, "done", FALSE)
     /\ UNCHANGED <<lists, querybuf, dirty>>
  \/ /\ waiting[k] = <<>>
     /\ lists' = [lists EXCEPT ![k] = Append(@, e)]
     /\ dirty' = dirty + 1
     /\ GoTo("done", TRUE, <<>>)
     /\ UNCHANGED <<waiting, blockingkeys, blockingto, querybuf, arrival, got>>

\* blockingPopGenericCommand: pop from the first list with an element, give
\* up inside a transaction, or block.
Full(keys) == {i \in DOMAIN keys : lists[keys[i]] # <<>>}

BlockingPopGenericCommand(c, keys, timed) ==
  \/ /\ Full(keys) # {}
     /\ LET k == keys[CHOOSE i \in Full(keys) : \A j \in Full(keys) : i <= j]
        IN  Gives(c, Head(lists[k])) /\ lists' = [lists EXCEPT ![k] = Tail(@)]
     /\ dirty' = dirty + 1
     /\ GoTo("done", TRUE, <<>>)
     /\ UNCHANGED <<waiting, blockingkeys, blockingto, arrival>>
  \/ /\ Full(keys) = {} /\ c \in multi
     /\ GoTo("done", FALSE, <<>>)
     /\ UNCHANGED <<lists, waiting, blockingkeys, blockingto, arrival, got, dirty>>
  \/ /\ Full(keys) = {} /\ c \notin multi
     /\ BlockForKeys(c, keys, timed)
     /\ GoTo("done", FALSE, <<>>)
     /\ UNCHANGED <<lists, got, dirty>>

\* renameGenericCommand: it does not look at who waits for the new name.
Rename(k, l) ==
  /\ IF k = l \/ lists[k] = <<>>
       THEN GoTo("done", FALSE, <<>>) /\ UNCHANGED <<lists, dirty>>
       ELSE /\ lists' = [lists EXCEPT ![k] = <<>>, ![l] = lists[k]]
            /\ dirty' = dirty + 1
            /\ GoTo("done", TRUE, <<>>)
  /\ UNCHANGED <<waiting, blockingkeys, blockingto, arrival, got>>

\* rpoplpushcommand: the last element of a list is handed over or stored.
Rpoplpush(k, l) ==
  \/ /\ lists[k] = <<>>
     /\ GoTo("done", FALSE, <<>>)
     /\ UNCHANGED <<lists, waiting, blockingkeys, blockingto, arrival, got, dirty>>
  \/ /\ lists[k] # <<>>
     /\ Serve(l, Last(lists[k]), "done", FALSE)
     /\ lists' = [lists EXCEPT ![k] = Front(@)]
     /\ dirty' = dirty + 1
  \/ /\ lists[k] # <<>> /\ waiting[l] = <<>>
     /\ LET rest == [lists EXCEPT ![k] = Front(@)]
        IN  lists' = [rest EXCEPT ![l] = <<Last(lists[k])>> \o @]
     /\ dirty' = dirty + 1
     /\ GoTo("done", TRUE, <<>>)
     /\ UNCHANGED <<waiting, blockingkeys, blockingto, arrival, got>>

ListCommand(c, cmd) ==
  /\ CASE cmd.op = "push"      -> Push(cmd.keys[1], cmd.ele)
       [] cmd.op = "pop"       -> /\ BlockingPopGenericCommand(c, cmd.keys, cmd.timed)
                                  /\ UNCHANGED querybuf
       [] cmd.op = "rename"    -> Rename(cmd.keys[1], cmd.keys[2]) /\ UNCHANGED querybuf
       [] cmd.op = "rpoplpush" -> /\ Rpoplpush(cmd.keys[1], cmd.keys[2])
                                  /\ UNCHANGED querybuf
  /\ UNCHANGED <<multi, mstate, aof>>

MultiCommand(c) ==
  /\ multi' = multi \cup {c}
  /\ GoTo("done", FALSE, <<>>)
  /\ UNCHANGED <<mstate, aof>>

DiscardCommand(c) ==
  /\ multi' = multi \ {c}
  /\ mstate' = [mstate EXCEPT ![c] = <<>>]
  /\ GoTo("done", FALSE, <<>>)
  /\ UNCHANGED aof

\* execCommand, up to the first queued command: MULTI is propagated.
ExecCommand(c) ==
  /\ IF c \in multi
       THEN GoTo("exec", FALSE, <<>>) /\ aof' = Append(aof, [NoCmd EXCEPT !.op = "multi"])
       ELSE GoTo("done", FALSE, <<>>) /\ UNCHANGED aof
  /\ UNCHANGED <<multi, mstate>>

\* call, at the command.
Run ==
  /\ ~Idle /\ Top.at = "run"
  /\ LET c == Top.who  cmd == Top.cmd
     IN  \/ cmd.op \in {"push", "pop", "rename", "rpoplpush"} /\ ListCommand(c, cmd)
         \/ /\ \/ cmd.op = "multi" /\ MultiCommand(c)
               \/ cmd.op = "discard" /\ DiscardCommand(c)
               \/ cmd.op = "exec" /\ ExecCommand(c)
            /\ UNCHANGED <<lists, waiting, blockingkeys, blockingto, querybuf, dirty,
                           arrival, got>>
  /\ UNCHANGED <<sent, misfed>>

\* execCommand: call for each queued command, then the end of the transaction.
ExecNext ==
  /\ ~Idle /\ Top.at = "exec"
  /\ LET c == Top.who
     IN  IF mstate[c] # <<>>
           THEN /\ GoTo("exec", FALSE, <<Frame(c, Head(mstate[c]), "run")>>)
                /\ mstate' = [mstate EXCEPT ![c] = Tail(@)]
                /\ UNCHANGED <<multi, dirty>>
           ELSE /\ GoTo("done", TRUE, <<>>)
                /\ multi' = multi \ {c} /\ dirty' = dirty + 1
                /\ UNCHANGED mstate
  /\ UNCHANGED <<lists, waiting, blockingkeys, blockingto, querybuf, aof, sent, arrival,
                 got, misfed>>

\* call, after the command: it is propagated when server.dirty has changed.
CallReturns ==
  /\ ~Idle /\ Top.at = "done"
  /\ IF dirty # Top.before
       THEN aof' = Append(aof, Top.cmd) /\ misfed' = (misfed \/ ~Top.own)
       ELSE UNCHANGED <<aof, misfed>>
  /\ Return
  /\ UNCHANGED <<lists, waiting, clientState, dirty, sent, arrival, got>>

-----------------------------------------------------------------------------
(* Clients.                                                                *)

\* freeClient.
FreeClient(c) ==
  /\ UnblockClientWaitingData(c)
  /\ querybuf' = [querybuf EXCEPT ![c] = <<>>]
  /\ multi' = multi \ {c} /\ mstate' = [mstate EXCEPT ![c] = <<>>]

\* processInputBuffer and processCommand, one command at a time.
ProcessInputBuffer ==
  /\ ~Idle /\ Top.at = "input"
  /\ LET c == Top.who
     IN  IF Blocked(c) \/ querybuf[c] = <<>>
           THEN Return /\ UNCHANGED <<waiting, clientState, arrival>>
           ELSE LET cmd == Head(querybuf[c])
                IN  \/ /\ cmd.op = "quit"
                       /\ FreeClient(c) /\ Return
                    \/ /\ cmd.op # "quit"
                       /\ querybuf' = [querybuf EXCEPT ![c] = Tail(@)]
                       /\ IF c \in multi /\ cmd.op \notin {"exec", "discard"}
                            THEN /\ mstate' = [mstate EXCEPT ![c] = Append(@, cmd)]
                                 /\ UNCHANGED stack
                            ELSE /\ stack' = <<Frame(c, cmd, "run")>> \o stack
                                 /\ UNCHANGED mstate
                       /\ UNCHANGED <<waiting, blockingkeys, blockingto, multi, arrival>>
  /\ UNCHANGED <<lists, dirty, aof, sent, got, misfed>>

\* Bound: RPOPLPUSH comes alone, to serve clients that have sent nothing ahead.
NodeStaysAlive(c, req) ==
  req.op = "rpoplpush" =>
    /\ ~Blocked(c) /\ c \notin multi
    /\ \A d \in ToSet(waiting[req.keys[2]]) : querybuf[d] = <<>>

\* readQueryFromClient: a request arrives, also while the client is blocked.
ReadQueryFromClient(c, req) ==
  /\ Idle /\ NodeStaysAlive(c, req)
  /\ FoldFunction(+, 0, sent) < MaxRequests
  /\ sent[req.op] < Limit[req.op] /\ sent' = [sent EXCEPT ![req.op] = @ + 1]
  /\ LET ele == IF req.op = "push" THEN sent[req.op] + 1 ELSE 0
         cmd == [op |-> req.op, keys |-> req.keys, timed |-> req.timed, ele |-> ele]
     IN  querybuf' = [querybuf EXCEPT ![c] = Append(@, cmd)]
  /\ stack' = IF Blocked(c) THEN <<>> ELSE <<Frame(c, NoCmd, "input")>>
  /\ UNCHANGED <<lists, waiting, blockingkeys, blockingto, multi, mstate, dirty, aof,
                 arrival, got, misfed>>

\* The connection is lost, or idle for longer than maxidletime; the client
\* may come back as a new one.
Disconnect(c) ==
  /\ Idle /\ Blocked(c)
  /\ FreeClient(c)
  /\ UNCHANGED <<lists, stack, dirty, aof, sent, got, misfed>>

\* serverCron calls closeTimedoutClients: some timeouts are over.
ServerCron(over) ==
  /\ Idle /\ over # {}
  /\ \A c \in over : blockingto[c] = "running"
  /\ blockingto' = [c \in Clients |-> IF c \in over THEN "over" ELSE blockingto[c]]
  /\ stack' = <<Frame(CHOOSE c \in over : TRUE, NoCmd, "cron")>>
  /\ UNCHANGED <<lists, waiting, blockingkeys, querybuf, multi, mstate, dirty, aof, sent,
                 arrival, got, misfed>>

\* Mutant of CloseTimedoutClients: clients with requests pending are passed over.
CloseQuietClients ==
  /\ ~Idle /\ Top.at = "cron"
  /\ LET over == {c \in Clients : blockingto[c] = "over" /\ querybuf[c] = <<>>}
     IN  \/ /\ over = {}
            /\ Return /\ UNCHANGED <<waiting, blockingkeys, blockingto, arrival>>
         \/ \E c \in over :
              /\ UnblockClientWaitingData(c)
              /\ stack' = ProcessesInput(c) \o stack
  /\ UNCHANGED <<lists, querybuf, multi, mstate, dirty, aof, sent, got, misfed>>

\* closeTimedoutClients goes on to the next client it finds, in any order.
CloseTimedoutClients ==
  /\ ~Idle /\ Top.at = "cron"
  /\ LET over == {c \in Clients : blockingto[c] = "over"}
     IN  \/ /\ over = {}
            /\ Return /\ UNCHANGED <<waiting, blockingkeys, blockingto, arrival>>
         \/ \E c \in over :
              /\ UnblockClientWaitingData(c)
              /\ stack' = ProcessesInput(c) \o stack
  /\ UNCHANGED <<lists, querybuf, multi, mstate, dirty, aof, sent, got, misfed>>

-----------------------------------------------------------------------------
ServerStep ==
  \/ Run \/ ExecNext \/ CallReturns
  \/ ProcessInputBuffer
  \/ CloseTimedoutClients

Next ==
  \/ ServerStep
  \/ \E c \in Clients : \E req \in Requests[c] : ReadQueryFromClient(c, req)
  \/ \E c \in Clients : Disconnect(c)
  \/ \E over \in SUBSET Clients : ServerCron(over)

\* The server goes on, and time passes for every client.
Fairness ==
  /\ WF_vars(ServerStep)
  /\ \A c \in Clients : SF_vars(\E over \in SUBSET Clients : c \in over /\ ServerCron(over))

Spec == Init /\ [][Next]_vars /\ Fairness

-----------------------------------------------------------------------------
Elements == 1..Limit["push"]

\* Values have their types, and the two sides of blocking agree: a client is
\* in the list of exactly the keys it remembers, once, in order of arrival.
TypeOK ==
  /\ lists \in [Keys -> Seq(Elements)] /\ got \in [Clients -> Seq(Elements)]
  /\ blockingto \in [Clients -> {"none", "running", "over"}]
  /\ \A f \in ToSet(stack) : f.at \in {"input", "run", "exec", "done", "cron"}
  /\ ToSet(arrival) = {c \in Clients : Blocked(c)}
  /\ \A k \in Keys :
       waiting[k] = SelectSeq(arrival, LAMBDA c : k \in ToSet(blockingkeys[c]))

\* The dataset that replaying the propagated commands builds: nobody waits.
Applied(ls, cmd) ==
  LET full == {i \in DOMAIN cmd.keys : ls[cmd.keys[i]] # <<>>}
  IN  CASE cmd.op = "push" -> [ls EXCEPT ![cmd.keys[1]] = Append(@, cmd.ele)]
        [] cmd.op = "pop" /\ full # {} ->
             [ls EXCEPT ![cmd.keys[CHOOSE i \in full : \A j \in full : i <= j]] = Tail(@)]
        [] cmd.op = "rename" /\ ls[cmd.keys[1]] # <<>> ->
             [ls EXCEPT ![cmd.keys[1]] = <<>>, ![cmd.keys[2]] = ls[cmd.keys[1]]]
        [] cmd.op = "rpoplpush" /\ ls[cmd.keys[1]] # <<>> ->
             LET rest == [ls EXCEPT ![cmd.keys[1]] = Front(@)]
             IN  [rest EXCEPT ![cmd.keys[2]] = <<Last(ls[cmd.keys[1]])>> \o @]
        [] OTHER -> ls

\* Between two events, what was propagated rebuilds the lists, unless a
\* command that stored nothing was propagated: an RPOPLPUSH that served a
\* waiting client, or a push that did and whose client's own requests then
\* changed server.dirty under it.
LogExactUnlessMisfed ==
  Idle /\ ~misfed => FoldLeft(Applied, [k \in Keys |-> <<>>], aof) = lists

\* Elements go to the client that has waited longest, to one place only, and
\* nobody waits for a list that had an element when it came.
PopKeys == {req.keys : req \in {r \in UNION {Requests[c] : c \in Clients} : r.op = "pop"}}

Abstract == INSTANCE FairQueue WITH
  KeyLists <- PopKeys,
  queue <- [i \in DOMAIN arrival |-> [who |-> arrival[i], keys |-> blockingkeys[arrival[i]]]]

ImplementsFairQueue == Abstract!Init /\ [][Abstract!Next]_(Abstract!vars)

\* A client that blocks with a timeout is answered or served, whatever other
\* clients send.
TimeoutsAnswered ==
  \A c \in Clients : blockingto[c] = "running" ~> blockingto[c] = "none"

=============================================================================
