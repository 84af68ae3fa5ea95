----------------------------- MODULE Networking -----------------------------
(***************************************************************************)
(* Clients and the event loop (redis.c 1252-1278, 2003-2454, 2586-2764,    *)
(* 2872-2905; ae.c): a client's bytes arrive in pieces of any size, are    *)
(* parsed as inline, bulk or multi bulk requests and dispatched; replies   *)
(* are lists of objects written in pieces of any size.  The commands are   *)
(* those of PubSub and PING, so one client's request fills the reply list  *)
(* of others.                                                              *)
(*                                                                         *)
(* A byte is a token: a word, a number, or the end of a line (CRLF is one  *)
(* token, and a bulk of n tokens is followed by one).  An argument is a    *)
(* sequence of tokens; the words of a line are separated by themselves.    *)
(* A handler of the event loop runs in steps, one per iteration of its     *)
(* loop; no other handler runs meanwhile.                                  *)
(***************************************************************************)
EXTENDS PubSub, SequencesExt

CONSTANTS
  Scripts,          \* client -> what its peer may send: sequences of requests
  IobufLen,         \* REDIS_IOBUF_LEN
  MaxClients,       \* the values of server.maxclients
  RequestMaxSize,   \* REDIS_REQUEST_MAX_SIZE
  GlueReplyUpTo,    \* GLUEREPLY_UP_TO
  MaxWritePerEvent, \* REDIS_MAX_WRITE_PER_EVENT
  WritevThreshold,  \* REDIS_WRITEV_THRESHOLD
  IovecCount        \* REDIS_WRITEV_IOVEC_COUNT

ASSUME SizesAssumption ==
  {IobufLen, RequestMaxSize, GlueReplyUpTo, MaxWritePerEvent, WritevThreshold, IovecCount}
    \subseteq Nat \ {0}

ASSUME PatternsAssumption == IsFiniteSet(Patterns)

Words == STRING

\* A request has at least a name; its arguments are texts of words.
ASSUME ScriptsAssumption ==
  \A c \in Clients : \A s \in Scripts[c] :
    s \in Seq([form : {"inline", "bulk", "multi", "raw"}, argv : Seq(Seq(Words)) \ {<<>>}])

VARIABLES
  config,           \* server.glueoutputbuf and server.maxclients
  script,           \* client -> what its peer sends
  gone,             \* the clients that were freed or refused
  unread,           \* client -> the tokens in its socket
  parser,           \* client -> querybuf, argv and the state of the request
  reply,            \* c->reply
  sentlen,          \* c->sentlen
  writable,         \* the clients with an AE_WRITABLE event
  running,          \* the handler that runs, or None
  executed,         \* history: client -> the requests answered
  promised,         \* history: client -> the tokens of all its replies
  wire              \* history: client -> the tokens written to its socket

output == <<reply, writable, promised>>
netvars == <<psvars, config, script, gone, unread, parser, output, sentlen, running,
             executed, wire>>

None == [c |-> "", at |-> "idle"]

NL == "\r\n"
Numbers == <<"0", "1", "2", "3">>
Stars == <<"*0", "*1", "*2", "*3">>
Dollars == <<"$0", "$1", "$2", "$3">>

\* atoi of a token, after the * or $ of a protocol line; 0 when it is no number.
Atoi(t) ==
  IF t \in {"-1", "$-1"} THEN -1
  ELSE IF \E i \in 1..4 : t \in {Numbers[i], Stars[i], Dollars[i]}
    THEN (CHOOSE i \in 1..4 : t \in {Numbers[i], Stars[i], Dollars[i]}) - 1
    ELSE 0

-----------------------------------------------------------------------------
(* The peers: a request is sent inline, with a last bulk argument, or as a *)
(* multi bulk request; "raw" is sent as it is.                             *)

BulkOf(arg) == <<Dollars[Len(arg) + 1], NL>> \o arg \o <<NL>>

Encoded(r) ==
  CASE r.form = "inline" -> FlattenSeq(r.argv) \o <<NL>>
    [] r.form = "bulk" -> FlattenSeq(Front(r.argv)) \o <<Numbers[Len(Last(r.argv)) + 1], NL>>
                          \o Last(r.argv) \o <<NL>>
    [] r.form = "multi" -> <<Stars[Len(r.argv) + 1], NL>>
                           \o FlattenSeq([i \in DOMAIN r.argv |-> BulkOf(r.argv[i])])
    [] r.form = "raw" -> FlattenSeq(r.argv)

Sent(s) == FlattenSeq([i \in DOMAIN s |-> Encoded(s[i])])

Requested(c) ==
  LET asked == SelectSeq(script[c], LAMBDA r : r.form # "raw")
  IN  [i \in DOMAIN asked |-> asked[i].argv]

-----------------------------------------------------------------------------
NewParser == [querybuf |-> <<>>, argv |-> <<>>, mbargv |-> <<>>, bulklen |-> -1, multibulk |-> 0]

ResetClient(p) == [p EXCEPT !.argv = <<>>, !.mbargv = <<>>, !.bulklen = -1, !.multibulk = 0]

NetInit ==
  /\ PsInit
  /\ config \in [glueoutputbuf : BOOLEAN, maxclients : MaxClients]
  /\ script \in {s \in [Clients -> UNION Range(Scripts)] : \A c \in Clients : s[c] \in Scripts[c]}
  /\ gone = {}
  /\ unread = [c \in Clients |-> Sent(script[c])]
  /\ parser = [c \in Clients |-> NewParser]
  /\ reply = [c \in Clients |-> <<>>] /\ sentlen = [c \in Clients |-> 0]
  /\ writable = {}
  /\ running = None
  /\ executed = [c \in Clients |-> <<>>]
  /\ promised = [c \in Clients |-> <<>>] /\ wire = [c \in Clients |-> <<>>]

\* addReply: new is a function from clients to the objects each gets.
AddReplies(new) ==
  /\ reply' = [c \in Clients |-> reply[c] \o new[c]]
  /\ writable' = writable \cup {c \in Clients : reply[c] = <<>> /\ new[c] # <<>>}
  /\ promised' = [c \in Clients |-> promised[c] \o FlattenSeq(new[c])]

AddReply(c, objects) == AddReplies([d \in Clients |-> IF d = c THEN objects ELSE <<>>])

\* freeClient, the end of the handler.
FreeClient(c) ==
  /\ FreeSubscriber(c)
  /\ gone' = gone \cup {c}
  /\ unread' = [unread EXCEPT ![c] = <<>>]
  /\ parser' = [parser EXCEPT ![c] = NewParser]
  /\ reply' = [reply EXCEPT ![c] = <<>>] /\ sentlen' = [sentlen EXCEPT ![c] = 0]
  /\ writable' = writable \ {c}
  /\ executed' = [executed EXCEPT ![c] = <<>>]
  /\ promised' = [promised EXCEPT ![c] = <<>>] /\ wire' = [wire EXCEPT ![c] = <<>>]
  /\ running' = None
  /\ UNCHANGED <<config, script>>

-----------------------------------------------------------------------------
(* The event loop: one handler at a time.                                  *)

AcceptHandler(c) ==
  /\ running = None /\ c \notin connected \cup gone
  /\ IF config.maxclients # 0 /\ Cardinality(connected) + 1 > config.maxclients
       THEN gone' = gone \cup {c} /\ UNCHANGED psvars
       ELSE Connect(c) /\ UNCHANGED gone
  /\ UNCHANGED <<config, script, unread, parser, output, sentlen, running, executed, wire>>

ReadQueryFromClient(c) ==
  /\ running = None /\ c \in connected
  /\ \E n \in 1..Min({IobufLen, Len(unread[c])}) :
       /\ parser' = [parser EXCEPT ![c].querybuf = @ \o SubSeq(unread[c], 1, n)]
       /\ unread' = [unread EXCEPT ![c] = SubSeq(@, n + 1, Len(@))]
  /\ running' = [c |-> c, at |-> "input"]
  /\ UNCHANGED <<psvars, config, script, gone, output, sentlen, executed, wire>>

\* The peer closes its end, or reading fails.
Hangup(c) == running = None /\ c \in connected /\ FreeClient(c)

\* serverCron: the client has been idle for maxidletime.
CloseTimedoutClients(c) ==
  /\ running = None /\ c \in connected
  /\ ~Subscribed(c)
  /\ FreeClient(c)

-----------------------------------------------------------------------------
(* processCommand: p is the parser with the words or the bulk just read.   *)

Arity == [subscribe |-> -2, unsubscribe |-> -1, psubscribe |-> -2, punsubscribe |-> -1,
          publish |-> 3, ping |-> 1]
BulkCommands == {"publish"}
PubsubCommands == {"subscribe", "unsubscribe", "psubscribe", "punsubscribe"}

Name(p) == p.argv[1][1]
WrongArity(p) ==
  \/ Arity[Name(p)] > 0 /\ Len(p.argv) # Arity[Name(p)]
  \/ Len(p.argv) < -Arity[Name(p)]

\* The parser state is left as p, processInputBuffer goes on ("goto again").
Again(c, p) ==
  /\ parser' = [parser EXCEPT ![c] = p]
  /\ running' = IF p.querybuf = <<>> THEN None ELSE running
  /\ UNCHANGED <<psvars, config, script, gone, unread, sentlen, wire>>

Continue(c, p) == Again(c, p) /\ UNCHANGED <<output, executed>>

\* The request is answered with an error and nothing else.
Refuse(c, p) ==
  /\ Again(c, ResetClient(p))
  /\ AddReply(c, <<<<"-ERR">>>>)
  /\ executed' = [executed EXCEPT ![c] = Append(@, p.argv)]

ProtocolError(c, p) ==
  Again(c, ResetClient(p)) /\ AddReply(c, <<<<"-ERR">>>>) /\ UNCHANGED executed

\* Mutant of TakeBulk: the argument keeps its end of line.
TakeBulkWithCrlf(p) ==
  [p EXCEPT !.argv = Append(@, SubSeq(p.querybuf, 1, p.bulklen)),
            !.querybuf = SubSeq(@, p.bulklen + 1, Len(@))]

\* A bulk is in the buffer: it is the next argument, its end of line is dropped.
TakeBulk(p) ==
  [p EXCEPT !.argv = Append(@, SubSeq(p.querybuf, 1, p.bulklen - 1)),
            !.querybuf = SubSeq(@, p.bulklen + 1, Len(@))]

Answered(c, p) == executed' = [executed EXCEPT ![c] = Append(@, p.argv)]

Receivers(ch) ==
  {<<c, "">> : c \in {d \in Clients : channel_clients[ch][d] > 0}}
  \cup {x \in Clients \X MatchingPatterns(ch) : pattern_clients[x[2]][x[1]] > 0}

\* What one client is sent of a message, its patterns in the order of q.
MessageTo(c, ch, message, q) ==
  (IF channel_clients[ch][c] > 0 THEN <<<<"message">>, <<ch>>, message>> ELSE <<>>)
  \o FlattenSeq([i \in DOMAIN q |->
       IF q[i] \in MatchingPatterns(ch) /\ pattern_clients[q[i]][c] > 0
         THEN <<<<"pmessage", q[i]>>, <<ch>>, message>> ELSE <<>>])

\* A channel nobody ever subscribed to is in no table of the server.
Publish(c, p) ==
  LET ch == p.argv[2][1]
  IN  \E order \in [Clients -> SetToSeqs(Patterns)] :
        /\ PubsubPublishMessage(ch, p.argv[3])
        /\ AddReplies([d \in Clients |->
             MessageTo(d, ch, p.argv[3], order[d])
             \o (IF d = c THEN <<<<ToString(Cardinality(Receivers(ch)))>>>> ELSE <<>>)])

\* call and the resetClient after it.
Call(c, p) ==
  /\ Answered(c, p)
  /\ \/ /\ Name(p) = "ping"
        /\ AddReply(c, <<<<"+PONG">>>>) /\ UNCHANGED psvars
        /\ running' = IF p.querybuf = <<>> THEN None ELSE running
     \/ /\ Name(p) = "publish"
        /\ Publish(c, p)
        /\ running' = IF p.querybuf = <<>> THEN None ELSE running
     \/ /\ Name(p) \in PubsubCommands
        /\ running' = [c |-> c, at |-> Name(p), args |-> Tail(p.argv), all |-> Len(p.argv) = 1]
        /\ UNCHANGED <<psvars, output>>
  /\ parser' = [parser EXCEPT ![c] = ResetClient(p)]
  /\ UNCHANGED <<config, script, gone, unread, sentlen, wire>>

Execute(c, p) ==
  IF Subscribed(c) /\ Name(p) \notin PubsubCommands THEN Refuse(c, p) ELSE Call(c, p)

\* The request is complete, but for the last argument of a bulk command.
Dispatch(c, p) ==
  IF Name(p) = "quit" THEN FreeClient(c)
  ELSE IF Name(p) \notin DOMAIN Arity THEN Refuse(c, p)
  ELSE IF WrongArity(p) THEN Refuse(c, p)
  ELSE IF Name(p) \in BulkCommands /\ p.bulklen = -1
    THEN LET n == Atoi(Last(p.argv)[1])
             wanting == [p EXCEPT !.argv = Front(@), !.bulklen = n + 1]
         IN  IF n < 0 THEN ProtocolError(c, p)
             ELSE IF Len(p.querybuf) >= wanting.bulklen THEN Execute(c, TakeBulk(wanting))
             ELSE Continue(c, wanting)
  ELSE Execute(c, p)

MultibulkCount(c, p) ==
  LET n == Atoi(p.argv[1][1])
  IN  IF n <= 0 THEN Continue(c, ResetClient(p))
      ELSE Continue(c, [p EXCEPT !.multibulk = n, !.argv = <<>>])

MultibulkLength(c, p) ==
  LET n == Atoi(p.argv[1][1])
  IN  IF p.argv[1][1] \notin Range(Dollars) \cup {"$-1"} \/ n < 0 THEN ProtocolError(c, p)
      ELSE Continue(c, [p EXCEPT !.argv = <<>>, !.bulklen = n + 1])

MultibulkArgument(c, p) ==
  LET mbargv == Append(p.mbargv, p.argv[1])
  IN  IF p.multibulk = 1
        THEN Dispatch(c, [p EXCEPT !.argv = mbargv, !.mbargv = <<>>, !.multibulk = 0, !.bulklen = 0])
        ELSE Continue(c, [p EXCEPT !.argv = <<>>, !.mbargv = mbargv, !.multibulk = @ - 1,
                                   !.bulklen = -1])

ProcessCommand(c, p) ==
  IF p.multibulk = 0
    THEN IF Len(p.argv) = 1 /\ Name(p) \in Range(Stars) THEN MultibulkCount(c, p)
         ELSE Dispatch(c, p)
    ELSE IF p.bulklen = -1 THEN MultibulkLength(c, p) ELSE MultibulkArgument(c, p)

-----------------------------------------------------------------------------
(* One iteration of processInputBuffer.                                    *)

HandlerReturns(c) ==
  /\ running' = None
  /\ UNCHANGED <<psvars, config, script, gone, unread, parser, output, sentlen, executed, wire>>

ProcessLine(c) ==
  LET p == parser[c]
      end == SelectInSeq(p.querybuf, LAMBDA t : t = NL)
      read == [p EXCEPT !.argv = [i \in 1..end - 1 |-> <<p.querybuf[i]>>],
                        !.querybuf = SubSeq(@, end + 1, Len(@))]
  IN  /\ p.bulklen = -1
      /\ IF end # 0 THEN IF end = 1 THEN Continue(c, read) ELSE ProcessCommand(c, read)
         ELSE IF Len(p.querybuf) >= RequestMaxSize THEN FreeClient(c)
         ELSE HandlerReturns(c)

ProcessBulk(c) ==
  LET p == parser[c]
  IN  /\ p.bulklen # -1
      /\ IF p.bulklen <= Len(p.querybuf) THEN ProcessCommand(c, TakeBulk(p)) ELSE HandlerReturns(c)

ProcessInputBuffer(c) ==
  /\ running = [c |-> c, at |-> "input"]
  /\ ProcessLine(c) \/ ProcessBulk(c)

Notify(c, kind, name) ==
  AddReply(c, <<<<kind>>, <<name>>, <<ToString(Cardinality(pubsub_channels'[c])
                                               + Cardinality(pubsub_patterns'[c]))>>>>)

\* The loop of subscribeCommand and its siblings over their arguments.
SubscriptionArgument(c) ==
  /\ running.c = c /\ running.at \in PubsubCommands
  /\ running.args # <<>>
  /\ LET name == Head(running.args)[1]
     IN  /\ \/ running.at = "subscribe" /\ PubsubSubscribeChannel(c, name)
            \/ running.at = "unsubscribe" /\ PubsubUnsubscribeChannel(c, name)
            \/ running.at = "psubscribe" /\ PubsubSubscribePattern(c, name)
            \/ running.at = "punsubscribe" /\ PubsubUnsubscribePattern(c, name)
         /\ Notify(c, running.at, name)
  /\ running' = [running EXCEPT !.args = Tail(@)]
  /\ UNCHANGED <<config, script, gone, unread, parser, sentlen, executed, wire>>

\* UNSUBSCRIBE and PUNSUBSCRIBE without an argument: one notice for each, with
\* what is left after it; none at all when there was nothing to leave.
UnsubscribeAll(c) ==
  /\ running.c = c /\ running.at \in PubsubCommands
  /\ running.all
  /\ LET left == IF running.at = "unsubscribe" THEN pubsub_channels[c] ELSE pubsub_patterns[c]
         rest == Cardinality(pubsub_channels'[c]) + Cardinality(pubsub_patterns'[c])
         Notices(q) == FlattenSeq([i \in DOMAIN q |->
                         <<<<running.at>>, <<q[i]>>, <<ToString(rest + Len(q) - i)>>>>])
     IN  /\ \/ running.at = "unsubscribe" /\ PubsubUnsubscribeAllChannels(c)
            \/ running.at = "punsubscribe" /\ PubsubUnsubscribeAllPatterns(c)
         /\ \E q \in SetToSeqs(left) : AddReply(c, Notices(q))
  /\ running' = [running EXCEPT !.all = FALSE]
  /\ UNCHANGED <<config, script, gone, unread, parser, sentlen, executed, wire>>

CommandReturns(c) ==
  /\ running.c = c /\ running.at \in PubsubCommands
  /\ running.args = <<>> /\ ~running.all
  /\ running' = IF parser[c].querybuf = <<>> THEN None ELSE [c |-> c, at |-> "input"]
  /\ UNCHANGED <<psvars, config, script, gone, unread, parser, output, sentlen, executed, wire>>

-----------------------------------------------------------------------------
(* sendReplyToClient, one write or one dropped object at a time.           *)

\* The tokens of the first i objects.
SizeUpTo(objects, i) == Len(FlattenSeq(SubSeq(objects, 1, i)))

SendReplyToClient(c) ==
  /\ running = None
  /\ c \in connected /\ c \in writable
  /\ running' = [c |-> c, tot |-> 0,
                 at |-> IF ~config.glueoutputbuf /\ Len(reply[c]) > WritevThreshold THEN "writev" ELSE "write"]
  /\ UNCHANGED <<psvars, config, script, gone, unread, parser, output, sentlen, executed, wire>>

\* Mutant of GlueReplyBuffersIfNeeded: the glued object is added at the tail.
GlueAtTail(objects) ==
  LET fit == {i \in 1..Len(objects) : SizeUpTo(objects, i) <= GlueReplyUpTo}
      n == Cardinality(fit)
  IN  IF n = 0 THEN objects
      ELSE SubSeq(objects, n + 1, Len(objects)) \o <<FlattenSeq(SubSeq(objects, 1, n))>>

\* glueReplyBuffersIfNeeded: the objects at the head that fit become one.
GlueReplyBuffersIfNeeded(objects) ==
  LET fit == {i \in 1..Len(objects) : SizeUpTo(objects, i) <= GlueReplyUpTo}
      n == Cardinality(fit)
  IN  IF n = 0 THEN objects
      ELSE <<FlattenSeq(SubSeq(objects, 1, n))>> \o SubSeq(objects, n + 1, Len(objects))

\* Mutant of SendReturns: the event goes whenever the handler returns.
SendReturnsOnce(c, objects, sent) ==
  /\ reply' = [reply EXCEPT ![c] = objects]
  /\ sentlen' = [sentlen EXCEPT ![c] = IF objects = <<>> THEN 0 ELSE sent]
  /\ writable' = writable \ {c}
  /\ running' = None

\* The handler returns; the event goes when nothing is left.
SendReturns(c, objects, sent) ==
  /\ reply' = [reply EXCEPT ![c] = objects]
  /\ sentlen' = [sentlen EXCEPT ![c] = IF objects = <<>> THEN 0 ELSE sent]
  /\ writable' = IF objects = <<>> THEN writable \ {c} ELSE writable
  /\ running' = None

\* n tokens of the first objects are written; the loop ends or goes on.
Wrote(c, objects, n, tot, ends) ==
  LET at == sentlen[c] + n
      done == {i \in 1..Len(objects) : SizeUpTo(objects, i) <= at /\ SizeUpTo(objects, i - 1) < at}
      left == SubSeq(objects, Cardinality(done) + 1, Len(objects))
      sent == at - SizeUpTo(objects, Cardinality(done))
  IN  /\ wire' = [wire EXCEPT ![c] = @ \o SubSeq(FlattenSeq(objects), sentlen[c] + 1, at)]
      /\ IF ends \/ left = <<>> THEN SendReturns(c, left, sent)
         ELSE /\ reply' = [reply EXCEPT ![c] = left]
              /\ sentlen' = [sentlen EXCEPT ![c] = sent]
              /\ running' = [running EXCEPT !.tot = tot]
              /\ UNCHANGED writable

\* Later writes of one handler may find the socket full.
Full(c, objects) ==
  /\ running.tot > 0
  /\ SendReturns(c, objects, sentlen[c]) /\ UNCHANGED wire

WriteOne(c) ==
  LET objects == IF config.glueoutputbuf /\ Len(reply[c]) > 1 THEN GlueReplyBuffersIfNeeded(reply[c])
                 ELSE reply[c]
      objlen == Len(Head(objects))
  IN  IF objlen = 0
        THEN /\ UNCHANGED wire
             /\ IF Len(objects) = 1 THEN SendReturns(c, <<>>, 0)
                ELSE /\ reply' = [reply EXCEPT ![c] = Tail(objects)]
                     /\ UNCHANGED <<sentlen, writable, running>>
        ELSE \/ \E n \in 1..objlen - sentlen[c] :
                  Wrote(c, objects, n, running.tot + n, running.tot + n > MaxWritePerEvent)
             \/ Full(c, objects)

\* What the iov array holds of the objects: tokens, the part already sent left out.
Gathered(objects, tot, sent) ==
  LET fits == {i \in 1..Min({Len(objects), IovecCount}) :
                 \A j \in 1..i : tot + Len(objects[j]) - (IF j = 1 THEN sent ELSE 0)
                                   <= MaxWritePerEvent}
  IN  SizeUpTo(objects, Cardinality(fits)) - (IF fits = {} THEN 0 ELSE sent)

WriteVector(c) ==
  LET willwrite == Gathered(reply[c], running.tot, sentlen[c])
  IN  IF willwrite = 0 THEN SendReturns(c, reply[c], sentlen[c]) /\ UNCHANGED wire
      ELSE \/ \E n \in 1..willwrite : Wrote(c, reply[c], n, running.tot + n, FALSE)
           \/ Full(c, reply[c])

SendMore(c) ==
  /\ running.c = c
  /\ \/ running.at = "write" /\ WriteOne(c)
     \/ running.at = "writev" /\ WriteVector(c)
  /\ UNCHANGED <<psvars, config, script, gone, unread, parser, promised, executed>>

\* write or writev fails for another reason than a full socket.
WriteFails(c) == running.c = c /\ running.at \in {"write", "writev"} /\ FreeClient(c)

-----------------------------------------------------------------------------
Handler(c) ==
  \/ ProcessInputBuffer(c) \/ SubscriptionArgument(c) \/ UnsubscribeAll(c) \/ CommandReturns(c)
  \/ SendMore(c)

NetNext ==
  \E c \in Clients :
    \/ AcceptHandler(c) \/ ReadQueryFromClient(c) \/ SendReplyToClient(c) \/ Handler(c)
    \/ Hangup(c) \/ CloseTimedoutClients(c) \/ WriteFails(c)

\* A handler runs to its end, and the loop serves every socket that is ready:
\* peers send what they have to send and read what they are sent.  Fairness is
\* stated with the guards of the actions, which are when they are enabled.
Fairness ==
  \A c \in Clients :
    /\ []<>(running.c # c) \/ []<><<running.c = c>>_netvars
    /\ \/ <>[](running # None \/ c \notin connected \/ unread[c] = <<>>)
       \/ []<><<running = None /\ running' = [c |-> c, at |-> "input"]>>_netvars
    /\ \/ <>[](running # None \/ c \notin connected \cap writable)
       \/ []<><<running = None /\ running'.c = c /\ running'.at # "input">>_netvars

NetSpec == NetInit /\ [][NetNext]_netvars /\ Fairness

-----------------------------------------------------------------------------
(* What a client can rely on.                                              *)

\* What a peer finds on its socket is what the commands replied, every token
\* once and in order, however the objects are glued, gathered and cut; while
\* replies are left their event is installed, else none.
StreamsIntact ==
  \A c \in connected :
    /\ promised[c] = wire[c] \o SubSeq(FlattenSeq(reply[c]), sentlen[c] + 1,
                                       Len(FlattenSeq(reply[c])))
    /\ (c \in writable) = (reply[c] # <<>>)

\* The requests answered are those the peer sent, complete, once and in order,
\* wherever the stream was cut and whatever a bulk contains; when the stream is
\* read to its end none is left over.
CommandsAsSent ==
  \A c \in connected :
    /\ IsPrefix(executed[c], Requested(c))
    /\ unread[c] = <<>> /\ running = None => executed[c] = Requested(c)

\* A client that is not closed gets every request answered and the answers
\* delivered.
RequestsAnswered ==
  \A c \in Clients :
    c \in connected ~> c \in gone \/ (executed[c] = Requested(c) /\ reply[c] = <<>>)

=============================================================================
