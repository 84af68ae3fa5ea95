-------------------------------- MODULE Bench --------------------------------
(***************************************************************************)
(* redis-benchmark.c: parallel clients over one event loop, each of which  *)
(* sends a request, reads its reply in whatever pieces it comes, counts it *)
(* and begins again or makes way for a new client, test after test.        *)
(*                                                                         *)
(* Clients are known by their descriptors.  A request is RequestLen cells, *)
(* whatever it says; a reply is the sequence of characters that the server *)
(* writes.  One call is one pass of aeMain over the descriptors that are   *)
(* ready, and what follows when it was the last of a test.                 *)
(***************************************************************************)
EXTENDS Strings, SequencesExt

CONSTANTS RequestLen,
          Reads,         \* how much is read at once
          Newline,       \* the character
          Answers        \* by kind of reply: what the server may write, as Answer below

\* fits: the reply is of the kind that the client waits for, and not a multi bulk
\* reply of no element, and so it has an end that the client can find.
Answer(cells, fits) == [cells |-> cells, fits |-> fits]

\* The tests of main, with the kind of reply that each prepares its clients for and
\* whether there is a "_rand" in its request.
Tests ==
  LET Test(kind, rand) == [kind |-> kind, rand |-> rand]
  IN  <<Test("retcode", FALSE), Test("retcode", FALSE), Test("retcode", TRUE), Test("bulk", TRUE),
        Test("int", TRUE), Test("int", FALSE), Test("bulk", FALSE), Test("retcode", TRUE),
        Test("bulk", FALSE), Test("retcode", FALSE)>>
      \o [i \in 1..4 |-> Test("mbulk", FALSE)]

\* connects says, for one call, whether new connections can be made.
NewBench ==
  [proc |-> "start", numclients |-> 50, requests |-> 10000, keepalive |-> TRUE, randomkeys |-> FALSE,
   keyspacelen |-> 0, loop |-> FALSE, idlemode |-> FALSE, test |-> 0, donerequests |-> 0, liveclients |-> 0,
   clients |-> <<>>, stop |-> FALSE, connects |-> TRUE]

Halt(s, how) == [s EXCEPT !.proc = how]

-----------------------------------------------------------------------------
(* Clients.                                                                *)

FreeClient(s, fd) ==
  [s EXCEPT !.clients = [f \in DOMAIN @ \ {fd} |-> @[f]], !.liveclients = @ - 1]

\* A connection gets the lowest descriptor that is free.
Free(s) == CHOOSE fd \in 1..(Cardinality(DOMAIN s.clients) + 1) :
             fd \notin DOMAIN s.clients /\ 1..(fd - 1) \subseteq DOMAIN s.clients

\* mask is what the event loop watches the connection for; in is what the server
\* has written to it and nobody has read, fits whether that is what was asked for.
Connecting == [state |-> "connecting", mask |-> {"w"}, written |-> 0, ibuf |-> <<>>, mbulk |-> -1, readlen |-> 0,
               replytype |-> "retcode", in |-> <<>>, fits |-> TRUE]

CreateClient(s) ==
  [s EXCEPT !.clients = @ @@ (Free(s) :> Connecting), !.liveclients = @ + 1]

ReadlenFor(type) == IF type \in {"bulk", "mbulk"} THEN -1 ELSE 0

PrepareClientForReply(s, fd, type) ==
  [s EXCEPT !.clients[fd] = [@ EXCEPT !.replytype = type, !.readlen = ReadlenFor(type), !.mbulk = -1]]

\* Which key it is does not matter here; a remainder of zero ends the process.
RandomizeClientKey(s) ==
  IF s.randomkeys /\ ~s.idlemode /\ Tests[s.test].rand /\ s.keyspacelen = 0 THEN Halt(s, "killed") ELSE s

\* A connection that cannot be made is tried again without end.
RECURSIVE CreateMissingClients(_, _)
CreateMissingClients(s, type) ==
  IF s.proc # "running" \/ s.liveclients >= s.numclients THEN s
  ELSE IF ~s.connects THEN Halt(s, "spinning")
  ELSE CreateMissingClients(PrepareClientForReply(RandomizeClientKey(CreateClient(s)), Free(s), type), type)

ResetClient(s, fd) ==
  LET type == s.clients[fd].replytype
  IN  CreateMissingClients(
        [s EXCEPT !.clients[fd] = [@ EXCEPT !.mask = {"w"}, !.ibuf = <<>>, !.readlen = ReadlenFor(type),
                                            !.mbulk = -1, !.written = 0, !.state = "sendquery"]], type)

\* Only the very last request stops the loop.
ClientDone(s, fd) ==
  LET counted == [s EXCEPT !.donerequests = @ + 1]
      Replaced(t) == IF t.proc # "running" THEN t ELSE FreeClient([t EXCEPT !.liveclients = @ + 1], fd)
      Randomized(t) == IF t.proc # "running" THEN t ELSE RandomizeClientKey(t)
  IN  IF counted.donerequests = s.requests THEN [FreeClient(counted, fd) EXCEPT !.stop = TRUE]
      ELSE IF s.keepalive THEN Randomized(ResetClient(counted, fd))
      ELSE Replaced(CreateMissingClients([counted EXCEPT !.liveclients = @ - 1], s.clients[fd].replytype))

-----------------------------------------------------------------------------
(* Reading a reply.                                                        *)

RECURSIVE ProcessData(_, _), BulkRead(_, _)

\* The label processdata: a line is awaited, or the rest of a bulk.
ProcessData(s, fd) ==
  LET c == s.clients[fd]
      lines == {p \in DOMAIN CString(c.ibuf) : c.ibuf[p] = Newline}
      Line(p) == LET n == Strtoll(SubSeq(c.ibuf, 2, p - 2)).value
                     left == [c EXCEPT !.ibuf = SubSeq(@, p + 1, Len(@))]
                 IN  CASE c.replytype \in {"int", "retcode"} \/ n = -1 -> ClientDone(s, fd)
                       [] n # -1 /\ c.replytype = "mbulk" /\ c.mbulk = -1 ->
                            ProcessData([s EXCEPT !.clients[fd] = [left EXCEPT !.mbulk = n]], fd)
                       [] OTHER -> BulkRead([s EXCEPT !.clients[fd] = [left EXCEPT !.readlen = n + 2]], fd)
  IN  IF c.replytype \in {"bulk", "mbulk"} /\ c.readlen # -1 THEN BulkRead(s, fd)
      ELSE IF lines = {} THEN s ELSE Line(Min(lines))

\* A bulk and the end of its line, when all of it is there.
BulkRead(s, fd) ==
  LET c == s.clients[fd]
  IN  CASE c.readlen > Len(c.ibuf) -> s
        [] c.readlen <= Len(c.ibuf) /\ (c.replytype = "bulk" \/ c.mbulk = 1) -> ClientDone(s, fd)
        [] OTHER -> ProcessData([s EXCEPT !.clients[fd] =
                      [c EXCEPT !.mbulk = @ - 1, !.readlen = -1, !.ibuf = SubSeq(@, c.readlen + 1, Len(@))]], fd)

\* n characters, the end of the connection (0) or an error (-1).
ReadHandler(s, fd, n) ==
  LET nread == Min({n, Len(s.clients[fd].in)})
      Received(c) == [c EXCEPT !.ibuf = @ \o SubSeq(c.in, 1, nread), !.in = SubSeq(@, nread + 1, Len(@))]
  IN  IF n <= 0 THEN FreeClient(s, fd)
      ELSE ProcessData([s EXCEPT !.clients[fd] = Received(@)], fd)

\* n cells or an error (-1).  The server answers a request that is complete.
WriteHandler(s, fd, n, answer) ==
  LET size == IF s.idlemode THEN 0 ELSE RequestLen
      c == [s.clients[fd] EXCEPT !.state = IF @ = "connecting" THEN "sendquery" ELSE @]
      wrote == [c EXCEPT !.written = @ + Min({n, size - @})]
      Sent(d) == IF d.written < size THEN d
                 ELSE [d EXCEPT !.mask = {"r"}, !.state = "readreply", !.in = @ \o answer.cells, !.fits = answer.fits]
  IN  IF c.written >= size THEN [s EXCEPT !.clients[fd] = c]
      ELSE IF n = -1 THEN FreeClient(s, fd)
      ELSE [s EXCEPT !.clients[fd] = Sent(wrote)]

-----------------------------------------------------------------------------
(* Options and tests.                                                      *)

\* An option with its number, or alone; a host is 0 when it cannot be resolved.
ParseOption(s, o) ==
  LET With(names) == o[1] \in names /\ Len(o) = 2
  IN  CASE With({"c"}) -> [s EXCEPT !.numclients = o[2]]
        [] With({"n"}) -> [s EXCEPT !.requests = o[2]]
        [] With({"k"}) -> [s EXCEPT !.keepalive = (o[2] # 0)]
        [] With({"r"}) -> [s EXCEPT !.randomkeys = TRUE, !.keyspacelen = IF o[2] < 0 THEN 0 ELSE o[2]]
        [] With({"d", "p"}) \/ (With({"h"}) /\ o[2] # 0) -> s
        [] o[1] = "l" -> [s EXCEPT !.loop = TRUE]
        [] o[1] = "I" -> [s EXCEPT !.idlemode = TRUE]
        [] o[1] \in {"q", "D"} -> s
        [] OTHER -> Halt(s, "exited")

ParseOptions(s, args) == FoldLeft(ParseOption, s, args)

\* One client by hand, prepared as the others are made from it.
Begin(s, type) ==
  IF ~s.connects THEN Halt(s, "exited")
  ELSE CreateMissingClients(PrepareClientForReply(CreateClient(s), Free(s), type), type)

BeginTest(s, test) == Begin([s EXCEPT !.test = test, !.donerequests = 0, !.stop = FALSE], Tests[test].kind)

FreeAllClients(s) == [s EXCEPT !.clients = <<>>, !.liveclients = @ - Cardinality(DOMAIN s.clients)]

EndBenchmark(s) ==
  LET t == FreeAllClients(s)
  IN  CASE s.test < Len(Tests) -> BeginTest(t, s.test + 1)
        [] s.test = Len(Tests) /\ s.loop -> BeginTest(t, 1)
        [] OTHER -> Halt(t, "exited")

Main(s, args) ==
  LET t == ParseOptions([s EXCEPT !.proc = "running"], args)
  IN  CASE t.proc = "exited" -> t
        [] t.proc = "running" /\ t.idlemode -> Begin(t, "retcode")
        [] OTHER -> BeginTest(t, 1)

Handled(s, ev) ==
  CASE s.proc # "running" -> s
    [] s.proc = "running" /\ ev.bit = "r" -> ReadHandler(s, ev.fd, ev.n)
    [] OTHER -> WriteHandler(s, ev.fd, ev.n, ev.answer)

\* aeMain looks at stop when a pass is over.
AeMain(s, fired) ==
  LET t == FoldLeft(Handled, s, fired)
  IN  IF t.proc = "running" /\ t.stop THEN EndBenchmark(t) ELSE t

BenchExec(s, c) ==
  LET fresh == [s EXCEPT !.connects = c.args[2]]
      Did(t) == [t EXCEPT !.connects = TRUE]
  IN  IF c.name = "main" THEN Did(Main(fresh, c.args[1])) ELSE Did(AeMain(fresh, c.args[1]))

\* The event loop reports the clients that are ready.  A closed connection (0) and
\* an error are the same to a reader.
Event(fd, bit, n, answer) == [fd |-> fd, bit |-> bit, n |-> n, answer |-> answer]

Ready(s, fd) ==
  LET c == s.clients[fd]
      none == Answer(<<>>, TRUE)
  IN  IF "w" \in c.mask THEN {Event(fd, "w", n, none) : n \in {-1} \cup 1..(RequestLen - 1)}
                             \cup {Event(fd, "w", RequestLen, a) : a \in Answers[c.replytype]}
      ELSE {Event(fd, "r", 0, none)} \cup {Event(fd, "r", n, none) : n \in IF c.in = <<>> THEN {} ELSE Reads}

\* What a pass may find: one client that is ready, or two that finish what they do.
Passes(s) ==
  LET Whole(fd) == {ev \in Ready(s, fd) : ev.n >= RequestLen /\ (ev.bit = "r" => ev.n = Max(Reads))}
  IN  {<<ev>> : ev \in UNION {Ready(s, fd) : fd \in DOMAIN s.clients}}
      \cup UNION {{<<ev, other>> : ev \in Whole(fd), other \in UNION {Whole(f) : f \in DOMAIN s.clients \ {fd}}} :
                    fd \in DOMAIN s.clients}

-----------------------------------------------------------------------------
(* What is expected of it.                                                 *)

\* The counter of clients is the length of the list, never above what was asked
\* for (the first is made whatever that is); a client is watched for what it does next
\* and has nothing of an old reply before it when it sends; no test counts more
\* replies than it can have had under way.
BenchOK(s) ==
  /\ s.proc \notin {"killed", "spinning"} => s.liveclients = Cardinality(DOMAIN s.clients)
  /\ s.liveclients <= Max({1, s.numclients})
  /\ \A fd \in DOMAIN s.clients :
       LET c == s.clients[fd]
       IN  IF c.state = "readreply" THEN c.mask = {"r"} /\ c.written = RequestLen
           ELSE c.mask = {"w"} /\ c.in = <<>> /\ c.ibuf = <<>>
  /\ s.proc = "running" => s.donerequests < s.requests /\ ~s.stop

\* A pass counts the replies that it has read to their ends, each once, into
\* however many reads they were cut; the request that was the last of them all
\* ends the test.
BenchAgrees(s, c, t) ==
  LET Ends(ev) == /\ ev.bit = "r" /\ ev.n > 0
                  /\ s.clients[ev.fd].fits /\ ev.n >= Len(s.clients[ev.fd].in)
      done == s.donerequests + Len(SelectSeq(c.args[1], Ends))
  IN  c.name = "pass" /\ t.proc \notin {"killed", "spinning"} =>
        IF s.test # 0 /\ done >= s.requests THEN t.test # s.test \/ t.proc = "exited"
        ELSE t.test = s.test /\ t.donerequests = done

=============================================================================
