-------------------------------- MODULE Cli --------------------------------
(***************************************************************************)
(* redis-cli.c and the replies it reads: the functions of the server that  *)
(* write a reply (redis.c 2780-2857), the lines of MONITOR (2553-2584),    *)
(* AUTH and SELECT.                                                        *)
(*                                                                         *)
(* What goes over the connection is a sequence of characters, those of     *)
(* Strings and a few that only the protocol and options need.  The name of *)
(* a command is one character, and so is each text redis-cli prints.  A    *)
(* call goes on until redis-cli waits for the user or for a server that    *)
(* has nothing to say.                                                     *)
(***************************************************************************)
EXTENDS Strings, SequencesExt

CONSTANTS Blank, Quote, Backslash,   \* see Sds
          DbNum,                     \* the databases of the server
          Password,                  \* its requirepass, when it has one
          Replies                    \* the answers that commands get, a sequence

Cr == Byte
Lf == Byte + 1
Plus == Byte + 2
Colon == Byte + 3
Dollar == Byte + 4
Star == Byte + 5
Dot == Byte + 6
LetterN == Byte + 7
LetterR == Byte + 8
LetterX == Byte + 9

Option(name) == <<Minus, Byte + (CASE name = "a" -> 10 [] name = "h" -> 11 [] name = "i" -> 12
                                   [] name = "v" -> 13 [] name = "n" -> 7 [] name = "r" -> 8)>>

Name(name) ==
  <<Byte + (CASE name = "auth" -> 20 [] name = "select" -> 21 [] name = "info" -> 22 [] name = "help" -> 23
              [] name = "shutdown" -> 24 [] name = "monitor" -> 25 [] name = "subscribe" -> 26
              [] name = "quit" -> 27)>>

Text(text) ==
  <<Byte + (CASE text = "(error)" -> 30 [] text = "(integer)" -> 31 [] text = "(nil)" -> 32 [] text = "(empty)" -> 33
              [] text = "no db" -> 34 [] text = "invalid" -> 35 [] text = "reconnecting" -> 36
              [] text = "help" -> 37 [] text = "reading" -> 38 [] text = "i/o error" -> 39
              [] text = "protocol error" -> 40 [] text = "(db" -> 41 [] text = "ERR" -> 42 [] text = "OK" -> 43)>>

S == INSTANCE Sds WITH Escaped <- {LetterN, LetterR}, Control <- LAMBDA c : IF c = LetterN THEN Lf ELSE Cr

-----------------------------------------------------------------------------
(* What the server writes.                                                 *)

Line(prefix, s) == <<prefix>> \o s \o <<Cr, Lf>>

AddReplyUlong(n) == Line(Colon, Ll2string(n))

\* How often n can be divided by ten before nothing is left.
RECURSIVE Quotients(_)
Quotients(n) == IF n \div 10 = 0 THEN 0 ELSE 1 + Quotients(n \div 10)

\* The length of an integer is counted without writing it out.
AddReplyBulkLen(o) ==
  Line(Dollar, Ll2string(IF o.encoding = "raw" THEN Len(o.ptr)
                         ELSE IF LongOf(o) < 0 THEN 2 + Quotients(-LongOf(o)) ELSE 1 + Quotients(LongOf(o))))

AddReplyBulk(o) == AddReplyBulkLen(o) \o Decoded(o) \o <<Cr, Lf>>

Nullbulk == Line(Dollar, <<Minus, Digit(1)>>)

\* No string at all is <<>> here, one string a sequence of it.
AddReplyBulkCString(s) == IF s = <<>> THEN Nullbulk ELSE AddReplyBulk(Raw(CString(s[1])))

Reply(kind, v) == [kind |-> kind, v |-> v]
Failure == Reply("error", Text("ERR"))
Ok == Reply("status", Text("OK"))

RECURSIVE AddReply(_)
AddReply(r) ==
  CASE r.kind = "status" -> Line(Plus, r.v)
    [] r.kind = "error" -> Line(Minus, r.v)
    [] r.kind = "int" -> AddReplyUlong(r.v)
    [] r.kind = "bulk" -> AddReplyBulk(r.v)
    [] r.kind = "string" -> AddReplyBulkCString(r.v)
    [] r.kind = "nil" -> Line(Star, <<Minus, Digit(1)>>)
    [] r.kind = "multi" ->
         Line(Star, Ll2string(Len(r.v))) \o FlattenSeq([i \in DOMAIN r.v |-> AddReply(r.v[i])])

\* The line that monitors get for a command run in database dictid.
ReplicationFeedMonitors(dictid, argv) ==
  LET Repr(o) == IF o.encoding = "int" THEN <<Quote>> \o Decoded(o) \o <<Quote>> ELSE S!Sdscatrepr(o.ptr)
      args == [j \in DOMAIN argv |-> Repr(argv[j]) \o (IF j # Len(argv) THEN <<Blank>> ELSE <<>>)]
      db == IF dictid = 0 THEN <<>> ELSE Text("(db") \o <<Blank>> \o Ll2string(dictid) \o <<Blank>>
  IN  Line(Plus, <<Digit(1), Dot, Digit(1), Blank>> \o db \o FlattenSeq(args))

-----------------------------------------------------------------------------
(* redis-cli with its connection.  in has not been read yet; db is what is *)
(* selected at the other end; ran, out and ret are of this call.           *)

NewCli(requirepass) ==
  [proc |-> "start", dbnum |-> 0, repeat |-> 1, auth |-> <<>>, host |-> <<>>, interactive |-> FALSE, tty |-> TRUE,
   shutdown |-> FALSE, raw |-> FALSE, link |-> "up", in |-> <<>>, db |-> 0, requirepass |-> requirepass,
   authenticated |-> ~requirepass,
   ran |-> <<>>, out |-> <<>>, ret |-> 0]

Econnreset == 104

Printf(s, text) == [s EXCEPT !.out = @ \o text]
Tty(s, text) == IF s.tty THEN Printf(s, text) ELSE s
Ret(s, ret) == [s EXCEPT !.ret = ret]
Exit(s) == [s EXCEPT !.proc = "exited"]

AuthCommand(s, password) ==
  IF ~s.requirepass \/ password = Password THEN [s EXCEPT !.authenticated = TRUE, !.in = @ \o AddReply(Ok)]
  ELSE [s EXCEPT !.authenticated = FALSE, !.in = @ \o AddReply(Failure)]

SelectCommand(s, id) ==
  IF id \notin 0..(DbNum - 1) THEN [s EXCEPT !.in = @ \o AddReply(Failure)]
  ELSE [s EXCEPT !.db = id, !.in = @ \o AddReply(Ok)]

\* What the server does with a request; to another command than these two its
\* answer is the v.reply-th, unless it closes the connection before it, after it or
\* within the reply.
Serve(s, argv, v) ==
  LET run == [s EXCEPT !.ran = Append(@, [argv |-> argv, db |-> s.db])]
      Answered(reply) ==
        CASE v.link = "up" -> [run EXCEPT !.in = @ \o reply]
          [] v.link = "after" -> [run EXCEPT !.link = "closed"]
          [] v.link = "within" -> [run EXCEPT !.link = "closed", !.in = @ \o SubSeq(reply, 1, Len(reply) - 3)]
  IN  CASE s.link = "closed" -> s
        [] s.link = "up" /\ argv[1] = Name("auth") -> AuthCommand(s, argv[2])
        [] s.link = "up" /\ argv[1] # Name("auth") /\ ~s.authenticated -> [s EXCEPT !.in = @ \o AddReply(Failure)]
        [] s.link = "up" /\ s.authenticated /\ argv[1] = Name("select") -> SelectCommand(s, Strtoll(argv[2]).value)
        [] OTHER -> Answered(AddReply(Replies[v.reply]))

\* A line that the connection did not end with is no line.
CliReadLine(s) ==
  LET First(end) == [ok |-> TRUE,
                     line |-> S!Content(S!Sdstrim(S!Sdsnewlen(SubSeq(s.in, 1, end - 1)), {Cr, Lf})),
                     s |-> Ret([s EXCEPT !.in = SubSeq(@, end + 1, Len(@))], 0)]
      ends == {i \in DOMAIN s.in : s.in[i] = Lf}
  IN  IF ends = {} THEN [ok |-> FALSE, line |-> <<>>, s |-> Ret([s EXCEPT !.in = <<>>], 1)]
      ELSE First(CHOOSE i \in ends : \A j \in ends : i <= j)

CliReadSingleLineReply(s, quiet) ==
  LET Shown(l) == IF quiet THEN l.s ELSE Printf(l.s, l.line) IN Shown(CliReadLine(s))

PrintStringRepr(s) ==
  LET Repr(c) == CASE c \in {Quote, Backslash} -> <<Backslash, c>>
                   [] c = Lf -> <<Backslash, LetterN>> [] c = Cr -> <<Backslash, LetterR>>
                   [] c = Nul -> <<Backslash, LetterX, Digit(0), Digit(0)>>
                   [] OTHER -> <<c>>
  IN  <<Quote>> \o FlattenSeq([i \in DOMAIN s |-> Repr(s[i])]) \o <<Quote>>

Unknown == -1

\* Nobody looks how much could be read: the rest is what the memory held.
CliReadBulkReply(s) ==
  LET Shown(reply) == IF s.raw \/ ~s.tty THEN reply ELSE PrintStringRepr(reply)
      Cells(rest, n) == [i \in 1..n |-> IF i \in DOMAIN rest THEN rest[i] ELSE Unknown]
      Bulk(t, n) == IF n = -1 THEN Printf(t, Text("(nil)"))
                    ELSE Printf([t EXCEPT !.in = SubSeq(@, n + 3, Len(@))], Shown(Cells(t.in, n)))
      Sized(l) == IF ~l.ok THEN l.s ELSE Bulk(l.s, Strtoll(l.line).value)
  IN  Sized(CliReadLine(s))

RECURSIVE CliReadReply(_), Elements(_, _, _, _)

\* Elements c to n of a multi bulk reply.
Elements(s, c, n, retval) ==
  LET Next(t) == Elements(IF c < n THEN Printf(t, <<Lf>>) ELSE t, c + 1, n, IF t.ret # 0 THEN 1 ELSE retval)
  IN  IF s.proc = "exited" \/ c > n THEN Ret(s, retval)
      ELSE Next(CliReadReply(Tty(s, Ll2string(c) \o <<Dot>>)))

CliReadMultiBulkReply(s) ==
  LET Multi(t, elements) ==
        IF elements = -1 THEN Printf(t, Text("(nil)"))
        ELSE Elements(IF elements = 0 THEN Printf(t, Text("(empty)")) ELSE t, 1, elements, 0)
      Counted(l) == IF ~l.ok THEN l.s ELSE Multi(l.s, Strtoll(l.line).value)
  IN  Counted(CliReadLine(s))

CliReadReply(s) ==
  LET t == [s EXCEPT !.in = Tail(@)]
  IN  IF s.in = <<>> THEN
        IF s.shutdown THEN Ret(s, 0)
        ELSE IF s.interactive THEN Ret(s, Econnreset)
        ELSE Exit(Ret(Printf(s, Text("i/o error")), 1))
      ELSE CASE s.in[1] = Minus -> Ret(CliReadSingleLineReply(Tty(t, Text("(error)")), FALSE), 1)
             [] s.in[1] = Plus -> CliReadSingleLineReply(t, FALSE)
             [] s.in[1] = Colon -> CliReadSingleLineReply(Tty(t, Text("(integer)")), FALSE)
             [] s.in[1] = Dollar -> CliReadBulkReply(t)
             [] s.in[1] = Star -> CliReadMultiBulkReply(t)
             [] OTHER -> Ret(Printf(t, Text("protocol error")), 1)

\* Of a refusal only the first character is read.
SelectDb(s) ==
  LET Answered(ok, rest) ==
        IF ok THEN CliReadSingleLineReply(rest, TRUE) ELSE Ret(rest, 1)
      Sent(t) == Answered(t.in # <<>> /\ t.in[1] = Plus, [t EXCEPT !.in = SubSeq(@, 2, Len(@))])
  IN  IF s.dbnum = 0 THEN Ret(s, 0)
      ELSE Sent(Serve(s, <<Name("select"), Ll2string(s.dbnum)>>, [link |-> "up", reply |-> 1]))

\* The endless loops of MONITOR and SUBSCRIBE, until nothing has come or the
\* connection is closed: the one ends the process, the other only goes round.
RECURSIVE Watch(_)
Watch(s) ==
  IF s.proc \notin {"monitor", "pubsub"} \/ (s.in = <<>> /\ s.link = "up") THEN s
  ELSE LET Monitored(line) == IF line.ret # 0 THEN Exit(line) ELSE Watch(Printf(line, <<Lf>>))
           Message(t) == IF s.in = <<>> /\ t.proc # "exited" THEN [t EXCEPT !.proc = "spinning"]
                         ELSE Watch(Printf(t, <<Lf, Lf>>))
       IN  IF s.proc = "monitor" THEN Monitored(CliReadSingleLineReply(s, FALSE)) ELSE Message(CliReadReply(s))

\* The newline after an answer.
Ended(s) == IF s.proc # "exited" /\ s.tty /\ ~s.raw THEN Printf(s, <<Lf>>) ELSE s

\* What redis-cli reads after it has sent a command.
ReadAnswer(s) ==
  CASE s.proc = "monitor" -> Watch(s)
    [] s.proc = "pubsub" -> Watch(Printf(s, Text("reading")))
    [] OTHER -> Ended(CliReadReply(s))

RECURSIVE Repeated(_, _, _, _)
Repeated(s, argv, repeat, v) ==
  LET Next(t) == IF s.proc \in {"monitor", "pubsub"} \/ t.proc = "exited" \/ t.ret # 0 THEN t
                 ELSE Repeated(t, argv, repeat - 1, v)
  IN  IF repeat = 0 THEN Ret(s, 0) ELSE Next(ReadAnswer(Serve(s, argv, v)))

Mode(s, name) ==
  CASE name = Name("monitor") -> "monitor" [] name = Name("subscribe") -> "pubsub" [] OTHER -> s.proc

\* s is what SelectDb has left.
Selected(s, argv, repeat, v) ==
  IF s.ret # 0 THEN Ret(Printf(s, Text("no db")), 1)
  ELSE Repeated([s EXCEPT !.proc = Mode(s, argv[1])], argv, repeat, v)

CliSendCommand(s, argv, repeat, v) ==
  IF argv[1] = Name("help") THEN Ret(Printf([s EXCEPT !.raw = FALSE], Text("help")), 0)
  ELSE Selected(SelectDb([s EXCEPT !.raw = (argv[1] = Name("info")), !.shutdown = @ \/ argv[1] = Name("shutdown")]),
                argv, repeat, v)

\* cliConnect(1): the server knows nothing of the connection before.
Reconnect(s) ==
  [Printf(s, Text("reconnecting")) EXCEPT !.link = "up", !.in = <<>>, !.db = 0, !.authenticated = ~s.requirepass]

\* s is what the command has left.
Resent(s, argv, v) ==
  IF s.ret # Econnreset THEN s
  ELSE IF ~v.back THEN Exit(s)
  ELSE CliSendCommand(Reconnect(s), argv, 1, [v EXCEPT !.link = "up"])

Typed(s, line, argv, v) ==
  CASE line = <<>> -> s
    [] line # <<>> /\ argv = <<>> -> Printf(s, Text("invalid"))
    [] argv # <<>> /\ argv[1] = Name("quit") -> Exit(s)
    [] OTHER -> Resent(CliSendCommand(IF v.link = "before" THEN [s EXCEPT !.link = "closed"] ELSE s, argv, 1, v),
                       argv, v)

\* A line at the prompt.  The server may have closed the connection before it;
\* v.back says whether it takes another one.
Repl(s, line, v) == Typed(s, line, S!Sdssplitargs(line), v)

-----------------------------------------------------------------------------
(* main.                                                                   *)

RECURSIVE ParseOptions(_, _)
ParseOptions(s, args) ==
  LET Set(name, value) == ParseOptions([s EXCEPT ![name] = value], SubSeq(args, 3, Len(args)))
      known == args # <<>> /\ \E o \in {"a", "h", "n", "r"} : args[1] = Option(o)
  IN  CASE known /\ Len(args) > 1 ->
             (CASE args[1] = Option("n") -> Set("dbnum", Strtoll(args[2]).value)
                [] args[1] = Option("r") -> Set("repeat", Strtoll(args[2]).value)
                [] args[1] = Option("a") -> Set("auth", <<args[2]>>)
                [] args[1] = Option("h") -> Set("host", <<args[2]>>))
        [] args = <<Option("h")>> \/ (args # <<>> /\ args[1] = Option("v")) -> [s |-> Exit(s), argv |-> <<>>]
        [] args # <<>> /\ args[1] = Option("i") -> ParseOptions(s, Tail(args))
        [] OTHER -> [s |-> s, argv |-> args]

\* stdin is what a pipe or a file holds, <<>> at a terminal; convertToSds takes
\* C strings.
Noninteractive(s, argv, stdin, v) ==
  Exit(CliSendCommand(s, argv \o stdin, s.repeat, v))

CliAuth(s, v) ==
  IF s.auth = <<>> THEN s
  ELSE [CliSendCommand([s EXCEPT !.dbnum = 0], <<Name("auth"), s.auth[1]>>, 1, v) EXCEPT !.dbnum = s.dbnum]

Ready(s, argv, stdin, v) ==
  IF argv = <<>> THEN [s EXCEPT !.interactive = TRUE, !.proc = "prompt"]
  ELSE Noninteractive(s, [j \in DOMAIN argv |-> CString(argv[j])], stdin, v)

Main(s, args, stdin, v) ==
  LET Parsed(p) == IF p.s.proc = "exited" THEN p.s ELSE Ready(CliAuth(p.s, v), p.argv, stdin, v)
  IN  Parsed(ParseOptions(s, args))

\* In MONITOR or after SUBSCRIBE: more comes, or the connection is closed.
Pushed(s, cells) ==
  Watch(IF cells = <<>> THEN [s EXCEPT !.link = "closed"] ELSE [s EXCEPT !.in = @ \o cells])

CliExec(s, c) ==
  LET fresh == [s EXCEPT !.ran = <<>>, !.out = <<>>, !.ret = 0]
  IN  CASE c.name = "main" -> Main(fresh, c.args[1], c.args[2], c.args[3])
        [] c.name = "line" -> Repl(fresh, c.args[1], c.args[2])
        [] c.name = "push" -> Pushed(fresh, c.args[1])

-----------------------------------------------------------------------------
(* What is expected of it.                                                 *)

\* Only a client that selects a database before each command can be left with
\* characters that nobody has asked for.
CliOK(s) == s.in # <<>> => s.dbnum # 0

RECURSIVE Rendered(_)
Rendered(r) ==
  CASE r.kind = "status" -> r.v
    [] r.kind = "error" -> Text("(error)") \o r.v
    [] r.kind = "int" -> Text("(integer)") \o Ll2string(r.v)
    [] r.kind = "bulk" -> PrintStringRepr(Decoded(r.v))
    [] r.kind = "string" -> IF r.v = <<>> THEN Text("(nil)") ELSE PrintStringRepr(CString(r.v[1]))
    [] r.kind = "nil" -> Text("(nil)")
    [] r.kind = "multi" ->
         IF r.v = <<>> THEN Text("(empty)")
         ELSE FlattenSeq([i \in DOMAIN r.v |-> (IF i = 1 THEN <<>> ELSE <<Lf>>) \o Ll2string(i) \o <<Dot>>
                                                \o Rendered(r.v[i])])

RECURSIVE Fails(_)
Fails(r) == r.kind = "error" \/ (r.kind = "multi" /\ \E i \in DOMAIN r.v : Fails(r.v[i]))

\* The server takes the selection and the command.
Admitted(s) == s.authenticated /\ s.dbnum \in 0..(DbNum - 1)

\* A line typed at the prompt: whatever the server runs is what was typed, in the
\* database of -n, also when it is sent again; once, or twice when the connection
\* broke after the first; and not at all while answers are out of step.  When
\* the connection holds the answer shown is the answer to this line.
LineAgrees(s, argv, v, t) ==
  LET sent == argv # <<>> /\ \A name \in {"quit", "help", "auth", "select", "monitor", "subscribe", "info"} :
                               argv[1] # Name(name)
  IN  /\ \A i \in DOMAIN t.ran : t.ran[i].argv = argv /\ (s.dbnum # 0 => t.ran[i].db = s.dbnum)
      /\ Len(t.ran) <= IF v.link \in {"after", "within"} THEN 2 ELSE 1
      /\ (s.in # <<>> \/ ~s.authenticated) => v.link = "before" \/ t.ran = <<>>
      /\ sent /\ s.in = <<>> /\ s.link = "up" /\ v.link = "up" /\ Admitted(s) =>
           Len(t.ran) = 1 /\ t.in = <<>> /\ t.out = Rendered(Replies[v.reply]) \o <<Lf>>

\* The command on the command line is run as often as -r says, until it fails,
\* with what standard input holds as its last argument.
MainAgrees(args, stdin, v, t) ==
  /\ t.proc \in {"prompt", "exited"}
  /\ t.ran # <<>> => /\ Len(t.ran) <= t.repeat
                     /\ IsSuffix(t.ran[1].argv, args \o stdin) /\ IsSuffix(stdin, t.ran[1].argv)
                     /\ t.dbnum # 0 => t.ran[1].db = t.dbnum
                     /\ v.link = "up" /\ ~Fails(Replies[v.reply]) => Len(t.ran) = t.repeat

\* What is quoted can be typed in again.
ReprAgrees(s) == Nul \notin ToSet(s) => S!Sdssplitargs(PrintStringRepr(s)) = <<s>>

\* The command can be told from the line that a monitor prints.
MonitorAgrees(dictid, argv) ==
  LET Words(line) == S!Sdssplitargs(SubSeq(line, 1, Len(line) - 2))
      Ending(words) == SubSeq(words, Len(words) - Len(argv) + 1, Len(words))
  IN  Ending(Words(ReplicationFeedMonitors(dictid, argv))) = [j \in DOMAIN argv |-> Decoded(argv[j])]

\* t is what has become of s.
CliAgrees(s, c, t) ==
  CASE c.name = "line" -> LineAgrees(s, S!Sdssplitargs(c.args[1]), c.args[2], t)
    [] c.name = "main" -> MainAgrees(c.args[1], c.args[2], c.args[3], t)
    [] c.name = "push" -> s.proc = "pubsub" /\ c.args[1] # <<>> => t.proc = "pubsub" /\ t.in = <<>>

=============================================================================
