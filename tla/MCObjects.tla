----------------------------- MODULE MCObjects -----------------------------
(* Constants for the run structures. *)
EXTENDS Objects

\* The words of files and the replies, whatever files and replies there are.
W == INSTANCE Config WITH Files <- <<>>, Unusable <- {}
R == INSTANCE Cli WITH Replies <- <<>>, Password <- <<>>

\* "", "7", "-1", "a" and "b7"
MCTexts == {<<>>, <<9>>, <<1, 3>>, <<12>>, <<13, 9>>}
MCLongText == [i \in 1..9 |-> 12]
\* "9", which may become "10"
MCCountValues == {<<3>>, <<11>>, <<3, 2>>}
MCFieldValues == {<<11>>, <<12, 12, 12>>, MCLongText}
MCFields == {<<9>>, <<12, 12, 12>>, <<>>}
MCScores == {-1000, 1, 2, 1000}
MCIndexes == {-3, -1, 0, 1, 2}

\* Of three files the last is refused.
MCFiles ==
  LET Line(name, args) == [name |-> name, args |-> args]
  IN  [own |-> <<Line("#", <<>>), Line("timeout", <<W!Num(5)>>), Line("include", <<W!Word("more")>>),
                 Line("dbfilename", <<W!Word("other.rdb")>>), Line("save", <<W!Num(9), W!Num(1)>>)>>,
       more |-> <<Line("maxmemory", <<W!Amount(-1, "kb")>>), Line("appendonly", <<W!Word("yes")>>),
                  Line("maxclients", <<W!Num(-1)>>), Line("loglevel", <<W!Word("notice")>>),
                  Line("slaveof", <<W!Word("host"), W!Num(1)>>), Line("logfile", <<W!Word("log")>>),
                  Line("dir", <<W!Word("/tmp")>>), Line("vm-page-size", <<W!Amount(2, "k")>>)>>,
       bad |-> <<Line("port", <<W!Num(0)>>)>>]
MCUnusable == {W!Word("nowhere")}

\* 131070 does not fit into an int.
MCSettings ==
  ({"dbfilename", "requirepass"} \X {<<W!Word("")>>})
  \cup ({"masterauth"} \X {<<W!Word("pw")>>})
  \cup ({"maxmemory", "timeout"} \X {<<W!Num(0)>>, <<W!Num(-1)>>, <<W!Amount(1, "kb")>>, <<W!Num(131070)>>})
  \cup ({"appendfsync"} \X {<<W!Word(w)>> : w \in {"no", "always", "yes"}})
  \cup ({"appendonly"} \X {<<W!Word(w)>> : w \in {"no", "yes", "always"}})
  \cup ({"save"} \X {<<>>, <<W!Num(1)>>, <<W!Num(0), W!Num(1)>>, <<W!Num(1), W!Num(131070)>>,
                      <<W!Num(60), W!Num(0), W!Num(9), W!Num(9)>>})
  \cup ({"port"} \X {<<W!Num(1)>>})

\* "9", "-17" and the word a
MCPassword == <<11>>
MCCliArgs ==
  {<<>>, <<R!Option("n"), <<Digit(1)>>>>, <<R!Option("a"), MCPassword, R!Option("n"), <<Digit(7)>>>>,
   <<R!Option("r"), <<Digit(2)>>, R!Option("i"), <<12>>, <<>>>>, <<R!Option("h"), <<12>>, <<12>>, R!Option("n")>>,
   <<R!Option("a"), <<12>>, R!Option("n"), <<Digit(1)>>, R!Name("shutdown")>>, <<R!Option("h")>>}
MCStdins == {<<>>, <<<<R!Lf, 0>>>>}
\* A quoted word has a quote in it; the last line's quote is not closed.
MCLines ==
  {<<12, Blank>> \o R!PrintStringRepr(<<13, Quote>>), R!Name("auth") \o <<Blank>> \o MCPassword, <<>>, R!Name("quit"),
   R!Name("select") \o <<Blank, Digit(1)>>, R!Name("monitor"), R!Name("subscribe") \o <<Blank, 12>>,
   R!Name("shutdown"), R!Name("info"), R!Name("help"), <<12, Blank, Quote>>}
MCReplies ==
  <<R!Ok, R!Failure, R!Reply("int", -17), R!Reply("nil", <<>>), R!Reply("multi", <<>>), R!Reply("string", <<>>),
   R!Reply("bulk", Integer(LongMin)), R!Reply("bulk", Integer(LongMax)), R!Reply("bulk", Raw(<<R!Lf, R!Dollar, 0>>)),
   R!Reply("multi", <<R!Reply("string", <<<<12, 0, 12>>>>), R!Reply("string", <<>>),
                      R!Reply("multi", <<R!Reply("int", 0), R!Failure>>), R!Reply("bulk", Raw(<<>>))>>)>>
MCMonitoredLines == {<<Raw(<<12>>), Integer(-17), Raw(<<Blank, Quote, Backslash>>)>>, <<Raw(<<>>)>>}

\* The second descriptor is freed, gets a reply or is taken anew by handlers of
\* the first; there is no third one.
MCFileEvents ==
  {<<0, {"r"}, E!Proc(does, 1)>> : does \in {"free", "reply", "accept"}}
  \cup {<<1, {"w"}, E!SendReply>>, <<1, {"r", "w"}, E!ReadQuery>>,
         <<2, {"r"}, E!ReadQuery>>}
MCTimers == {<<4, E!TimeProc("again", 2)>>, <<2, E!TimeProc("spawn", 0)>>, <<1, E!TimeProc("drop", 0)>>}

\* An error has no end for a client that waits for a bulk.
MCAnswers ==
  LET Whole(replies) == {B!Answer(R!AddReply(r), TRUE) : r \in replies}
      error == R!AddReply(R!Failure)
  IN  [retcode |-> Whole({R!Ok, R!Failure}), int |-> Whole({R!Reply("int", 3)}),
       bulk |-> Whole({R!Reply("string", <<<<12, 12>>>>), R!Reply("string", <<>>)}) \cup {B!Answer(error, FALSE)},
       mbulk |-> Whole({R!Reply("multi", <<R!Reply("string", <<<<12>>>>), R!Reply("string", <<<<>>>>)>>), R!Reply("nil", <<>>)})
                 \cup {B!Answer(R!AddReply(R!Reply("multi", <<>>)), FALSE)}]

\* With a key space of zero, without end, idle, with an option that lacks its
\* number, with a host that is unknown.
MCBenchArgs ==
  {<<<<"c", 2>>, <<"n", 2>>>>, <<<<"c", 2>>, <<"n", 2>>, <<"k", 0>>>>, <<<<"c", 0>>, <<"n", 1>>, <<"l">>, <<"d", 3>>>>,
   <<<<"c", 1>>, <<"n", 3>>, <<"r", -5>>>>, <<<<"c", 2>>, <<"I">>, <<"q">>>>, <<<<"n", 2>>, <<"c">>>>, <<<<"h", 0>>>>}

=============================================================================
