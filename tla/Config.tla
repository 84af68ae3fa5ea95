------------------------------- MODULE Config -------------------------------
(***************************************************************************)
(* The configuration: its defaults, the file read at start, and CONFIG     *)
(* (redis.c 994-1033, 1654-1720, 1800-1990, 9975-10178).                   *)
(*                                                                         *)
(* A word is the number its first characters spell, when they spell one,   *)
(* and the rest; names are compared without regard to case, so one case is *)
(* enough here.  The configuration is a function from the names of the     *)
(* directives to what the server struct holds.                             *)
(***************************************************************************)
EXTENDS Integers, Sequences, SequencesExt

CONSTANTS LongMax,     \* see Strings
          Files,       \* the configuration files: name -> sequence of lines
          Unusable     \* names of files that cannot be opened, of directories

IntMax == LongMax \div 2

Word(w) == [digits |-> FALSE, n |-> 0, rest |-> w]
Amount(n, unit) == [digits |-> TRUE, n |-> n, rest |-> unit]
Num(n) == Amount(n, "")
Null == Word("(null)")

\* strtoll, whether it used up the word, and the narrower and unsigned fields
\* its value is stored in.
Strtoll(w) == w.n
Whole(w) == w.rest = ""
AsInt(n) == ((n + IntMax + 1) % (2 * IntMax + 2)) - IntMax - 1
Atoi(w) == AsInt(Strtoll(w))
Unsigned(n, max) == IF n < 0 THEN n + 2 * max + 2 ELSE n

\* memtoll; its callers do not ask whether the unit was one it knows.
Memtoll(w) ==
  w.n * CASE w.rest = "k" -> 1000 [] w.rest = "kb" -> 1024
          [] w.rest = "m" -> 1000 * 1000 [] w.rest = "mb" -> 1024 * 1024
          [] w.rest = "g" -> 1000 * 1000 * 1000 [] w.rest = "gb" -> 1024 * 1024 * 1024
          [] OTHER -> 1

Yesnotoi(w) == IF w = Word("yes") THEN 1 ELSE IF w = Word("no") THEN 0 ELSE -1

Set(s, name, value) == [s EXCEPT ![name] = value]
Accepted(s) == [ok |-> TRUE, s |-> s]
Refused(s) == [ok |-> FALSE, s |-> s]
Only(cond, s, before) == IF cond THEN Accepted(s) ELSE Refused(before)

AppendServerSaveParams(s, seconds, changes) ==
  [s EXCEPT !["save"] = Append(@, [seconds |-> seconds, changes |-> AsInt(changes)])]

ResetServerSaveParams(s) == [s EXCEPT !["save"] = <<>>]

-----------------------------------------------------------------------------
(* Directives by what their argument is.                                   *)

Flags == {"glueoutputbuf", "rdbcompression", "activerehashing", "daemonize", "appendonly", "vm-enabled"}
Names == {"bind", "masterauth", "appendfilename", "requirepass", "pidfile", "dbfilename", "vm-swap-file"}
Sizes == {"maxmemory", "vm-max-memory", "vm-page-size", "vm-pages",
          "hash-max-zipmap-entries", "hash-max-zipmap-value"}
UnsignedSizes == Sizes \ {"vm-page-size", "vm-pages"}
Counts == {"timeout", "port", "databases", "maxclients", "vm-max-threads"}
Enums == {"appendfsync", "loglevel"}
Directives == Flags \cup Names \cup Sizes \cup Counts \cup Enums \cup {"save", "logfile", "dir", "slaveof"}

InRange(name, n) ==
  CASE name = "timeout" -> n >= 0
    [] name = "port" -> n \in 1..65535
    [] name = "databases" -> n >= 1
    [] OTHER -> TRUE

ChoicesOf(name) ==
  IF name = "appendfsync" THEN {"no", "always", "everysec"} ELSE {"debug", "verbose", "notice", "warning"}

InitServerConfig ==
  LET s == [name \in Directives |->
              CASE name \in {"glueoutputbuf", "rdbcompression", "activerehashing"} -> 1
                [] name \in Flags -> 0
                [] name \in {"bind", "masterauth", "requirepass", "logfile"} -> Null
                [] name \in Names -> Word(name)
                [] name = "vm-page-size" -> 256 [] name = "vm-pages" -> 1024 * 1024 * 100
                [] name = "vm-max-memory" -> 1024 * 1024 * 1024
                [] name = "hash-max-zipmap-entries" -> 64 [] name = "hash-max-zipmap-value" -> 512
                [] name = "timeout" -> 300 [] name = "port" -> 6379 [] name = "databases" -> 16
                [] name = "vm-max-threads" -> 4
                [] name \in {"maxmemory", "maxclients"} -> 0
                [] name = "appendfsync" -> "everysec" [] name = "loglevel" -> "verbose"
                [] name = "save" -> <<>>
                [] name \in {"dir", "slaveof"} -> Null]
      Point(t, seconds, changes) == AppendServerSaveParams(t, seconds, changes)
  IN  Point(Point(Point(s, 3600, 1), 300, 100), 60, 10000)

-----------------------------------------------------------------------------
(* The file.                                                               *)

LoadFlag(s, name, a) == Only(Yesnotoi(a) # -1, Set(s, name, Yesnotoi(a)), s)

LoadCount(s, name, a) ==
  LET n == IF name = "maxclients" THEN Unsigned(Atoi(a), IntMax) ELSE Atoi(a)
  IN  Only(InRange(name, n), Set(s, name, n), s)

LoadSize(s, name, a) ==
  Accepted(Set(s, name, IF name \in UnsignedSizes THEN Unsigned(Memtoll(a), LongMax) ELSE Memtoll(a)))

LoadChoice(s, name, a) == Only(a.rest \in ChoicesOf(name) /\ ~a.digits, Set(s, name, a.rest), s)

LoadSave(s, seconds, changes) ==
  Only(Atoi(seconds) >= 1 /\ Atoi(changes) >= 0,
       AppendServerSaveParams(s, Atoi(seconds), Atoi(changes)), s)

\* The log file is opened at once, to find out whether it can be.
LoadLogfile(s, a) ==
  IF a = Word("stdout") THEN Accepted(Set(s, "logfile", Null))
  ELSE Only(a \notin Unusable, Set(s, "logfile", a), s)

\* One line that is neither blank nor a comment: a known name with the number
\* of arguments it takes.
LoadDirective(s, name, args) ==
  IF Len(args) = 2 THEN
    CASE name = "save" -> LoadSave(s, args[1], args[2])
      [] name = "slaveof" -> Accepted(Set(s, "slaveof", args[1]))
      [] OTHER -> Refused(s)
  ELSE IF Len(args) # 1 THEN Refused(s)
  ELSE LET a == args[1]
       IN  CASE name \in Flags -> LoadFlag(s, name, a)
             [] name \in Counts -> LoadCount(s, name, a)
             [] name \in Sizes -> LoadSize(s, name, a)
             [] name \in Enums -> LoadChoice(s, name, a)
             [] name \in Names -> Accepted(Set(s, name, a))
             [] name = "logfile" -> LoadLogfile(s, a)
             [] name = "dir" -> Only(a \notin Unusable, Set(s, "dir", a), s)
             [] OTHER -> Refused(s)

\* Refused is for good: the server does not start.
RECURSIVE LoadServerConfig(_, _)
LoadServerConfig(s, file) ==
  LET Line(r, l) ==
        IF ~r.ok \/ l.name = "#" THEN r
        ELSE IF l.name = "include" /\ Len(l.args) = 1 THEN LoadServerConfig(r.s, l.args[1].rest)
        ELSE LoadDirective(r.s, l.name, l.args)
  IN  IF file \notin DOMAIN Files THEN Refused(s) ELSE FoldLeft(Line, Accepted(s), Files[file])

\* A file that is given replaces the default save points.
Started(file) == LoadServerConfig(ResetServerSaveParams(InitServerConfig), file)

-----------------------------------------------------------------------------
(* CONFIG.                                                                 *)

Supported == {"dbfilename", "requirepass", "masterauth", "maxmemory", "timeout", "appendfsync", "appendonly", "save"}

\* startAppendOnly may fail to open the file, or to start the rewrite.
SwitchAppendOnly(s, new, outcome) ==
  CASE new = s["appendonly"] \/ new = 0 \/ outcome = "ok" -> Accepted(Set(s, "appendonly", new))
    [] outcome = "unopened" -> Refused(Set(s, "appendonly", 1))
    [] outcome = "unforked" -> Refused(s)

SetSave(s, args) ==
  LET Good(j) == Whole(args[j]) /\ Strtoll(args[j]) >= (IF j % 2 = 1 THEN 1 ELSE 0)
      Point(t, j) == AppendServerSaveParams(t, Strtoll(args[2 * j - 1]), Strtoll(args[2 * j]))
  IN  Only(Len(args) % 2 = 0 /\ \A j \in DOMAIN args : Good(j),
           FoldLeft(Point, ResetServerSaveParams(s), [j \in 1..(Len(args) \div 2) |-> j]), s)

\* The value is one word; of save, the words it is split into.
ConfigSetCommand(s, name, args, outcome) ==
  LET o == args[1]
      ll == Strtoll(o)
  IN  CASE name \in {"dbfilename", "requirepass", "masterauth"} -> Accepted(Set(s, name, o))
        [] name = "maxmemory" -> Only(Whole(o) /\ ll >= 0, Set(s, name, ll), s)
        [] name = "timeout" -> Only(Whole(o) /\ ll >= 0 /\ ll <= LongMax, Set(s, name, AsInt(ll)), s)
        [] name = "appendfsync" -> Only(~o.digits /\ o.rest \in ChoicesOf(name), Set(s, name, o.rest), s)
        [] name = "appendonly" -> IF Yesnotoi(o) = -1 THEN Refused(s)
                                  ELSE SwitchAppendOnly(s, Yesnotoi(o), outcome)
        [] name = "save" -> SetSave(s, args)
        [] OTHER -> Refused(s)

Shown(s, name) ==
  CASE name \in {"dbfilename", "requirepass", "masterauth"} -> <<s[name]>>
    [] name = "maxmemory" -> <<Num(IF s[name] > LongMax THEN s[name] - 2 * LongMax - 2 ELSE s[name])>>
    [] name = "timeout" -> <<Num(s[name])>>
    [] name = "appendonly" -> <<Word(IF s[name] = 1 THEN "yes" ELSE "no")>>
    [] name = "appendfsync" -> <<Word(s[name])>>
    [] name = "save" -> FlattenSeq([j \in DOMAIN s[name] |-> <<Num(s[name][j].seconds), Num(s[name][j].changes)>>])

\* Matching is for stringmatch; here a pattern is what it matches.
ConfigGetCommand(s, pattern) == [name \in Supported \cap pattern |-> Shown(s, name)]

\* What RESETSTAT counts anew is no part of the configuration.
ConfigCommand(s, sub, args, outcome) ==
  CASE sub = "set" /\ Len(args) = 2 -> ConfigSetCommand(s, args[1], args[2], outcome)
    [] sub = "get" /\ Len(args) = 1 -> Accepted(s)
    [] sub = "resetstat" /\ args = <<>> -> Accepted(s)
    [] OTHER -> Refused(s)

-----------------------------------------------------------------------------
(* What is expected of it.                                                 *)

\* What the fields must be whatever their values were converted from.  (The
\* timeout and the changes of a save point may be negative: see RangesKept.)
ConfigOK(s) ==
  /\ \A name \in Flags : s[name] \in {0, 1}
  /\ \A name \in Enums : s[name] \in ChoicesOf(name)
  /\ s["port"] \in 1..65535 /\ s["databases"] >= 1
  /\ \A j \in DOMAIN s["save"] : s["save"][j].seconds >= 1

\* What the file is refused for, a negative timeout or number of changes, comes
\* from CONFIG SET all the same, which cuts what it has checked to int.
RangesKept(s) ==
  InRange("timeout", s["timeout"]) /\ \A j \in DOMAIN s["save"] : s["save"][j].changes >= 0

\* The fields hold the numbers they were given: int is narrower than the values
\* CONFIG SET takes, and the file takes a negative amount of memory.
Held(s) ==
  RangesKept(s) /\ s["maxmemory"] <= LongMax

\* What CONFIG GET shows can be given back with CONFIG SET and changes nothing.
\* (What is null is shown as no value and cannot be given back.)
ShownCanBeSet(s) ==
  \A name \in Supported :
    Held(s) /\ Shown(s, name) # <<Null>> => ConfigSetCommand(s, name, Shown(s, name), "ok") = Accepted(s)

\* The lines of a file that say what CONFIG SET says.
AsLines(name, args) ==
  IF name = "save" THEN [j \in 1..(Len(args) \div 2) |-> <<args[2 * j - 1], args[2 * j]>>] ELSE <<args>>

LoadedLines(s, name, lines) ==
  FoldLeft(LAMBDA r, args : IF r.ok THEN LoadDirective(r.s, name, args) ELSE r,
           Accepted(IF name = "save" THEN ResetServerSaveParams(s) ELSE s), lines)

\* What CONFIG SET takes has the effect it has in the file and on no other
\* parameter; what it does not take changes nothing, except that the append
\* only file stays on when it cannot be opened.
SetAgrees(s, name, args, outcome) ==
  LET r == ConfigSetCommand(s, name, args, outcome)
  IN  /\ \A other \in Supported \ {name} : Shown(r.s, other) = Shown(s, other)
      /\ ~r.ok => r.s = s \/ (name = "appendonly" /\ outcome = "unopened")
      /\ r.ok /\ Held(r.s) => LoadedLines(s, name, AsLines(name, args)) = Accepted(r.s)
=============================================================================
