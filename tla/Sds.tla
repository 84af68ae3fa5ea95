-------------------------------- MODULE Sds --------------------------------
(***************************************************************************)
(* sds.c: strings with their length, the free cells behind them and a nul, *)
(* and the two functions that cut a string up.  buf has len + free + 1     *)
(* cells; those nothing was written to yet are Unset.                      *)
(***************************************************************************)
EXTENDS Integers, Sequences

Nul == 0
Unset == -1

Sdsnewlen(init) == [len |-> Len(init), free |-> 0, buf |-> Append(init, Nul)]

Content(s) == SubSeq(s.buf, 1, s.len)

\* cells are written from position p of buf on.
Written(buf, p, cells) ==
  [i \in DOMAIN buf |-> IF i \in p..(p + Len(cells) - 1) THEN cells[i - p + 1] ELSE buf[i]]

\* After the call the content is the first len cells.
Shortened(s, len) ==
  [len |-> len, free |-> s.free + (s.len - len), buf |-> Written(s.buf, len + 1, <<Nul>>)]

SdsMakeRoomFor(s, addlen) ==
  LET newlen == (s.len + addlen) * 2
      kept == SubSeq(s.buf, 1, Len(s.buf))
  IN  IF s.free >= addlen THEN s
      ELSE [s EXCEPT !.free = newlen - s.len,
                     !.buf = [i \in 1..(newlen + 1) |-> IF i <= Len(kept) THEN kept[i] ELSE Unset]]

Sdscatlen(s, t) ==
  LET r == SdsMakeRoomFor(s, Len(t))
  IN  [len |-> s.len + Len(t), free |-> r.free - Len(t),
       buf |-> Written(r.buf, s.len + 1, Append(t, Nul))]

\* Mutant of Sdscpylen: the free cells are not counted again.
SdscpylenKeepsFree(s, t) ==
  LET r == IF s.free + s.len < Len(t) THEN SdsMakeRoomFor(s, Len(t) - s.len) ELSE s
  IN  [len |-> Len(t), free |-> r.free, buf |-> Written(r.buf, 1, Append(t, Nul))]

Sdscpylen(s, t) ==
  LET r == IF s.free + s.len < Len(t) THEN SdsMakeRoomFor(s, Len(t) - s.len) ELSE s
  IN  [len |-> Len(t), free |-> r.free + r.len - Len(t),
       buf |-> Written(r.buf, 1, Append(t, Nul))]

\* The length of the C string in buf.
Sdsupdatelen(s) ==
  LET reallen == (CHOOSE i \in DOMAIN s.buf : s.buf[i] = Nul
                                              /\ \A j \in 1..(i - 1) : s.buf[j] # Nul) - 1
  IN  [s EXCEPT !.len = reallen, !.free = s.free + (s.len - reallen)]

\* strchr finds the nul in every set.
Sdstrim(s, cset) ==
  LET rest == {i \in 1..s.len : s.buf[i] \notin cset \cup {Nul}}
      sp == CHOOSE i \in rest : \A j \in rest : i <= j
      ep == CHOOSE i \in rest : \A j \in rest : j <= i
  IN  IF rest = {} THEN Shortened(s, 0)
      ELSE Shortened([s EXCEPT !.buf = Written(@, 1, SubSeq(@, sp, ep))], ep - sp + 1)

\* A start past the end is moved to the last character, unless end is before it.
Sdsrange(s, start, end) ==
  LET Clip(x) == IF x >= 0 THEN x ELSE IF s.len + x < 0 THEN 0 ELSE s.len + x
      Last(x) == IF x >= s.len THEN s.len - 1 ELSE x
      from == Clip(start)
      to == Clip(end)
  IN  IF s.len = 0 THEN s
      ELSE IF from > to THEN Shortened(s, 0)
      ELSE Shortened([s EXCEPT !.buf = Written(@, 1, SubSeq(@, Last(from) + 1, Last(to) + 1))],
                     Last(to) - Last(from) + 1)

-----------------------------------------------------------------------------
(* Cutting strings up.                                                     *)

\* The loop of sdssplitlen at position j, the token starting at start.
RECURSIVE SplitFrom(_, _, _, _)
SplitFrom(s, sep, start, j) ==
  IF j > Len(s) - (Len(sep) - 1) THEN <<SubSeq(s, start, Len(s))>>
  ELSE IF SubSeq(s, j, j + Len(sep) - 1) = sep
    THEN <<SubSeq(s, start, j - 1)>> \o SplitFrom(s, sep, j + Len(sep), j + Len(sep))
  ELSE SplitFrom(s, sep, start, j + 1)

Sdssplitlen(s, sep) == IF s = <<>> THEN <<>> ELSE SplitFrom(s, sep, 1, 1)

\* sdssplitargs: a character is a blank, a quote, a backslash, one of the
\* letters after a backslash that stand for a control character, that control
\* character (Control of the letter), or any other.
CONSTANTS Blank, Quote, Backslash, Escaped, Control(_)

Char(s, p) == IF p <= Len(s) THEN s[p] ELSE Nul

Failed == [ok |-> FALSE, token |-> <<>>, p |-> 0]

\* The token from p on, inq within quotes: the token and where the scan goes on.
RECURSIVE Token(_, _, _, _)
Token(line, p, inq, current) ==
  LET c == Char(line, p)
      next == Char(line, p + 1)
  IN  CASE inq /\ c = Backslash /\ next # Nul ->
             Token(line, p + 2, TRUE,
                   Append(current, IF next \in Escaped THEN Control(next) ELSE next))
        [] inq /\ c = Quote ->
             IF next \notin {Nul, Blank} THEN Failed
             ELSE [ok |-> TRUE, token |-> current, p |-> p + 1]
        [] inq /\ c = Nul -> Failed
        [] ~inq /\ c \in {Blank, Nul} -> [ok |-> TRUE, token |-> current, p |-> p + 1]
        [] ~inq /\ c = Quote -> Token(line, p + 1, TRUE, current)
        [] OTHER -> Token(line, p + 1, inq, Append(current, c))

\* The vector from p on, <<>> for NULL.
RECURSIVE ArgsFrom(_, _, _)
ArgsFrom(line, p, vector) ==
  IF Char(line, p) = Blank THEN ArgsFrom(line, p + 1, vector)
  ELSE IF Char(line, p) = Nul THEN vector
  ELSE LET t == Token(line, p, FALSE, <<>>)
       IN  IF t.ok THEN ArgsFrom(line, t.p, Append(vector, t.token)) ELSE <<>>

Sdssplitargs(line) == ArgsFrom(line, 1, <<>>)

\* sdscatrepr of a string of printable characters.  (Of a control character it
\* writes the backslash alone.)
RECURSIVE Quoted(_)
Quoted(s) ==
  IF s = <<>> THEN <<>>
  ELSE (IF s[1] \in {Quote, Backslash} THEN <<Backslash, s[1]>> ELSE <<s[1]>>) \o Quoted(Tail(s))

Sdscatrepr(s) == <<Quote>> \o Quoted(s) \o <<Quote>>

-----------------------------------------------------------------------------

SdsOK(s) == s.free >= 0 /\ Len(s.buf) = s.len + s.free + 1 /\ s.buf[s.len + 1] = Nul
            /\ \A i \in 1..s.len : s.buf[i] # Unset

Concat(seqs) == LET f[i \in 0..Len(seqs)] == IF i = 0 THEN <<>> ELSE f[i - 1] \o seqs[i] IN f[Len(seqs)]

Occurs(sep, s) == \E i \in 1..(Len(s) - Len(sep) + 1) : SubSeq(s, i, i + Len(sep) - 1) = sep

\* The tokens of a string, with the separators between them, are the string,
\* and no token has the separator in it.
SplitAgrees(s, sep) ==
  LET tokens == Sdssplitlen(s, sep)
      parts == [i \in DOMAIN tokens |-> IF i = 1 THEN tokens[i] ELSE sep \o tokens[i]]
  IN  Concat(parts) = s /\ \A i \in DOMAIN tokens : ~Occurs(sep, tokens[i])

\* Quoted, strings are read back as they were, however many are in a line.
ArgsAgree(s, t) ==
  Sdssplitargs(Sdscatrepr(s) \o <<Blank>> \o Sdscatrepr(t)) = <<s, t>>

=============================================================================
