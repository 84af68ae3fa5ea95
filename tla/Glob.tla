-------------------------------- MODULE Glob --------------------------------
(***************************************************************************)
(* stringmatchlen (redis.c 862-982), the glob-style patterns of KEYS,      *)
(* PSUBSCRIBE and CONFIG GET, against what such a pattern means.           *)
(*                                                                         *)
(* Letters are positive numbers in the order of their codes; the           *)
(* characters that mean something in a pattern are the numbers below.      *)
(* Reading the character after the last one gives the nul; patterns that   *)
(* make the code read further, a backslash at the very end of an open      *)
(* class, are left out of WellFormed, and so is the empty string, whose    *)
(* nul a class may match.                                                  *)
(***************************************************************************)
EXTENDS Integers, Sequences

Nul == 0
Star == -1
Question == -2
Open == -3
Close == -4
Caret == -5
Escape == -6
Dash == -7

At(s, i) == IF i <= Len(s) THEN s[i] ELSE Nul

From(s, i) == SubSeq(s, i, Len(s))

\* The class at position p of pattern, c the character to be matched: whether an
\* item of it matches, and the position where its loop stops.
RECURSIVE ClassLoop(_, _, _, _)
ClassLoop(pattern, p, c, match) ==
  LET left == Len(pattern) - p + 1
      start == At(pattern, p)
      end == At(pattern, p + 2)
  IN  CASE start = Escape -> ClassLoop(pattern, p + 2, c, match \/ At(pattern, p + 1) = c)
        [] start = Close -> [match |-> match, p |-> p]
        [] left = 0 -> [match |-> match, p |-> p - 1]
        [] At(pattern, p + 1) = Dash /\ left >= 3 /\ start # Close /\ start # Escape ->
             ClassLoop(pattern, p + 3, c,
                       match \/ (start <= c /\ c <= end) \/ (end <= c /\ c <= start))
        [] OTHER -> ClassLoop(pattern, p + 1, c, match \/ start = c)

\* One round of the loop with a string that is not empty: whether its first
\* character matches, and what is left of the pattern.
Goes(ok, pattern) == [ok |-> ok, pattern |-> pattern]

MatchClass(pattern, c) ==
  LET not == At(pattern, 2) = Caret
      class == ClassLoop(pattern, IF not THEN 3 ELSE 2, c, FALSE)
  IN  Goes(class.match # not, From(pattern, class.p + 1))

MatchOne(pattern, c) ==
  LET quoted == pattern[1] = Escape /\ Len(pattern) >= 2
  IN  CASE pattern[1] = Question -> Goes(TRUE, Tail(pattern))
        [] pattern[1] = Open -> MatchClass(pattern, c)
        [] quoted -> Goes(pattern[2] = c, From(pattern, 3))
        [] OTHER -> Goes(pattern[1] = c, Tail(pattern))

RECURSIVE WithoutStars(_)
WithoutStars(pattern) ==
  IF At(pattern, 1) = Star THEN WithoutStars(Tail(pattern)) ELSE pattern

RECURSIVE Stringmatchlen(_, _)
Stringmatchlen(pattern, string) ==
  IF pattern = <<>> THEN FALSE
  ELSE IF pattern[1] = Star
    THEN LET rest == WithoutStars(pattern)
         IN  rest = <<>> \/ \E i \in DOMAIN string : Stringmatchlen(rest, From(string, i))
  ELSE LET next == MatchOne(pattern, string[1])
       IN  /\ next.ok
           /\ IF Len(string) = 1 THEN WithoutStars(next.pattern) = <<>>
                ELSE Stringmatchlen(next.pattern, Tail(string))

-----------------------------------------------------------------------------
(* What a pattern means: a sequence of items, each AnyString or a set of   *)
(* letters, such that the string can be cut accordingly.                   *)

\* Positions of the first Close from p on that closes a class; a quoted one and
\* the end of a range do not.
RECURSIVE Closing(_, _)
Closing(pattern, p) ==
  IF p > Len(pattern) THEN 0
  ELSE IF pattern[p] = Close THEN p
  ELSE IF pattern[p] = Escape THEN Closing(pattern, p + 2)
  ELSE IF At(pattern, p + 1) = Dash /\ p + 2 <= Len(pattern) THEN Closing(pattern, p + 3)
  ELSE Closing(pattern, p + 1)

RECURSIVE Class(_, _)
Class(s, letters) ==
  IF s = <<>> THEN {}
  ELSE IF s[1] = Escape THEN {At(s, 2)} \cup Class(From(s, 3), letters)
  ELSE IF At(s, 2) = Dash /\ Len(s) >= 3
    THEN (letters \cap (s[1]..s[3] \cup s[3]..s[1])) \cup Class(From(s, 4), letters)
  ELSE {s[1]} \cup Class(Tail(s), letters)

First(pattern) == IF At(pattern, 2) = Caret THEN 3 ELSE 2

\* Every class is closed and every backslash quotes something.
RECURSIVE WellFormed(_)
WellFormed(pattern) ==
  IF pattern = <<>> THEN TRUE
  ELSE IF pattern[1] = Escape THEN Len(pattern) >= 2 /\ WellFormed(From(pattern, 3))
  ELSE IF pattern[1] # Open THEN WellFormed(Tail(pattern))
  ELSE LET close == Closing(pattern, First(pattern))
       IN  close # 0 /\ WellFormed(From(pattern, close + 1))

AnyString == {Nul}

RECURSIVE Items(_, _)
Items(pattern, letters) ==
  IF pattern = <<>> THEN <<>>
  ELSE LET Then(item, p) == <<item>> \o Items(From(pattern, p), letters)
       IN  CASE pattern[1] = Star -> Then(AnyString, 2)
             [] pattern[1] = Question -> Then(letters, 2)
             [] pattern[1] = Escape -> Then({pattern[2]}, 3)
             [] pattern[1] = Open ->
                  LET close == Closing(pattern, First(pattern))
                      class == Class(SubSeq(pattern, First(pattern), close - 1), letters)
                  IN  Then(IF First(pattern) = 3 THEN letters \ class ELSE class, close + 1)
             [] OTHER -> Then({pattern[1]}, 2)

RECURSIVE Denotes(_, _)
Denotes(items, string) ==
  IF items = <<>> THEN string = <<>>
  ELSE IF items[1] = AnyString
    THEN \E i \in 1..(Len(string) + 1) : Denotes(Tail(items), From(string, i))
  ELSE string # <<>> /\ string[1] \in items[1] /\ Denotes(Tail(items), Tail(string))

\* For every pattern and string of letters of some length.
MatchesAgree(letters, patternLen, stringLen) ==
  LET chars == letters \cup {Star, Question, Open, Close, Caret, Escape, Dash}
      patterns == {p \in UNION {[1..n -> chars] : n \in 0..patternLen} : WellFormed(p)}
      strings == UNION {[1..n -> letters] : n \in 1..stringLen}
  IN  \A p \in patterns : \A s \in strings :
        Stringmatchlen(p, s) <=> Denotes(Items(p, letters), s)

=============================================================================
