-------------------------------- MODULE Grep --------------------------------
(***************************************************************************)
(* grep.c: the matcher, and the loop that reads a file through a buffer    *)
(* and prints the lines that match.  A read from a file fills what it is   *)
(* given; a read from a pipe or the console may return less.               *)
(***************************************************************************)
EXTENDS Integers, Sequences, SequencesExt, FiniteSetsExt

CONSTANTS BUFSIZE, Patterns, Inputs, Texts

VARIABLES pattern,
          stdin,   \* is it a pipe or the console
          input,   \* all of it
          left,    \* what is still to be read
          buf,     \* buf[0..m-1]
          out,     \* the lines written
          dropped  \* history: a buffer without the end of a line was thrown away

vars == <<pattern, stdin, input, left, buf, out, dropped>>

RECURSIVE matchhere(_, _), matchstar(_, _, _)

matchhere(re, text) ==
  IF re = <<>> THEN TRUE
  ELSE IF Len(re) > 1 /\ re[2] = "*" THEN matchstar(re[1], SubSeq(re, 3, Len(re)), text)
  ELSE IF re = <<"$">> THEN text = <<>>
  ELSE text # <<>> /\ re[1] \in {".", Head(text)} /\ matchhere(Tail(re), Tail(text))

\* Mutant: a star takes at least one character.
matchstar_Plus(c, re, text) ==
  text # <<>> /\ c \in {".", Head(text)} /\ (matchhere(re, Tail(text)) \/ matchstar(c, re, Tail(text)))

matchstar(c, re, text) ==
  \/ matchhere(re, text)
  \/ text # <<>> /\ c \in {".", Head(text)} /\ matchstar(c, re, Tail(text))

match(re, text) ==
  IF re # <<>> /\ re[1] = "^" THEN matchhere(Tail(re), text)
  ELSE \E i \in 0..Len(text) : matchhere(re, SubSeq(text, i + 1, Len(text)))

\* grep(), the inner loop: the lines of a buffer that match, each with its end.
Ends(b) == {i \in 1..Len(b) : b[i] = "\n"}
Line(b, q) == SubSeq(b, Max({0} \cup {i \in Ends(b) : i < q}) + 1, q - 1)
Printed(b) ==
  LET ends == SetToSortSeq(Ends(b), <)
      lines == [k \in DOMAIN ends |-> Line(b, ends[k])]
  IN SelectSeq(lines, LAMBDA l : match(pattern, l))

\* Mutant: the beginning of the next line is not kept.
Rest_None(b) == <<>>

\* What is moved to the front of the buffer: nothing, if there was no end of a line in it.
Rest(b) == IF Ends(b) = {} THEN <<>> ELSE SubSeq(b, Max(Ends(b)) + 1, Len(b))

Init ==
  /\ pattern \in Patterns /\ stdin \in BOOLEAN /\ input \in Inputs
  /\ left = input /\ buf = <<>> /\ out = <<>> /\ dropped = FALSE

\* One turn of grep()'s outer loop.
grep ==
  /\ left # <<>>
  /\ LET room == Min({BUFSIZE - Len(buf) - 1, Len(left)}) IN
     \E n \in (IF stdin THEN 1..room ELSE {room}) :
       LET b == buf \o SubSeq(left, 1, n) IN
       /\ left' = SubSeq(left, n + 1, Len(left))
       /\ out' = out \o Printed(b)
       /\ buf' = Rest(b)
       /\ dropped' = (dropped \/ Ends(b) = {})
  /\ UNCHANGED <<pattern, stdin, input>>

-----------------------------------------------------------------------------
\* What a pattern means: the strings, up to a length, that its characters and stars stand
\* for one after the other.
Upto(n) == UNION {[1..k -> {"a", "b"}] : k \in 0..n}
OneOf(c, n) == {t \in Upto(n) : Len(t) = 1 /\ c \in {".", t[1]}}
Star(c, n) == {t \in Upto(n) : \A i \in DOMAIN t : c \in {".", t[i]}}
Joined(S, T, n) == {u \in {s \o t : s \in S, t \in T} : Len(u) <= n}

RECURSIVE Strings(_, _)
Strings(re, n) ==
  IF re = <<>> THEN {<<>>}
  ELSE IF Len(re) > 1 /\ re[2] = "*" THEN Joined(Star(re[1], n), Strings(SubSeq(re, 3, Len(re)), n), n)
  ELSE Joined(OneOf(re[1], n), Strings(Tail(re), n), n)

\* A final $ is an anchor unless it is starred, and so is a first ^.
Matches(re, text) ==
  LET from == re # <<>> /\ re[1] = "^"
      to == Len(re) > (IF from THEN 1 ELSE 0) /\ Last(re) = "$"
      body == SubSeq(re, IF from THEN 2 ELSE 1, IF to THEN Len(re) - 1 ELSE Len(re))
      found == Strings(body, Len(text))
  IN \E i, j \in 0..Len(text) :
       /\ i <= j /\ (from => i = 0) /\ (to => j = Len(text))
       /\ SubSeq(text, i + 1, j) \in found

\* match() is the meaning of the pattern; and when grep() comes to the end it has printed
\* exactly the lines that match, in order, however the reads cut the input up, unless it threw
\* away a buffer without the end of a line.  From a file it does that only to a line that does
\* not fit in the buffer and to what follows the last end of a line.
GrepExact ==
  /\ \A text \in Texts : match(pattern, text) <=> Matches(pattern, text)
  /\ left = <<>> =>
       LET ends == SetToSortSeq(Ends(input), <)
           lines == [k \in DOMAIN ends |-> Line(input, ends[k])]
           fits == ~stdin /\ \A k \in DOMAIN lines : Len(lines[k]) < BUFSIZE - 1
       IN fits \/ ~dropped => out = SelectSeq(lines, LAMBDA l : Matches(pattern, l))
=============================================================================
