------------------------------ MODULE Console -------------------------------
(***************************************************************************)
(* console.c: the input ring that the keyboard and serial interrupts fill  *)
(* and consoleread() empties.  r, w and e are uints that only grow, and    *)
(* wrap: r..w-1 is what may be read, w..e-1 the line being edited.         *)
(* cons.lock is held from the first test to sleep() or return, and by an   *)
(* interrupt for all its characters, so that each is one step; a burst of  *)
(* characters is several consoleintr steps in a row.                       *)
(***************************************************************************)
EXTENDS Integers, Sequences, FiniteSetsExt

CONSTANTS Readers, INPUT_BUF, UINT, Counts, Letters

VARIABLES input,   \* struct input: buf, r, w, e
          pc,      \* where each reader is; "read": it has to take cons.lock
          target,  \* consoleread's target
          n,       \* and its n, the bytes still wanted
          killed,  \* struct proc
          eof      \* history: reads that returned no byte, modulo 2

Nul == "nul"
Chars == Letters \cup {"\n", "^D", Nul}

vars == <<input, pc, target, n, killed, eof>>

Init ==
  /\ input = [buf |-> [i \in 0..INPUT_BUF - 1 |-> Nul], r |-> 0, w |-> 0, e |-> 0]
  /\ pc = [p \in Readers |-> "idle"]
  /\ target = [p \in Readers |-> 0] /\ n = [p \in Readers |-> 0]
  /\ killed = [p \in Readers |-> FALSE]
  /\ eof = 0

Char(k) == input.buf[(k % UINT) % INPUT_BUF]
Count(from, to) == (to - from) % UINT
Between(from, to) == [k \in 1..Count(from, to) |-> Char(from + k - 1)]

\* Mutant: one too many.
HasRoom_OffByOne == Count(input.r, input.e) <= INPUT_BUF

\* consoleintr's test for a character that is not a control character.
HasRoom == Count(input.r, input.e) < INPUT_BUF

\* Mutant: nobody is woken when the ring is full.
Commits_Line(c, e) == c \in {"\n", "^D"}

\* The line is given to the readers, with the edit index at e.
Commits(c, e) == c \in {"\n", "^D"} \/ e = (input.r + INPUT_BUF) % UINT

\* wakeup(&input.r).
Woken == [p \in Readers |-> IF pc[p] = "asleep" THEN "read" ELSE pc[p]]

\* consoleintr(): any other character, "\r" already made "\n".
typed(c) ==
  /\ HasRoom
  /\ LET e == (input.e + 1) % UINT
         buf == [input.buf EXCEPT ![input.e % INPUT_BUF] = c]
     IN IF Commits(c, e)
        THEN input' = [input EXCEPT !.buf = buf, !.e = e, !.w = e] /\ pc' = Woken
        ELSE input' = [input EXCEPT !.buf = buf, !.e = e] /\ UNCHANGED pc
  /\ UNCHANGED <<target, n, killed, eof>>

\* consoleintr(): backspace.
backspace ==
  /\ input.e # input.w
  /\ input' = [input EXCEPT !.e = (@ - 1) % UINT]
  /\ UNCHANGED <<pc, target, n, killed, eof>>

\* consoleintr(): control-U, back to the end of the line before.
killLine ==
  /\ LET back == Max({k \in 0..Count(input.w, input.e) : \A j \in 1..k : Char(input.e - j) # "\n"})
     IN input' = [input EXCEPT !.e = (@ - back) % UINT]
  /\ UNCHANGED <<pc, target, n, killed, eof>>

\* sys_read() reaches consoleread().
call(p, count) ==
  /\ pc[p] = "idle"
  /\ pc' = [pc EXCEPT ![p] = "read"]
  /\ target' = [target EXCEPT ![p] = count] /\ n' = [n EXCEPT ![p] = count]
  /\ UNCHANGED <<input, killed, eof>>

\* Where a process is that returns from the call: a killed one exits.
Back(p) == [pc EXCEPT ![p] = IF killed[p] THEN "dead" ELSE "idle"]

\* Mutant: control-D is always taken.
Taken_EOF(p, i) == i

\* How many bytes leave the ring if byte i ends the read: control-D stays there for the next
\* read when this one has got something.
Taken(p, i) == IF Char(input.r + i - 1) = "^D" /\ n[p] - (i - 1) < target[p] THEN i - 1 ELSE i

\* consoleread(), from taking cons.lock, or waking up with it, to the return or sleep().
consoleread(p) ==
  /\ pc[p] = "read"
  /\ LET there == Count(input.r, input.w)
         ends == {i \in 1..Min({there, n[p]}) : i = n[p] \/ Char(input.r + i - 1) \in {"\n", "^D"}}
         last == Min(ends)
         got == target[p] - n[p] + (IF Char(input.r + last - 1) = "^D" THEN last - 1 ELSE last)
     IN IF ends # {}
        THEN /\ input' = [input EXCEPT !.r = (@ + Taken(p, last)) % UINT]
             /\ pc' = Back(p)
             /\ eof' = IF got = 0 THEN 1 - eof ELSE eof
             /\ n' = [n EXCEPT ![p] = 0]
        ELSE /\ input' = [input EXCEPT !.r = input.w]
             /\ pc' = IF killed[p] THEN Back(p) ELSE [pc EXCEPT ![p] = "asleep"]
             /\ n' = [n EXCEPT ![p] = IF killed[p] THEN 0 ELSE @ - there]
             /\ UNCHANGED eof
  /\ target' = [target EXCEPT ![p] = IF pc'[p] = "asleep" THEN @ ELSE 0]
  /\ UNCHANGED killed

\* kill(): a process in user space exits when it next traps.
kill(p) ==
  /\ pc[p] # "dead" /\ ~killed[p]
  /\ killed' = [killed EXCEPT ![p] = TRUE]
  /\ pc' = [pc EXCEPT ![p] = CASE @ = "asleep" -> "read" [] @ = "idle" -> "dead" [] OTHER -> @]
  /\ UNCHANGED <<input, target, n, eof>>

Next ==
  \/ \E c \in Letters \cup {"\n", "^D"} : typed(c)
  \/ backspace \/ killLine
  \/ \E p \in Readers : consoleread(p) \/ kill(p) \/ \E count \in Counts : call(p, count)

Spec == Init /\ [][Next]_vars

\* No wakeup is lost: a reader sleeps only while nothing can be read, and not once killed.
NoLostWakeup == \A p \in Readers : pc[p] = "asleep" => input.r = input.w /\ ~killed[p]

\* What module LineDevice calls ready and editing.
Ready == Between(input.r, input.w)
Editing == Between(input.w, input.e)
=============================================================================
