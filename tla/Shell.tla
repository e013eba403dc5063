-------------------------------- MODULE Shell --------------------------------
(***************************************************************************)
(* sh.c: the parser, which makes a tree of a command line, and runcmd(),   *)
(* which forks processes that run it.  A line is a sequence of tokens as   *)
(* gettoken() finds them; every other token is a word.  A process keeps    *)
(* the node of the tree it runs, as the path that leads there, and pipes   *)
(* and files are known by the node that opens them.                        *)
(***************************************************************************)
EXTENDS Integers, Sequences, SequencesExt, FiniteSetsExt, TLC

CONSTANTS MAXARGS, NPROC, NOFILE, PIPESIZE,
          Scripts  \* what is typed: sequences of lines

Word(t) == t \notin {"|", "(", ")", ";", "&", "<", ">", ">>"}

-----------------------------------------------------------------------------
(* The parser.  A result is the tree and the tokens that are left. *)

execcmd(argv) == [type |-> "EXEC", argv |-> argv]
redircmd(c, fd) == [type |-> "REDIR", left |-> c, fd |-> fd]
pipecmd(l, r) == [type |-> "PIPE", left |-> l, right |-> r]
listcmd(l, r) == [type |-> "LIST", left |-> l, right |-> r]
backcmd(c) == [type |-> "BACK", left |-> c]

Parsed(c, rest) == [cmd |-> c, rest |-> rest]
Syntax == Parsed([type |-> "panic"], <<>>)
Failed(r) == r.cmd.type = "panic"

peek(t, toks) == t # <<>> /\ Head(t) \in toks

\* parseredirs(): the fds that are redirected, in the order they are written.
RECURSIVE parseredirs(_, _)
parseredirs(t, fds) ==
  IF ~peek(t, {"<", ">", ">>"}) THEN [ok |-> TRUE, fds |-> fds, rest |-> t]
  ELSE IF Len(t) < 2 \/ ~Word(t[2]) THEN [ok |-> FALSE, fds |-> fds, rest |-> t]
  ELSE parseredirs(SubSeq(t, 3, Len(t)), Append(fds, IF Head(t) = "<" THEN 0 ELSE 1))

Redirected(c, fds) == FoldLeft(redircmd, c, fds)

RECURSIVE parseline(_), parsepipe(_), Arguments(_, _, _), Ampersands(_)

parseblock(t) ==
  LET r == parseline(Tail(t))
      d == parseredirs(Tail(r.rest), <<>>)
  IN IF Failed(r) \/ ~peek(r.rest, {")"}) THEN Syntax
     ELSE IF d.ok THEN Parsed(Redirected(r.cmd, d.fds), d.rest) ELSE Syntax

\* The loop of parseexec(), each turn of which ends with parseredirs().
Arguments(t, argv, fds) ==
  IF t = <<>> \/ peek(t, {"|", ")", "&", ";"}) THEN Parsed(Redirected(execcmd(argv), fds), t)
  ELSE IF ~Word(Head(t)) \/ Len(argv) + 1 >= MAXARGS THEN Syntax
  ELSE LET d == parseredirs(Tail(t), fds) IN
       IF d.ok THEN Arguments(d.rest, Append(argv, Head(t)), d.fds) ELSE Syntax

parseexec(t) ==
  IF peek(t, {"("}) THEN parseblock(t)
  ELSE LET d == parseredirs(t, <<>>) IN
       IF d.ok THEN Arguments(d.rest, <<>>, d.fds) ELSE Syntax

\* Mutant: a pipe groups to the left.
Piped_Left(c, d) == IF d.type = "PIPE" THEN pipecmd(pipecmd(c, d.left), d.right) ELSE pipecmd(c, d)

Piped(c, d) == pipecmd(c, d)

parsepipe(t) ==
  LET l == parseexec(t) IN
  IF Failed(l) \/ ~peek(l.rest, {"|"}) THEN l
  ELSE LET r == parsepipe(Tail(l.rest)) IN
       IF Failed(r) THEN r ELSE Parsed(Piped(l.cmd, r.cmd), r.rest)

Ampersands(r) == IF peek(r.rest, {"&"}) THEN Ampersands(Parsed(backcmd(r.cmd), Tail(r.rest))) ELSE r

parseline(t) ==
  LET p == parsepipe(t)
      l == Ampersands(p)
  IN IF Failed(p) \/ ~peek(l.rest, {";"}) THEN l
     ELSE LET r == parseline(Tail(l.rest)) IN
          IF Failed(r) THEN r ELSE Parsed(listcmd(l.cmd, r.cmd), r.rest)

parsecmd(t) == LET r == parseline(t) IN IF r.rest = <<>> THEN r.cmd ELSE Syntax.cmd

-----------------------------------------------------------------------------
VARIABLES script,  \* the lines that are typed
          cmds,    \* their trees; parsecmd() depends on nothing but the line
          typed,   \* how many lines were read
          proc,    \* the processes; 1 is the shell itself
          pipes,   \* the bytes in each pipe
          short    \* history: fork() has failed

vars == <<script, cmds, typed, proc, pipes, short>>

Procs == 1..NPROC
Closed == <<"closed", <<>>>>
Console == <<"console", <<>>>>
None == [state |-> "UNUSED", parent |-> 0, pc |-> "none", path |-> <<>>,
         fd |-> [i \in 0..NOFILE - 1 |-> Closed], n |-> 0]

\* main(), after it has made sure that three descriptors are open.
Init ==
  /\ script \in Scripts
  /\ cmds = [k \in DOMAIN script |-> parsecmd(script[k])]
  /\ typed = 0
  /\ proc = [p \in Procs |-> IF p # 1 THEN None
       ELSE [None EXCEPT !.state = "RUN", !.pc = "getcmd",
                         !.fd = [i \in DOMAIN @ |-> IF i < 3 THEN Console ELSE Closed]]]
  /\ pipes = <<>> /\ short = FALSE

\* The tree that a path starts from, and the node it leads to.
RECURSIVE Node(_, _)
Node(c, path) == IF path = <<>> THEN c ELSE Node(IF Head(path) = 1 THEN c.left ELSE c.right, Tail(path))
At(path) == Node(cmds[Head(path)], Tail(path))

Is(p, l) == proc[p].state = "RUN" /\ proc[p].pc = l
Reaches(p, type) == Is(p, "runcmd") /\ At(proc[p].path).type = type
Kids(p) == {q \in Procs : proc[q].state # "UNUSED" /\ proc[q].parent = p}
Unused == {q \in Procs : proc[q].state = "UNUSED"}
Lowest(fd) == Min({i \in DOMAIN fd : fd[i] = Closed})
close(fd, i) == [fd EXCEPT ![i] = Closed]
dup(fd, i) == [fd EXCEPT ![Lowest(fd)] = fd[i]]
Holders(end) == {q \in Procs : proc[q].state = "RUN" /\ \E i \in 0..NOFILE - 1 : proc[q].fd[i] = end}

\* exit(): p closes its files and becomes a zombie, init adopts its children.
Exit(ps, p) ==
  [q \in Procs |->
     IF q = p THEN [None EXCEPT !.state = "ZOMBIE", !.parent = ps[p].parent]
     ELSE IF ps[q].state # "UNUSED" /\ ps[q].parent = p THEN [ps[q] EXCEPT !.parent = 0]
     ELSE ps[q]]
exit(p) == proc' = Exit(proc, p) /\ UNCHANGED <<script, cmds, typed, pipes, short>>

\* fork1(): the child of p starts with record c, and p goes on at l; without a free slot the
\* caller panics, that is, it exits.
fork1(p, c, l) ==
  /\ short' = (short \/ Unused = {})
  /\ proc' = IF Unused = {} THEN Exit(proc, p)
             ELSE [proc EXCEPT ![p].pc = l, ![Min(Unused)] = [c EXCEPT !.parent = p]]

Child(p, l) == [proc[p] EXCEPT !.pc = l]
ChildAt(p, l, branch) == [proc[p] EXCEPT !.pc = l, !.path = Append(@, branch)]

\* wait() reaps a child and goes on at l.
wait(p, z, l) ==
  /\ z \in Kids(p) /\ proc[z].state = "ZOMBIE"
  /\ proc' = [proc EXCEPT ![z] = None, ![p].pc = l]

\* main(): a line is read; chdir is done by the shell itself.  The child parses the line.
getcmd ==
  /\ Is(1, "getcmd")
  /\ IF typed = Len(script) THEN proc' = Exit(proc, 1) /\ UNCHANGED <<typed, short>>
     ELSE /\ typed' = typed + 1
          /\ IF Head(script[typed + 1]) = "cd" THEN UNCHANGED <<proc, short>>
             ELSE fork1(1, [proc[1] EXCEPT !.pc = "runcmd", !.path = <<typed + 1>>], "wait")
  /\ UNCHANGED <<script, cmds, pipes>>
mainWait(z) == Is(1, "wait") /\ wait(1, z, "getcmd") /\ UNCHANGED <<script, cmds, typed, pipes, short>>

\* parsecmd() panics, or there is nothing to execute, or exec() fails.
runNothing(p) ==
  /\ \/ Reaches(p, "panic")
     \/ Reaches(p, "EXEC") /\ At(proc[p].path).argv = <<>>
  /\ exit(p)

\* exec() runs the program, or it fails and the process exits.
exec(p) ==
  /\ Reaches(p, "EXEC") /\ At(proc[p].path).argv # <<>>
  /\ \/ proc' = [proc EXCEPT ![p].pc = At(proc[p].path).argv[1]]
     \/ proc' = Exit(proc, p)
  /\ UNCHANGED <<script, cmds, typed, pipes, short>>

\* REDIR: open() takes the descriptor that was closed, or fails.
redir(p) ==
  /\ Reaches(p, "REDIR")
  /\ LET fd == close(proc[p].fd, At(proc[p].path).fd) IN
     \/ proc' = [proc EXCEPT ![p].fd = [fd EXCEPT ![Lowest(fd)] = <<"file", proc[p].path>>],
                             ![p].path = Append(@, 1)]
     \/ proc' = Exit(proc, p)
  /\ UNCHANGED <<script, cmds, typed, pipes, short>>

list(p) ==
  /\ Reaches(p, "LIST")
  /\ fork1(p, ChildAt(p, "runcmd", 1), "list")
  /\ UNCHANGED <<script, cmds, typed, pipes>>
listWait(p, z) ==
  /\ Is(p, "list")
  /\ z \in Kids(p) /\ proc[z].state = "ZOMBIE"
  /\ proc' = [proc EXCEPT ![z] = None, ![p].pc = "runcmd", ![p].path = Append(@, 2)]
  /\ UNCHANGED <<script, cmds, typed, pipes, short>>

\* PIPE: pipe(), which may fail, then a child for each side.
pipe(p) ==
  /\ Reaches(p, "PIPE")
  /\ LET path == proc[p].path
         r == Lowest(proc[p].fd)
         fd == [proc[p].fd EXCEPT ![r] = <<"r", path>>]
         w == Lowest(fd)
     IN \/ /\ Cardinality({i \in DOMAIN proc[p].fd : proc[p].fd[i] = Closed}) >= 2
           /\ pipes' = (path :> 0) @@ pipes
           /\ proc' = [proc EXCEPT ![p].fd = [fd EXCEPT ![w] = <<"w", path>>], ![p].pc = "fork1"]
        \/ proc' = Exit(proc, p) /\ UNCHANGED pipes
  /\ UNCHANGED <<script, cmds, typed, short>>
forkLeft(p) == Is(p, "fork1") /\ fork1(p, Child(p, "left"), "fork2") /\ UNCHANGED <<script, cmds, typed, pipes>>
forkRight(p) == Is(p, "fork2") /\ fork1(p, Child(p, "right"), "close") /\ UNCHANGED <<script, cmds, typed, pipes>>

\* The descriptors of the pipe that p has from pipe().
Ends(p) == {i \in 3..NOFILE - 1 : proc[p].fd[i] \in {<<"r", proc[p].path>>, <<"w", proc[p].path>>}}
WithoutEnds(p, fd) == [i \in DOMAIN fd |-> IF i \in Ends(p) THEN Closed ELSE fd[i]]
End(p, e) == CHOOSE i \in Ends(p) : proc[p].fd[i] = <<e, proc[p].path>>

\* Mutant: the right side keeps the ends it does not need.
SideFds_Right(p, std, e) ==
  LET fd == dup(close(proc[p].fd, std), End(p, e)) IN IF e = "r" THEN fd ELSE WithoutEnds(p, fd)

\* close(std); dup(p[..]); close(p[0]); close(p[1]).
SideFds(p, std, e) == WithoutEnds(p, dup(close(proc[p].fd, std), End(p, e)))

side(p) ==
  /\ \E s \in {<<"left", 1, "w", 1>>, <<"right", 0, "r", 2>>} :
       /\ Is(p, s[1])
       /\ proc' = [proc EXCEPT ![p].fd = SideFds(p, s[2], s[3]), ![p].pc = "runcmd",
                               ![p].path = Append(@, s[4])]
  /\ UNCHANGED <<script, cmds, typed, pipes, short>>
closeEnds(p) ==
  /\ Is(p, "close")
  /\ proc' = [proc EXCEPT ![p].fd = WithoutEnds(p, @), ![p].pc = "wait1"]
  /\ UNCHANGED <<script, cmds, typed, pipes, short>>
pipeWait(p, z) ==
  /\ \/ Is(p, "wait1") /\ wait(p, z, "wait2")
     \/ Is(p, "wait2") /\ wait(p, z, "exit")
  /\ UNCHANGED <<script, cmds, typed, pipes, short>>

back(p) ==
  /\ Reaches(p, "BACK")
  /\ fork1(p, ChildAt(p, "runcmd", 1), "exit")
  /\ UNCHANGED <<script, cmds, typed, pipes>>
runExit(p) == Is(p, "exit") /\ exit(p)

\* init reaps what it adopted.
initWait(z) ==
  /\ proc[z].state = "ZOMBIE" /\ proc[z].parent = 0 /\ z # 1
  /\ proc' = [proc EXCEPT ![z] = None]
  /\ UNCHANGED <<script, cmds, typed, pipes, short>>

-----------------------------------------------------------------------------
(* The programs that are run, over the system calls of a pipe: w writes two *)
(* bytes, r reads to the end, f copies.                                     *)

\* read(0): a byte, or the end, where the program exits.
ReadByte(p, next) ==
  LET in == proc[p].fd[0] IN
  \/ /\ in[1] = "r" /\ pipes[in[2]] > 0
     /\ pipes' = [pipes EXCEPT ![in[2]] = @ - 1]
     /\ proc' = [proc EXCEPT ![p].n = next]
  \/ /\ in[1] = "r" => pipes[in[2]] = 0 /\ Holders(<<"w", in[2]>>) = {}
     /\ proc' = Exit(proc, p) /\ UNCHANGED pipes

\* write(1): the byte goes into the pipe or elsewhere; with no reader left the program exits.
WriteByte(p, next) ==
  LET out == proc[p].fd[1] IN
  IF out[1] # "w" THEN proc' = [proc EXCEPT ![p].n = next] /\ UNCHANGED pipes
  ELSE IF Holders(<<"r", out[2]>>) = {} THEN proc' = Exit(proc, p) /\ UNCHANGED pipes
  ELSE /\ pipes[out[2]] < PIPESIZE
       /\ pipes' = [pipes EXCEPT ![out[2]] = @ + 1]
       /\ proc' = [proc EXCEPT ![p].n = next]

program(p) ==
  /\ \/ Is(p, "r") /\ ReadByte(p, 0)
     \/ Is(p, "f") /\ proc[p].n = 0 /\ ReadByte(p, 1)
     \/ Is(p, "f") /\ proc[p].n = 1 /\ WriteByte(p, 0)
     \/ Is(p, "w") /\ proc[p].n < 2 /\ WriteByte(p, proc[p].n + 1)
     \/ Is(p, "w") /\ proc[p].n = 2 /\ proc' = Exit(proc, p) /\ UNCHANGED pipes
  /\ UNCHANGED <<script, cmds, typed, short>>

Step(p) ==
  \/ p = 1 /\ (getcmd \/ \E z \in Procs : mainWait(z))
  \/ runNothing(p) \/ exec(p) \/ redir(p) \/ list(p) \/ pipe(p) \/ back(p)
  \/ forkLeft(p) \/ forkRight(p) \/ side(p) \/ closeEnds(p) \/ runExit(p)
  \/ (\E z \in Procs : listWait(p, z) \/ pipeWait(p, z))
  \/ program(p)
  \/ initWait(p)

Next == \E p \in Procs : Step(p)

\* The shell has come to the end of its input, or fork() failed; the rest may go on.
Finished == proc[1].state = "ZOMBIE"

-----------------------------------------------------------------------------
\* How a tree is written.
RECURSIVE Written(_), Grouped(_, _)
Grouped(c, types) == IF c.type \in types THEN Written(c) ELSE <<"(">> \o Written(c) \o <<")">>
Written(c) ==
  CASE c.type = "EXEC" -> c.argv
    [] c.type = "REDIR" -> Grouped(c.left, {"EXEC", "REDIR"}) \o <<IF c.fd = 0 THEN "<" ELSE ">", "w">>
    [] c.type = "PIPE" -> Grouped(c.left, {"EXEC", "REDIR"}) \o <<"|">> \o Grouped(c.right, {"EXEC", "REDIR", "PIPE"})
    [] c.type = "BACK" -> Grouped(c.left, {"EXEC", "REDIR", "PIPE", "BACK"}) \o <<"&">>
    [] c.type = "LIST" -> Grouped(c.left, {"EXEC", "REDIR", "PIPE", "BACK"}) \o <<";">> \o Written(c.right)

\* The trees that are made of those in T.
Larger(T) ==
  T \cup {redircmd(c, fd) : c \in T, fd \in {0, 1}} \cup {backcmd(c) : c \in T}
    \cup {pipecmd(c, d) : c \in T, d \in T} \cup {listcmd(c, d) : c \in T, d \in T}

\* Every tree is what parsecmd() makes of the line that is written for it.
ParseExact == \A c \in Larger(Larger({execcmd(<<>>), execcmd(<<"r", "w">>)})) : parsecmd(Written(c)) = c

\* The last node on the way to a program that sets one of its descriptors.
Setters(path, fd) ==
  {k \in 1..Len(path) - 1 :
     LET c == At(SubSeq(path, 1, k)) IN
     \/ c.type = "REDIR" /\ c.fd = fd
     \/ c.type = "PIPE" /\ path[k + 1] = 2 - fd}
Wanted(path, fd) ==
  IF Setters(path, fd) = {} THEN Console
  ELSE LET q == SubSeq(path, 1, Max(Setters(path, fd))) IN
       <<IF At(q).type = "REDIR" THEN "file" ELSE IF fd = 0 THEN "r" ELSE "w", q>>

\* A program is run with the standard input and output that its place in the line says, and
\* with no other descriptor open, so that no pipe is kept open by a process that does not use it.
StdioExact ==
  \A p \in Procs : proc[p].pc \in {"w", "r", "f"} =>
    LET fd == proc[p].fd IN
    /\ fd[0] = Wanted(proc[p].path, 0) /\ fd[1] = Wanted(proc[p].path, 1) /\ fd[2] = Console
    /\ \A i \in 3..NOFILE - 1 : fd[i] = Closed

\* What is after a semicolon does not run before what is in front of it has ended, except for
\* what was put in the background.  When fork() fails for the right side of a pipe, though, the
\* left side is left behind and the list goes on.
InOrder ==
  ~short => \A p, q \in Procs :
    \A k \in 1..Len(proc[p].path) - 1 :
      LET path == proc[p].path
          top == SubSeq(path, 1, k)
      IN At(top).type = "LIST" /\ path[k + 1] = 2 /\ IsPrefix(Append(top, 1), proc[q].path) =>
           \E j \in k + 1..Len(proc[q].path) - 1 : At(SubSeq(proc[q].path, 1, j)).type = "BACK"

\* runcmd() and parsecmd() together.
CommandsExact == StdioExact /\ InOrder /\ (typed = 0 => ParseExact)
=============================================================================
