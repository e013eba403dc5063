----------------------------- MODULE MCPrograms -----------------------------
(***************************************************************************)
(* User programs, each of them in some of the behaviours: those of lab 7,  *)
(* the shell and grep; and, with program = "kernel", the scheduling of     *)
(* 200050086_lab6.  The variables of what does not run keep one value.     *)
(***************************************************************************)
EXTENDS Cricket

CONSTANTS QUEUE_SIZE, INT_MAX, Garbage, TOTAL, Sharers, PoolSizes, NPROC,
          MAXARGS, ShellProcs, NOFILE, PIPESIZE, BUFSIZE

VARIABLES state, rutime, since, running, scan, waits,
          script, cmds, typed, proc, pipes, short,
          pattern, stdin, input, left, buf, out, dropped

p(n) == <<"p", n>>
w == <<"w", 1>>
x == <<"x", 1>>

\* More tasks than the ring holds, fewer, a line that cannot be recognized, and a file with so
\* few lines that there is no worker.
Files == { <<p(1), p(2)>>, <<p(3), w, p(2), p(2)>>, <<p(2), p(1), p(3), p(2), p(1)>>, <<p(1), p(1), x>>, <<p(1)>> }
PoolFiles == { <<p(1), w, p(2), p(3), p(1)>>, <<p(1), x>>, <<p(2), p(1), p(1)>> }

Queue == INSTANCE TaskQueue
Pool == INSTANCE TaskPool
Add == INSTANCE AddMillion
Sem == INSTANCE CricketSem
Enter == INSTANCE CricketEnter
Cv == INSTANCE CricketCv
Team == INSTANCE CricketTeams
Kernel == INSTANCE Preempt
kernel == <<state, rutime, since, running, scan, waits>>

\* Pipelines of three programs and of four, for which there are too few processes; lists, groups
\* and redirections; the background; lines with something missing, and some that are refused.
Scripts ==
  { << <<"w", "|", "f", "|", "r">> >>,
    << <<"w", "|", "(", "r", ";", "w", "|", "r", ";", "w", "&", ")">> >>,
    << <<"r", "|", "r", "|", "r", "&">>, <<"w">> >>,
    << <<"w", ";", "r">>, <<"cd", "w">>, <<"w", "w", "w">> >>,
    << <<"(", "w", ";", "w", ")", "|", "f">> >>,
    << <<"w", "|", "r", "&">>, <<"f", "<", "r", ">", "w">> >>,
    << <<"w", "|">>, <<"w", ">", "w", "<", "r", ">>", "r">> >>,
    << <<"w", "(">>, <<"w", ">">>, <<"(", "w">> >>,
    << <<"r", "|", "w">>, <<"&">> >>,
    << <<"(", "w", "|", "r", ")", "&", ";", "w">> >> }
Sh == INSTANCE Shell WITH NPROC <- ShellProcs
shell == <<script, cmds, typed, proc, pipes, short>>

Nl == "\n"
Patterns == UNION {[1..k -> {"a", ".", "*", "^", "$"}] : k \in 0..3}
Inputs == { <<"a", "b", Nl, "b", Nl, "a", "a", Nl>>, <<"b", Nl, Nl, "a", "b">>, <<"a", "a", "b", "a", Nl, "a", Nl>> }
Texts == UNION {[1..k -> {"a", "b"}] : k \in 0..3}
G == INSTANCE Grep
grep == <<pattern, stdin, input, left, buf, out, dropped>>

NoKernel ==
  /\ state = [n \in 1..NPROC |-> "SLEEPING"]
  /\ rutime = [n \in 1..NPROC |-> 0] /\ since = rutime /\ waits = rutime
  /\ running = 0 /\ scan = 1
NoShell ==
  /\ script = <<>> /\ cmds = <<>> /\ typed = 0 /\ pipes = <<>> /\ short = FALSE
  /\ proc = [n \in 1..ShellProcs |-> Sh!None]
NoGrep ==
  /\ pattern = <<>> /\ stdin = FALSE /\ input = <<>>
  /\ left = <<>> /\ buf = <<>> /\ out = <<>> /\ dropped = FALSE
NoThreads == threads = EmptyBag /\ pc = "none" /\ mem = "none"

MCInit ==
  \/ /\ Queue!Init \/ Pool!Init \/ Add!Init \/ Sem!Init \/ Enter!Init \/ Cv!Init \/ Team!Init
     /\ NoKernel /\ NoShell /\ NoGrep
  \/ program = "kernel" /\ Kernel!Init /\ NoThreads /\ NoShell /\ NoGrep
  \/ program = "sh" /\ Sh!Init /\ NoThreads /\ NoKernel /\ NoGrep
  \/ program = "grep" /\ G!Init /\ NoThreads /\ NoKernel /\ NoShell
Done ==
  /\ \/ Ended
     \/ program = "sh" /\ Sh!Finished
     \/ program = "grep" /\ left = <<>>
  /\ UNCHANGED <<vars, kernel, shell, grep>>
Threads ==
  \/ Queue!Next \/ Pool!Next \/ Add!Next
  \/ Sem!Next \/ Enter!Next \/ Cv!Next \/ Team!Next
MCNext ==
  \/ Threads /\ UNCHANGED <<kernel, shell, grep>>
  \/ program = "kernel" /\ Kernel!NextUpdateTable /\ UNCHANGED <<vars, shell, grep>>
  \/ program = "sh" /\ Sh!Next /\ UNCHANGED <<vars, kernel, grep>>
  \/ program = "grep" /\ G!grep /\ UNCHANGED <<vars, kernel, shell>>
  \/ Done
\* A thread, or a process of the shell, that can take a step gets the CPU and takes it.
MCSpec ==
  /\ MCInit /\ [][MCNext]_<<vars, kernel, shell, grep>>
  /\ Queue!Fairness /\ Pool!Fairness /\ Add!Fairness
  /\ Sem!Fairness /\ Enter!Fairness /\ Team!Fairness
  /\ \A n \in 1..ShellProcs : WF_shell(program = "sh" /\ Sh!Step(n))

\* cricket-cv-mutex.c alone.
CvSpec ==
  /\ Cv!Init /\ NoKernel /\ NoShell /\ NoGrep
  /\ [][Cv!Next /\ UNCHANGED <<kernel, shell, grep>>]_<<vars, kernel, shell, grep>>

\* taskqueue.c of lab7: every task of the file is in the totals once, unless the ring overflows;
\* that of 200050133_lab7: the same, unless an argument is overwritten or the last pass goes too
\* far; addmillion.c: every increment of account_balance is counted.
TotalsExact == Queue!TaskTotals /\ Pool!PoolTotals /\ Add!BalanceExact
\* cricket-semaphores.c and cricket-semaphores-on-enter-players.c: startGame prints the scores
\* of the match's own players and nobody else's, and the day's results add up.  In all the
\* cricket programs the high scores are the highest of those printed, and in cricket-cv-mutex.c
\* no player is in the middle of bat() while startGame sums a match up.
MatchesPlayed ==
  /\ program \in {"cricket-semaphores", "cricket-semaphores-on-enter-players"} =>
       MatchesExact /\ ScoresPossible /\ DayAddsUp
  /\ program \in {"cricket-semaphores", "cricket-semaphores-on-enter-players", "cricket-cv-mutex"} => HighestPrinted
  /\ Team!TeamsHighScores
  /\ Cv!SummaryAlone
\* sh.c: parsecmd reads back every tree that can be written; runcmd runs each program with the
\* input and output that the line says and no other descriptor, in the order the line says.
CommandsExact == program = "sh" => Sh!CommandsExact
\* grep.c: match is what the pattern means, and the lines that match are printed.
GrepExact == program = "grep" => G!GrepExact
\* Every program of lab 7 but cricket-cv-mutex.c comes to an end: no worker or player waits for
\* ever.  And the shell gets to the end of its input: every wait() of runcmd returns, since every
\* program of a pipeline sees the end of its input or that nobody reads its output.
ProgramsEnd ==
  <>(Ended \/ program \in {"cricket-cv-mutex", "kernel", "grep"} \/ (program = "sh" /\ Sh!Finished))
\* trap.c of 200050086_lab6, "Force process to give up CPU on clock tick": a process that can
\* run waits for at most one turn of each other process, however much they compute.
WaitBounded == Kernel!WaitBounded
=============================================================================
