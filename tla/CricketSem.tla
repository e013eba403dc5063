----------------------------- MODULE CricketSem -----------------------------
(***************************************************************************)
(* src/lab7/lab7/cricket-semaphores.c: a thread per player, of which the   *)
(* semaphore barrier lets twice eleven in for each match.                  *)
(***************************************************************************)
EXTENDS Cricket

\* main(): sem_wait(&sig) has brought sig from 1 to 0.
Init ==
  /\ program = "cricket-semaphores"
  /\ threads = EmptyBag /\ pc = "create"
  /\ \E n \in ThreadNums :
       mem = Globals(n) @@ [barrier |-> 2 * TEAM, mut |-> 1, sig |-> 0, game |-> "none"]

\* main(): creates startGame's thread and then the players, and joins them all.
create ==
  /\ pc = "create" /\ mem.created <= mem.threadNum
  /\ IF mem.created = 0
     THEN mem' = [mem EXCEPT !.created = @ + 1, !.game = "match"] /\ UNCHANGED threads
     ELSE mem' = [mem EXCEPT !.created = @ + 1] /\ pthread_create(Thread("barrier", 0))
  /\ UNCHANGED pc
join ==
  /\ pc = "create" /\ mem.created = mem.threadNum + 1
  /\ Returned /\ mem.game = "return"
  /\ pc' = "exit" /\ UNCHANGED <<threads, mem>>

\* bat(): sem_wait(&barrier), sem_wait(&mut) with the test of the team, and the rest.
WaitBarrier ==
  /\ 0 \in At("barrier") /\ mem.barrier > 0
  /\ mem' = [mem EXCEPT !.barrier = @ - 1]
  /\ Step(Thread("barrier", 0), Thread("mut", 0)) /\ UNCHANGED pc
WaitMut ==
  /\ 0 \in At("mut") /\ mem.mut > 0
  /\ mem' = [mem EXCEPT !.mut = @ - 1]
  /\ Step(Thread("mut", 0), Thread(IF Capital(mem) THEN "capital" ELSE "titan", 0)) /\ UNCHANGED pc
bat(team) ==
  /\ 0 \in At(team)
  /\ \E run \in Runs :
       LET m == Bats(mem, team = "capital", run) IN
       mem' = [m EXCEPT !.mut = @ + 1,
                        !.sig = IF team = "titan" /\ m.counter_titan = TEAM THEN @ + 1 ELSE @]
  /\ Step(Thread(team, 0), Thread("return", 0)) /\ UNCHANGED pc

\* Mutant: the players of the next match are let in before the last one is summed up.
NextMatch_Early(m) == [Summary(m) EXCEPT !.barrier = @ + 2 * TEAM, !.counter_capital = 0, !.counter_titan = 0]

\* startGame(): the summary, the reset, and 22 posts of barrier.
NextMatch(m) == [Reset(Summary(m)) EXCEPT !.barrier = @ + 2 * TEAM]

startGame ==
  /\ \/ /\ mem.game = "match"
        /\ mem' = [mem EXCEPT !.game = IF mem.match < mem.matches THEN "sig" ELSE "return"]
     \/ /\ mem.game = "sig" /\ mem.sig > 0
        /\ mem' = [mem EXCEPT !.sig = @ - 1, !.game = "mut"]
     \/ /\ mem.game = "mut" /\ mem.mut > 0
        /\ mem' = [mem EXCEPT !.mut = @ - 1, !.game = "summary"]
     \/ /\ mem.game = "summary"
        /\ mem' = [NextMatch(mem) EXCEPT !.mut = @ + 1, !.game = "match"]
  /\ UNCHANGED <<threads, pc>>

Batting == WaitBarrier \/ WaitMut \/ bat("capital") \/ bat("titan")
Next ==
  /\ program = "cricket-semaphores" /\ UNCHANGED program
  /\ create \/ join \/ Batting \/ startGame

\* A player or the game that waits for mut gets it in the end.
Fairness == WF_vars(Next /\ (create \/ join)) /\ WF_vars(Next /\ Batting) /\ SF_vars(Next /\ startGame)
=============================================================================
