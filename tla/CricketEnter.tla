---------------------------- MODULE CricketEnter ----------------------------
(***************************************************************************)
(* src/lab7/lab7/cricket-semaphores-on-enter-players.c: main plays one     *)
(* match after the other, each with players of its own.                    *)
(***************************************************************************)
EXTENDS Cricket

Init ==
  /\ program = "cricket-semaphores-on-enter-players"
  /\ threads = EmptyBag /\ pc = "game"
  /\ \E n \in ThreadNums : mem = Globals(n) @@ [barrier |-> 2 * TEAM, mut |-> 1]

\* main(): the thread of the next match, or the summary of the day.
main ==
  /\ pc = "game"
  /\ IF mem.match < mem.matches
     THEN pc' = "play" /\ mem' = [Reset(mem) EXCEPT !.created = 0]
     ELSE pc' = "exit" /\ UNCHANGED mem
  /\ UNCHANGED threads

\* startGame(): creates the players, waits for them and sums the match up.
startGame ==
  /\ pc = "play"
  /\ IF mem.created < 2 * TEAM
     THEN /\ pthread_create(Thread("barrier", 0))
          /\ mem' = [mem EXCEPT !.created = @ + 1] /\ UNCHANGED pc
     ELSE /\ Returned
          /\ mem' = Summary(mem)
          /\ pc' = "game" /\ UNCHANGED threads

\* bat(): the semaphores are taken one by one, and given back in the opposite order.
WaitBarrier ==
  /\ 0 \in At("barrier") /\ mem.barrier > 0
  /\ mem' = [mem EXCEPT !.barrier = @ - 1]
  /\ Step(Thread("barrier", 0), Thread("mut", 0)) /\ UNCHANGED pc
WaitMut ==
  /\ 0 \in At("mut") /\ mem.mut > 0
  /\ mem' = [mem EXCEPT !.mut = @ - 1]
  /\ Step(Thread("mut", 0), Thread(IF Capital(mem) THEN "capital" ELSE "titan", 0)) /\ UNCHANGED pc
bat(team) ==
  /\ 0 \in At(team)
  /\ \E run \in Runs : mem' = [Bats(mem, team = "capital", run) EXCEPT !.mut = @ + 1]
  /\ Step(Thread(team, 0), Thread("leave", 0)) /\ UNCHANGED pc
PostBarrier ==
  /\ 0 \in At("leave")
  /\ mem' = [mem EXCEPT !.barrier = @ + 1]
  /\ Step(Thread("leave", 0), Thread("return", 0)) /\ UNCHANGED pc

Next ==
  /\ program = "cricket-semaphores-on-enter-players" /\ UNCHANGED program
  /\ main \/ startGame \/ WaitBarrier \/ WaitMut \/ bat("capital") \/ bat("titan") \/ PostBarrier

\* No thread waits for what another one of them could take for ever.
Fairness == WF_vars(Next)
=============================================================================
