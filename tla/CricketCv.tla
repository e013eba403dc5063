----------------------------- MODULE CricketCv -----------------------------
(***************************************************************************)
(* src/lab7/lab7/cricket-cv-mutex.c: a thread per player, which waits on   *)
(* condvar2 while a match is summed up, and startGame, which waits on      *)
(* condvar for a match to be over.  The players hold mutex and startGame   *)
(* holds mutex1, so that startGame's accesses to the globals race with the *)
(* players': every read and every write of a variable both of them access  *)
(* is a step of its own.  Nobody else takes mutex1.  A wait on a condition *)
(* variable may return without a signal.                                   *)
(***************************************************************************)
EXTENDS Cricket

Init ==
  /\ program = "cricket-cv-mutex"
  /\ threads = EmptyBag /\ pc = "create"
  /\ \E n \in ThreadNums : mem = Globals(n) @@ [mutex |-> 1, gameover |-> 0, game |-> "none"]

\* main(): startGame's thread, the players' and the joins.
create ==
  /\ pc = "create" /\ mem.created <= mem.threadNum
  /\ IF mem.created = 0
     THEN mem' = [mem EXCEPT !.created = @ + 1, !.game = "match"] /\ UNCHANGED threads
     ELSE mem' = [mem EXCEPT !.created = @ + 1] /\ pthread_create(Thread("enter", 0))
  /\ UNCHANGED pc
join ==
  /\ pc = "create" /\ mem.created = mem.threadNum + 1
  /\ Returned /\ mem.game = "return"
  /\ pc' = "exit" /\ UNCHANGED <<threads, mem>>

------------------------------------------------------------------------------
Goes(from, to, m) == Step(from, to) /\ mem' = m /\ UNCHANGED pc
Counter(team) == IF team = "capital" THEN mem.counter_capital ELSE mem.counter_titan
Score(team) == IF team = "capital" THEN mem.capital_score ELSE mem.titan_score

\* bat(): pthread_mutex_lock(&mutex), also after a wait on condvar2.
Lock ==
  /\ 0 \in At("enter") /\ mem.mutex = 1
  /\ Goes(Thread("enter", 0), Thread("over", 0), [mem EXCEPT !.mutex = 0])

\* Mutant: the player does not wait for the summary.
MustWait_Never == FALSE

MustWait == mem.gameover = 1

TestOver ==
  /\ 0 \in At("over")
  /\ IF MustWait THEN Goes(Thread("over", 0), Thread("condvar2", 0), [mem EXCEPT !.mutex = 1])
     ELSE Goes(Thread("over", 0), Thread("team", 0), mem)
Spurious ==
  /\ 0 \in At("condvar2")
  /\ Goes(Thread("condvar2", 0), Thread("enter", 0), mem)
Team ==
  /\ 0 \in At("team")
  /\ Goes(Thread("team", 0), Thread("count", IF Capital(mem) THEN "capital" ELSE "titan"), mem)

\* counter_capital++ or counter_titan++, and the score.
LoadCounter(team) == Goes(Thread("count", team), Thread("count+1", <<team, Counter(team)>>), mem)
StoreCounter(team, v) ==
  Goes(Thread("count+1", <<team, v>>), Thread("score", team),
       IF team = "capital" THEN [mem EXCEPT !.counter_capital = v + 1] ELSE [mem EXCEPT !.counter_titan = v + 1])
LoadScore(team) == Goes(Thread("score", team), Thread("score+run", <<team, Score(team)>>), mem)
StoreScore(team, v) ==
  \E run \in Runs :
    LET m == [mem EXCEPT !.individual_score = larger(run, @)] IN
    Goes(Thread("score+run", <<team, v>>), Thread("best", <<team, run>>),
         IF team = "capital" THEN [m EXCEPT !.capital_score = v + run] ELSE [m EXCEPT !.titan_score = v + run])

\* The best score of the match, and the unlock for one of the Capitals.
TestBest(team, run) ==
  Goes(Thread("best", <<team, run>>),
       IF run > mem.permatchscore THEN Thread("best=", <<team, run>>) ELSE Thread("last", team), mem)
StoreBest(team, run) ==
  Goes(Thread("best=", <<team, run>>), Thread("last", team), [mem EXCEPT !.permatchscore = run])

\* The last player of the Titans ends the match and signals condvar; then the unlock.
Last(team) ==
  IF team = "titan" /\ mem.counter_titan = TEAM
  THEN Goes(Thread("last", team), Thread("signal", 0), [mem EXCEPT !.gameover = 1])
  ELSE Goes(Thread("last", team), Thread("return", 0), [mem EXCEPT !.mutex = 1])
Signal ==
  /\ 0 \in At("signal")
  /\ Goes(Thread("signal", 0), Thread("return", 0),
          [mem EXCEPT !.mutex = 1, !.game = IF @ = "condvar" THEN "over" ELSE @])

bat ==
  \/ Lock \/ TestOver \/ Spurious \/ Team \/ Signal
  \/ \E team \in At("count") : LoadCounter(team)
  \/ \E v \in At("count+1") : StoreCounter(v[1], v[2])
  \/ \E team \in At("score") : LoadScore(team)
  \/ \E v \in At("score+run") : StoreScore(v[1], v[2])
  \/ \E v \in At("best") : TestBest(v[1], v[2])
  \/ \E v \in At("best=") : StoreBest(v[1], v[2])
  \/ \E team \in At("last") : Last(team)

------------------------------------------------------------------------------
Game(from, to, m) == mem.game = from /\ mem' = [m EXCEPT !.game = to] /\ UNCHANGED <<threads, pc>>

\* pthread_cond_broadcast(&condvar2): every player that waits goes for mutex.
Broadcast ==
  /\ mem.game = "broadcast"
  /\ mem' = [mem EXCEPT !.game = "match"]
  /\ LET n == CopiesIn(Thread("condvar2", 0), threads) IN
     threads' = IF n = 0 THEN threads
                ELSE BagRemoveAll(threads, Thread("condvar2", 0)) (+) (Thread("enter", 0) :> n)
  /\ UNCHANGED pc

startGame ==
  \/ Game("match", IF mem.match < mem.matches THEN "over" ELSE "unlock", mem)
  \/ Game("over", IF mem.gameover = 0 THEN "wait" ELSE "summary", mem)
  \/ Game("wait", "condvar", mem)
  \/ Game("condvar", "over", mem)
  \/ Game("summary", "reset gameover", Summary(mem))
  \/ Game("reset gameover", "reset best", [mem EXCEPT !.gameover = 0])
  \/ Game("reset best", "reset capitals", [mem EXCEPT !.permatchscore = 0])
  \/ Game("reset capitals", "reset titans", [mem EXCEPT !.counter_capital = 0])
  \/ Game("reset titans", "reset capital_score", [mem EXCEPT !.counter_titan = 0])
  \/ Game("reset capital_score", "reset titan_score", [mem EXCEPT !.capital_score = 0])
  \/ Game("reset titan_score", "broadcast", [mem EXCEPT !.titan_score = 0])
  \/ Broadcast
  \/ Game("unlock", "return", [mem EXCEPT !.mutex = 1])

Next ==
  /\ program = "cricket-cv-mutex" /\ UNCHANGED program
  /\ create \/ join \/ bat \/ startGame

------------------------------------------------------------------------------
\* No player is in the middle of its turn when startGame sums a match up, although
\* the two hold different mutexes: gameover keeps the players out.
SummaryAlone ==
  program = "cricket-cv-mutex" /\ mem.game = "summary" =>
    \A t \in BagToSet(threads) : t[1] \in {"enter", "over", "condvar2", "signal", "return"}
=============================================================================
