---------------------------- MODULE CricketTeams ----------------------------
(***************************************************************************)
(* src/lab7/200050086_lab7/cricket-cv-mutex.c: main plays one match after  *)
(* the other; a match creates a thread for each team, which creates a      *)
(* thread for each of its players.  A test of a maximum and the assignment *)
(* after it are two steps under one of the mutexes ms, mts and hs.         *)
(***************************************************************************)
EXTENDS Pthreads

CONSTANTS TEAM, Runs, ThreadNums

Teams == {"cap", "titan"}
NoScores == [t \in Teams |-> <<>>]

Init ==
  /\ program = "cricket-teams"
  /\ threads = EmptyBag /\ pc = "game"
  /\ \E n \in ThreadNums :
       mem = [numMatches |-> n \div (2 * TEAM), match |-> 0, max_score |-> 0, max_team_score |-> 0,
              tit_wins |-> 0, highscore |-> 0, scores |-> NoScores, total |-> [t \in Teams |-> 0],
              ms |-> 1, mts |-> 1, hs |-> 1, printed |-> <<>>, played |-> {}]

\* The value of a thread's local state: its team, and a number.
Goes(label, v, to, w, m) == Step(Thread(label, v), Thread(to, w)) /\ mem' = m /\ UNCHANGED pc
Returns(label, v, m) == threads' = BagRemove(threads, Thread(label, v)) /\ mem' = m /\ UNCHANGED pc

------------------------------------------------------------------------------
\* player(): *num = rand()%101, and max_score.
Rand(t) ==
  \E run \in Runs : Goes("rand", <<t, 0>>, "ms", <<t, run>>, [mem EXCEPT !.scores[t] = Append(@, run)])
LockMs(t, run) ==
  /\ mem.ms = 1
  /\ IF run > mem.max_score THEN Goes("ms", <<t, run>>, "max_score", <<t, run>>, [mem EXCEPT !.ms = 0])
     ELSE Returns("ms", <<t, run>>, mem)
player(t, run) == Returns("max_score", <<t, run>>, [mem EXCEPT !.max_score = run, !.ms = 1])

\* team(): creates the players, waits for them and adds the scores up.
CreatePlayer(t, n) ==
  /\ n < TEAM
  /\ threads' = BagAdd(BagAdd(BagRemove(threads, Thread("team", <<t, n>>)), Thread("team", <<t, n + 1>>)),
                       Thread("rand", <<t, 0>>))
  /\ UNCHANGED <<pc, mem>>

Sum(s) == LET upTo[i \in 0..Len(s)] == IF i = 0 THEN 0 ELSE upTo[i - 1] + s[i] IN upTo[Len(s)]
Entries(s) == {s[i] : i \in 1..Len(s)}

\* Mutant: the team does not wait for its players to leave max_score alone.
Playing_Rand(t) == <<t, 0>> \in At("rand")

Playing(t) == \E v \in At("rand") \cup At("ms") \cup At("max_score") : v[1] = t

JoinPlayers(t) ==
  /\ ~Playing(t)
  /\ Goes("team", <<t, TEAM>>, "mts", <<t, 0>>, [mem EXCEPT !.total[t] = @ + Sum(mem.scores[t])])

LockMts(t) ==
  /\ mem.mts = 1
  /\ IF mem.total[t] > mem.max_team_score
     THEN Goes("mts", <<t, 0>>, "max_team_score", <<t, 0>>, [mem EXCEPT !.mts = 0])
     ELSE Goes("mts", <<t, 0>>, "hs", <<t, 0>>, mem)
MaxTeamScore(t) ==
  Goes("max_team_score", <<t, 0>>, "hs", <<t, 0>>, [mem EXCEPT !.max_team_score = mem.total[t], !.mts = 1])

TeamHigh(t) == Max(Entries(mem.scores[t]))
LockHs(t) ==
  /\ mem.hs = 1
  /\ IF TeamHigh(t) > mem.highscore
     THEN Goes("hs", <<t, 0>>, "highscore", <<t, 0>>, [mem EXCEPT !.hs = 0])
     ELSE Returns("hs", <<t, 0>>, mem)
team(t) == Returns("highscore", <<t, 0>>, [mem EXCEPT !.highscore = TeamHigh(t), !.hs = 1])

------------------------------------------------------------------------------
\* game(): both teams, and what is printed when they have returned; a tie goes to the Titans.
Start ==
  /\ pc = "game" /\ mem.match < mem.numMatches
  /\ mem' = [mem EXCEPT !.scores = NoScores, !.total = [t \in Teams |-> 0], !.highscore = 0]
  /\ pthread_create(Thread("team", <<"cap", 0>>))
  /\ pc' = "titan"
StartTitan ==
  /\ pc = "titan"
  /\ pthread_create(Thread("team", <<"titan", 0>>))
  /\ pc' = "join" /\ UNCHANGED mem
game ==
  /\ pc = "join" /\ \A t \in BagToSet(threads) : t[1] \in {"rand", "ms", "max_score"}
  /\ mem' = [mem EXCEPT
       !.match = @ + 1,
       !.tit_wins = IF mem.total["cap"] > mem.total["titan"] THEN @ ELSE @ + 1,
       !.printed = Append(@, [cap |-> mem.total["cap"], titan |-> mem.total["titan"], best |-> mem.highscore]),
       !.played = @ \cup UNION {Entries(mem.scores[t]) : t \in Teams}]
  /\ pc' = "game" /\ UNCHANGED threads
main ==
  /\ pc = "game" /\ mem.match = mem.numMatches
  /\ pc' = "exit" /\ UNCHANGED <<threads, mem>>

Next ==
  /\ program = "cricket-teams" /\ UNCHANGED program
  /\ \/ Start \/ StartTitan \/ game \/ main
     \/ \E v \in At("rand") : Rand(v[1])
     \/ \E v \in At("ms") : LockMs(v[1], v[2])
     \/ \E v \in At("max_score") : player(v[1], v[2])
     \/ \E v \in At("team") : CreatePlayer(v[1], v[2]) \/ (v[2] = TEAM /\ JoinPlayers(v[1]))
     \/ \E v \in At("mts") : LockMts(v[1])
     \/ \E v \in At("max_team_score") : MaxTeamScore(v[1])
     \/ \E v \in At("hs") : LockHs(v[1])
     \/ \E v \in At("highscore") : team(v[1])

\* No thread waits for what another one of them could take for ever.
Fairness == WF_vars(Next)

------------------------------------------------------------------------------
\* When a match is over its three maxima are exact: the highest individual score of the day
\* and of the match, and the highest team score of the day, which testcricket.awk
\* compares with the SCORE lines.
TeamsHighScores ==
  program = "cricket-teams" /\ pc = "game" /\ mem.match > 0 =>
    LET last == mem.printed[mem.match]
        lines == {mem.printed[i] : i \in 1..mem.match}
    IN  /\ mem.max_score = Max({0} \cup mem.played)
        /\ mem.max_team_score = Max({l.cap : l \in lines} \cup {l.titan : l \in lines})
        /\ last.best = Max(UNION {Entries(mem.scores[t]) : t \in Teams})
        /\ last.cap = Sum(mem.scores["cap"]) /\ last.titan = Sum(mem.scores["titan"])
=============================================================================
