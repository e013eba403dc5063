------------------------------ MODULE Cricket ------------------------------
(***************************************************************************)
(* What the three programs of src/lab7/lab7 that play cricket have in      *)
(* common: the globals, how a player bats and how a match is summed up.    *)
(* They differ in how they keep the players of a match apart from the next *)
(* one's, which is what modules CricketSem, CricketCv and CricketEnter     *)
(* model.  A team has TEAM players (11 in the code).  mem.printed is the   *)
(* sequence of the summaries printed, and mem.batted the runs of every     *)
(* player so far, which the programs do not keep.                          *)
(***************************************************************************)
EXTENDS Pthreads

CONSTANTS TEAM,         \* 11
          Runs,         \* what rand() % 101 may return
          ThreadNums    \* argv[1]

Globals(threadNum) ==
  [threadNum |-> threadNum, matches |-> threadNum \div (2 * TEAM), created |-> 0, match |-> 0,
   counter_capital |-> 0, counter_titan |-> 0, capital_score |-> 0, titan_score |-> 0,
   permatchscore |-> 0, individual_score |-> 0, maxscore |-> 0,
   capitalswin |-> 0, titanswin |-> 0, tied |-> 0, printed |-> <<>>, batted |-> <<>>]

\* bat(): whether the next player is one of the Capitals.
Capital(m) == m.counter_capital < TEAM

\* bat(): a player of the Capitals, or of the Titans, makes run runs.
Bats(m, capital, run) ==
  [m EXCEPT
    !.counter_capital = IF capital THEN @ + 1 ELSE @,
    !.counter_titan = IF capital THEN @ ELSE @ + 1,
    !.capital_score = IF capital THEN @ + run ELSE @,
    !.titan_score = IF capital THEN @ ELSE @ + run,
    !.individual_score = larger(run, @),
    !.permatchscore = larger(run, @),
    !.batted = Append(@, run)]

\* Mutant: a tie does not count for the highest score.
Highest_Tie(m) ==
  IF m.capital_score = m.titan_score THEN m.maxscore
  ELSE larger(larger(m.capital_score, m.titan_score), m.maxscore)

\* startGame(): maxscore after a match, the winner's score or a tie's compared with it.
Highest(m) == larger(IF m.capital_score > m.titan_score THEN m.capital_score ELSE m.titan_score, m.maxscore)

\* startGame(): the summary of a match.
Summary(m) ==
  [m EXCEPT
    !.match = @ + 1,
    !.printed = Append(@, [capitals |-> m.capital_score, titans |-> m.titan_score,
                           best |-> m.permatchscore]),
    !.capitalswin = @ + IF m.capital_score > m.titan_score THEN 1 ELSE 0,
    !.titanswin = @ + IF m.titan_score > m.capital_score THEN 1 ELSE 0,
    !.tied = @ + IF m.titan_score = m.capital_score THEN 1 ELSE 0,
    !.maxscore = Highest(m)]

\* startGame(): all variables of a match.
Reset(m) ==
  [m EXCEPT !.permatchscore = 0, !.counter_capital = 0, !.counter_titan = 0,
            !.capital_score = 0, !.titan_score = 0]

------------------------------------------------------------------------------
Sum(s) == LET upTo[i \in 0..Len(s)] == IF i = 0 THEN 0 ELSE upTo[i - 1] + s[i] IN upTo[Len(s)]
Printed(f(_)) == [i \in 1..Len(mem.printed) |-> f(mem.printed[i])]
Scores == {m.capitals : m \in {mem.printed[i] : i \in 1..Len(mem.printed)}}
          \cup {m.titans : m \in {mem.printed[i] : i \in 1..Len(mem.printed)}}

\* testcricket.awk's test of the highest team score: it is the highest of the SCORE lines.
HighestPrinted == Ended => mem.maxscore = Max({0} \cup Scores)

\* testcricket.awk's test of the scores: eleven players make at most 1100 runs.
ScoresPossible == \A s \in Scores : s <= TEAM * Max(Runs)

\* The match k that was printed is what the players 22k+1..22k+22 to bat did: the first
\* eleven are the Capitals' score, the others the Titans', and the best of them the best.
MatchOf(k) ==
  LET of(first) == SubSeq(mem.batted, 2 * TEAM * (k - 1) + first, 2 * TEAM * (k - 1) + first + TEAM - 1)
      runs(s) == {s[i] : i \in 1..Len(s)}
  IN  mem.printed[k] = [capitals |-> Sum(of(1)), titans |-> Sum(of(TEAM + 1)),
                        best |-> Max(runs(of(1)) \cup runs(of(TEAM + 1)))]
MatchesExact == \A k \in 1..Len(mem.printed) : MatchOf(k)

\* Every match is won by one team and lost by the other, or tied.
DayAddsUp == Ended => mem.capitalswin + mem.titanswin + mem.tied = mem.matches
=============================================================================
