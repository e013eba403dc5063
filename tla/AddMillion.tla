----------------------------- MODULE AddMillion -----------------------------
(***************************************************************************)
(* The two versions of addmillion.c, which share 2048 million increments   *)
(* among threads: src/lab7/lab7 locks for each one, and leaves out what    *)
(* does not divide; src/lab7/200050133_lab7 locks once for all of a        *)
(* thread's, and gives what is left to the first one.  TOTAL is for 2048,  *)
(* and a million increments is one step.                                   *)
(***************************************************************************)
EXTENDS Pthreads

CONSTANTS TOTAL, Sharers   \* 2048, and argv[1]

Init ==
  /\ program \in {"addmillion", "addmillion-left"}
  /\ threads = EmptyBag /\ pc = "create"
  /\ \E n \in Sharers :
       mem = [threadNum |-> n, created |-> 0, arg |-> TOTAL \div n, lock |-> 1, account_balance |-> 0]

\* Mutant: every thread is given what is left.
Share_All(i) == (TOTAL \div mem.threadNum) + (TOTAL % mem.threadNum)

\* main(): what thread i is to add; all threads are given the address of one variable.
Share(i) ==
  TOTAL \div mem.threadNum
    + IF program = "addmillion-left" /\ i = 0 THEN TOTAL % mem.threadNum ELSE 0

create ==
  /\ pc = "create"
  /\ IF mem.created < mem.threadNum
     THEN /\ mem' = [mem EXCEPT !.created = @ + 1, !.arg = Share(mem.created)]
          /\ pthread_create(Thread("start", 0)) /\ UNCHANGED pc
     ELSE Returned /\ pc' = "exit" /\ UNCHANGED <<mem, threads>>

\* increment(): the argument is read when the thread starts, whatever main has stored by then.
Start ==
  /\ 0 \in At("start")
  /\ Step(Thread("start", 0), Thread("million", mem.arg)) /\ UNCHANGED <<pc, mem>>
Lock(n) ==
  /\ n > 0 /\ mem.lock = 1
  /\ mem' = [mem EXCEPT !.lock = 0]
  /\ Step(Thread("million", n), Thread("add", <<n, mem.account_balance>>)) /\ UNCHANGED pc
increment(n, balance) ==
  LET million == IF program = "addmillion" THEN 1 ELSE n IN
  /\ mem' = [mem EXCEPT !.account_balance = balance + million, !.lock = 1]
  /\ Step(Thread("add", <<n, balance>>), Thread("million", n - million)) /\ UNCHANGED pc
Return ==
  /\ 0 \in At("million")
  /\ Step(Thread("million", 0), Thread("return", 0)) /\ UNCHANGED <<pc, mem>>

Next ==
  /\ program \in {"addmillion", "addmillion-left"} /\ UNCHANGED program
  /\ \/ create \/ Start \/ Return
     \/ \E n \in At("million") : Lock(n)
     \/ \E v \in At("add") : increment(v[1], v[2])

\* No thread waits for what another one of them could take for ever.
Fairness == WF_vars(Next)

------------------------------------------------------------------------------
\* Every increment is counted, but not every one is made: 2048 million are if the number
\* of threads divides 2048.  If not, addmillion.c of lab7 leaves out the remainder, and the
\* other one does when main overwrites the first thread's argument before it is read.
BalanceExact ==
  program \in {"addmillion", "addmillion-left"} /\ pc = "exit" =>
    mem.account_balance \in
      {TOTAL - (TOTAL % mem.threadNum)} \cup IF program = "addmillion" THEN {} ELSE {TOTAL}
=============================================================================
