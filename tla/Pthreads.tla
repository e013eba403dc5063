------------------------------ MODULE Pthreads ------------------------------
(***************************************************************************)
(* The state of one of lab 7's multithreaded programs, which are separate  *)
(* executables: program is the one that runs.  No thread of a pool uses    *)
(* its identity, so they are counted: threads is the bag of the local      *)
(* states <<label, value>> of the threads created with pthread_create.     *)
(* pc is where the thread is that the others are told apart from (main, or *)
(* startGame), and mem are the globals.  A mutex is 1 when it is free and  *)
(* 0 when it is held, a semaphore is its value.                            *)
(***************************************************************************)
EXTENDS Integers, Sequences, FiniteSets, Bags, BagsExt, FiniteSetsExt

VARIABLES program, threads, pc, mem

vars == <<program, threads, pc, mem>>

Thread(label, value) == <<label, value>>

\* The values v for which some thread is at label with v.
At(label) == {s[2] : s \in {t \in BagToSet(threads) : t[1] = label}}

\* Every thread created so far has returned, so that pthread_join returns too.
Returned == \A t \in BagToSet(threads) : t[1] = "return"

\* One thread takes a step, from its local state from to to.
Step(from, to) == threads' = BagAdd(BagRemove(threads, from), to)

\* pthread_create(): one more thread, in local state s.
pthread_create(s) == threads' = BagAdd(threads, s)

\* main has returned, or has given up with exit(EXIT_FAILURE).
Ended == pc \in {"exit", "failed"}

larger(a, b) == IF a > b THEN a ELSE b
=============================================================================
