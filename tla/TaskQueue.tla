----------------------------- MODULE TaskQueue -----------------------------
(***************************************************************************)
(* src/lab7/lab7/taskqueue.c: main reads tasks from a file and puts them   *)
(* in a ring of QUEUE_SIZE entries, and half as many worker threads as     *)
(* the file has lines take them out and add them up.  A ring that is full     *)
(* drops the task, but taskCount counts it.                                *)
(***************************************************************************)
EXTENDS Pthreads

CONSTANTS QUEUE_SIZE, INT_MAX,
          Files,     \* what the input file may hold: sequences of <<type, number>>
          Garbage    \* the values an uninitialised int may have

Tasks(file) == SelectSeq(file, LAMBDA line : line[1] = "p")

Totals == [sum |-> 0, odd |-> 0, even |-> 0, min |-> INT_MAX, max |-> -INT_MAX - 1]

Init ==
  /\ program = "taskqueue"
  /\ threads = EmptyBag
  /\ pc = "create"
  /\ \E file \in Files :
       mem = [file |-> file, left |-> file, noThreads |-> Len(file) \div 2, created |-> 0,
              front |-> 0, rear |-> 0, queue |-> [i \in 0..QUEUE_SIZE - 1 |-> 0], taskCount |-> 0,
              queueMutex |-> 1, taskMutex |-> 1, totals |-> Totals, done |-> FALSE, overflows |-> 0]

------------------------------------------------------------------------------
\* queue_insert(): an item that finds the ring full is dropped.
queue_insert(m, item) ==
  LET rear == (m.rear + 1) % QUEUE_SIZE IN
  IF m.front = rear THEN [m EXCEPT !.overflows = @ + 1]
  ELSE [m EXCEPT !.rear = rear, !.queue[rear] = item]

\* queue_delete(): what it returns (any value if the ring is empty) and leaves behind.
Deleted(m) ==
  IF m.front = m.rear THEN Garbage ELSE {m.queue[(m.front + 1) % QUEUE_SIZE]}
queue_delete(m) ==
  IF m.front = m.rear THEN m ELSE [m EXCEPT !.front = (@ + 1) % QUEUE_SIZE]

\* processtask()'s update of the totals.
Added(t, number) ==
  [sum |-> t.sum + number,
   odd |-> t.odd + IF number % 2 = 1 THEN 1 ELSE 0,
   even |-> t.even + IF number % 2 = 1 THEN 0 ELSE 1,
   min |-> IF number < t.min THEN number ELSE t.min,
   max |-> IF number > t.max THEN number ELSE t.max]

------------------------------------------------------------------------------
\* main: creates the workers, reads the file, then waits for the workers.
create ==
  /\ pc = "create"
  /\ IF mem.created < mem.noThreads
     THEN /\ pthread_create(Thread("loop", 0))
          /\ mem' = [mem EXCEPT !.created = @ + 1] /\ UNCHANGED pc
     ELSE pc' = "read" /\ UNCHANGED <<threads, mem>>

Line(type) == pc = "read" /\ mem.left # <<>> /\ Head(mem.left)[1] = type

\* masterFunc(), up to the lock and then up to the unlock.
MasterLock ==
  /\ Line("p")
  /\ mem.queueMutex = 1
  /\ mem' = [mem EXCEPT !.queueMutex = 0]
  /\ pc' = "insert" /\ UNCHANGED threads
masterFunc ==
  /\ pc = "insert"
  /\ mem' = [queue_insert(mem, Head(mem.left)[2]) EXCEPT
               !.taskCount = @ + 1, !.queueMutex = 1, !.left = Tail(@)]
  /\ pc' = "read" /\ UNCHANGED threads

Wait ==
  /\ Line("w")
  /\ mem' = [mem EXCEPT !.left = Tail(@)]
  /\ UNCHANGED <<threads, pc>>

\* A line of another type: exit(EXIT_FAILURE) ends every thread.
Unrecognizable ==
  /\ Line("x")
  /\ pc' = "failed" /\ threads' = EmptyBag /\ UNCHANGED mem

\* Mutant: the workers are not told.
EndOfFile_Silent == pc = "read" /\ mem.left = <<>> /\ pc' = "join" /\ UNCHANGED <<threads, mem>>

EndOfFile ==
  /\ pc = "read" /\ mem.left = <<>>
  /\ mem' = [mem EXCEPT !.done = TRUE]
  /\ pc' = "join" /\ UNCHANGED threads

join ==
  /\ pc = "join" /\ Returned
  /\ pc' = "exit" /\ UNCHANGED <<threads, mem>>

------------------------------------------------------------------------------
\* Mutant: a worker that has found the flag set does not look for more tasks.
Over_Done == TRUE

\* workerFunc's test for the end, as its second read finds it.
Over == mem.taskCount = 0

\* workerFunc: the lock and the test of taskCount; the rest of the critical section.
Lock ==
  /\ 0 \in At("loop")
  /\ mem.queueMutex = 1
  /\ IF mem.taskCount > 0
     THEN Step(Thread("loop", 0), Thread("found", 0)) /\ mem' = [mem EXCEPT !.queueMutex = 0]
     ELSE Step(Thread("loop", 0), Thread("test", 0)) /\ UNCHANGED mem
  /\ UNCHANGED pc
Delete ==
  /\ 0 \in At("found")
  /\ \E item \in Deleted(mem) : Step(Thread("found", 0), Thread("task", item))
  /\ mem' = [queue_delete(mem) EXCEPT !.taskCount = @ - 1, !.queueMutex = 1]
  /\ UNCHANGED pc

\* processtask(): the lock, and the update and the unlock.
TaskLock(n) ==
  /\ mem.taskMutex = 1
  /\ Step(Thread("task", n), Thread("update", n))
  /\ mem' = [mem EXCEPT !.taskMutex = 0] /\ UNCHANGED pc
processtask(n) ==
  /\ Step(Thread("update", n), Thread("test", 0))
  /\ mem' = [mem EXCEPT !.totals = Added(@, n), !.taskMutex = 1] /\ UNCHANGED pc

\* done and then taskCount are read without the lock.
TestDone ==
  /\ 0 \in At("test")
  /\ Step(Thread("test", 0), IF mem.done THEN Thread("count", 0) ELSE Thread("loop", 0))
  /\ UNCHANGED <<pc, mem>>
TestCount ==
  /\ 0 \in At("count")
  /\ Step(Thread("count", 0), IF Over THEN Thread("return", 0) ELSE Thread("loop", 0))
  /\ UNCHANGED <<pc, mem>>

main == create \/ MasterLock \/ masterFunc \/ Wait \/ Unrecognizable \/ EndOfFile \/ join
processing == \/ \E n \in At("task") : TaskLock(n)
              \/ \E n \in At("update") : processtask(n)
workerFunc == Lock \/ Delete \/ processing \/ TestDone \/ TestCount

Next == program = "taskqueue" /\ (main \/ workerFunc) /\ UNCHANGED program

\* A thread that can go on does, and one that waits for a mutex gets it in the end.
Fairness ==
  /\ SF_vars(Next /\ main)
  /\ SF_vars(Next /\ Lock) /\ WF_vars(Next /\ Delete) /\ SF_vars(Next /\ processing)
  /\ WF_vars(Next /\ TestDone) /\ WF_vars(Next /\ TestCount)

------------------------------------------------------------------------------
\* What the tasks of the file add up to, one at a time.
Reference(file) ==
  LET p == Tasks(file)
      upTo[i \in 0..Len(p)] ==
        IF i = 0 THEN Totals
        ELSE LET t == upTo[i - 1]  n == p[i][2] IN
             [sum |-> t.sum + n, odd |-> t.odd + (n % 2), even |-> t.even + 1 - (n % 2),
              min |-> Min({t.min, n}), max |-> Max({t.max, n})]
  IN  upTo[Len(p)]

\* When main prints the totals, as many tasks have been processed as the file holds; if the
\* ring never overflowed they are the file's tasks, each once, although workers decide
\* to stop from values of done and taskCount read without the lock (workerFunc, main).
TaskTotals ==
  program = "taskqueue" /\ pc = "exit" /\ mem.noThreads > 0 =>
    /\ mem.totals.odd + mem.totals.even = Len(Tasks(mem.file))
    /\ mem.overflows = 0 => mem.totals = Reference(mem.file)
=============================================================================
