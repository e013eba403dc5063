------------------------------ MODULE TaskPool ------------------------------
(***************************************************************************)
(* src/lab7/200050133_lab7/taskqueue.c: main creates a thread for a task   *)
(* when the pool has room, and keeps the task for later when it has not.   *)
(* A thread gets the address of a variable arg in a block of main, and     *)
(* reads it when it starts; main goes on, and the next thread created at   *)
(* the same place in the code gets the same address.  Everything else that *)
(* the threads share is accessed with m held, and what happens between a   *)
(* lock and the next unlock is one step.                                   *)
(***************************************************************************)
EXTENDS Pthreads

CONSTANTS PoolFiles,     \* what the input file may hold: sequences of <<type, number>>
          PoolSizes,     \* argv[2]
          INT_MAX,
          Garbage        \* the values an uninitialised long may have

Q == INSTANCE TaskQueue WITH QUEUE_SIZE <- 1, Files <- PoolFiles

NoArg == [number |-> 0, idx |-> 0]

Init ==
  /\ program = "taskpool"
  /\ threads = EmptyBag /\ pc = "read"
  /\ \E file \in PoolFiles, n \in PoolSizes :
       mem = [file |-> file, left |-> file, threadNum |-> n, i |-> 0,
              threadPool |-> [i \in 0..n - 1 |-> TRUE], ids |-> [i \in 0..n - 1 |-> 0], created |-> 0,
              tasks |-> <<>>, f |-> 0, arg |-> [place \in {"new", "next", "last"} |-> NoArg],
              totals |-> Q!Totals, raced |-> FALSE, overrun |-> FALSE]

\* tasks[b++] = num
b == Len(mem.tasks)

\* pthread_create(ids+i, ...) with the address of the arg at place.
Spawn(m, place, number, i) ==
  LET arg == [number |-> number, idx |-> m.i] IN
  /\ pthread_create(Thread("start", [k |-> m.created + 1, place |-> place, arg |-> arg]))
  /\ mem' = [m EXCEPT !.created = @ + 1, !.ids[m.i] = m.created + 1,
                      !.arg[place] = arg, !.threadPool[m.i] = FALSE, !.i = i]

------------------------------------------------------------------------------
Line(type) == pc = "read" /\ mem.left # <<>> /\ Head(mem.left)[1] = type
Num == Head(mem.left)[2]

Scan ==
  /\ Line("p")
  /\ mem' = [mem EXCEPT !.i = 0]
  /\ pc' = "scan" /\ UNCHANGED threads

\* The first place in the pool that is free gets the oldest task; with none the task is kept.
Free ==
  /\ pc = "scan" /\ mem.i < mem.threadNum /\ mem.threadPool[mem.i]
  /\ LET read == [mem EXCEPT !.left = Tail(@)] IN
     IF mem.f = b THEN Spawn(read, "new", Num, 0)
     ELSE Spawn([read EXCEPT !.f = @ + 1, !.tasks = Append(@, Num)], "next", mem.tasks[mem.f + 1], 0)
  /\ pc' = "read"
Busy ==
  /\ pc = "scan" /\ mem.i < mem.threadNum /\ ~mem.threadPool[mem.i]
  /\ mem' = [mem EXCEPT !.i = @ + 1]
  /\ UNCHANGED <<threads, pc>>
NoneFree ==
  /\ pc = "scan" /\ mem.i = mem.threadNum
  /\ mem' = [mem EXCEPT !.left = Tail(@), !.tasks = Append(@, Num)]
  /\ pc' = "read" /\ UNCHANGED threads

Wait ==
  /\ Line("w")
  /\ mem' = [mem EXCEPT !.left = Tail(@)]
  /\ UNCHANGED <<threads, pc>>
Unrecognizable ==
  /\ Line("x")
  /\ pc' = "failed" /\ threads' = EmptyBag /\ UNCHANGED mem

\* The loop over the tasks that were kept tests for their end once in a pass over the pool, so
\* that a pass may go beyond the last of them.
DrainPass ==
  /\ (pc = "read" /\ mem.left = <<>>) \/ (pc = "drain" /\ mem.i = mem.threadNum)
  /\ pc' = IF b - mem.f > 0 THEN "drain" ELSE "join"
  /\ mem' = [mem EXCEPT !.i = 0] /\ UNCHANGED threads
Drain ==
  /\ pc = "drain" /\ mem.i < mem.threadNum
  /\ LET m == [mem EXCEPT !.f = @ + 1, !.overrun = @ \/ mem.f >= b] IN
     IF ~mem.threadPool[mem.i] THEN mem' = [mem EXCEPT !.i = @ + 1] /\ UNCHANGED threads
     ELSE \E n \in IF mem.f < b THEN {mem.tasks[mem.f + 1]} ELSE Garbage : Spawn(m, "last", n, mem.i + 1)
  /\ UNCHANGED pc

\* The joins: of the last thread of each place, or of an id that was never set.
Running(k) == \E t \in BagToSet(threads) : t[1] # "return" /\ t[2].k = k
join ==
  /\ pc = "join"
  /\ \A i \in DOMAIN mem.ids : ~Running(mem.ids[i])
  /\ pc' = IF \A i \in DOMAIN mem.ids : mem.ids[i] # 0 THEN "exit" ELSE "failed"
  /\ threads' = EmptyBag /\ UNCHANGED mem

------------------------------------------------------------------------------
Goes(label, v, to, w, m) == Step(Thread(label, v), Thread(to, w)) /\ mem' = m /\ UNCHANGED pc

\* processtask(): the argument is what arg holds by now.
ReadArg(v) ==
  Goes("start", v, "sum", [k |-> v.k, arg |-> mem.arg[v.place]],
       [mem EXCEPT !.raced = @ \/ mem.arg[v.place] # v.arg])

\* The sections of processtask() that hold m, in order.
SumOdd(v) ==
  LET t == Q!Added(mem.totals, v.arg.number) IN
  Goes("sum", v, "min", v, [mem EXCEPT !.totals.sum = t.sum, !.totals.odd = t.odd, !.totals.even = t.even])

\* Mutant: the place in the pool is given up before the maximum is updated.
AfterMin_Free(v, m) == [m EXCEPT !.threadPool[v.arg.idx] = TRUE]

\* Nothing else happens when the minimum is updated.
AfterMin(v, m) == m

TestMin(v) ==
  Goes("min", v, "max", v, AfterMin(v, [mem EXCEPT !.totals.min = Q!Added(mem.totals, v.arg.number).min]))
TestMax(v) ==
  Goes("max", v, "free", v, [mem EXCEPT !.totals.max = Q!Added(mem.totals, v.arg.number).max])
processtask(v) ==
  Goes("free", v, "return", [k |-> 0, arg |-> NoArg], [mem EXCEPT !.threadPool[v.arg.idx] = TRUE])

main == Scan \/ Free \/ Busy \/ NoneFree \/ Wait \/ Unrecognizable \/ DrainPass \/ Drain \/ join
thread ==
  \/ \E v \in At("start") : ReadArg(v)
  \/ \E v \in At("sum") : SumOdd(v)
  \/ \E v \in At("min") : TestMin(v)
  \/ \E v \in At("max") : TestMax(v)
  \/ \E v \in At("free") : processtask(v)

Next == program = "taskpool" /\ (main \/ thread) /\ UNCHANGED program

\* main's busy loop does not keep the threads from going on.
Fairness == WF_vars(Next /\ main) /\ WF_vars(Next /\ thread)

------------------------------------------------------------------------------
\* The totals printed are those of the file's tasks, each once, if every thread read its
\* argument before main overwrote it and the last pass did not go beyond the tasks that were
\* kept (processtask, main).
PoolTotals ==
  program = "taskpool" /\ pc = "exit" /\ ~mem.raced /\ ~mem.overrun =>
    mem.totals = Q!Reference(mem.file)
=============================================================================
