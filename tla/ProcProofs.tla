----------------------------- MODULE ProcProofs -----------------------------
(***************************************************************************)
(* Proofs about Proc, for every number of process slots and CPUs: its      *)
(* types, the inductive invariant from which its safety follows, and that  *)
(* the system calls preserve it: the steps that touch only their own       *)
(* process, fork, sys_sleep and kill.                                      *)
(***************************************************************************)
EXTENDS Proc, TLAPS, WellFoundedInduction

Less == {ss \in Nat \X Nat : ss[1] < ss[2]}

\* The order of the natural numbers is well-founded.
LEMMA LessWellFounded == IsWellFoundedOn(Less, Nat)
  BY NatLessThanWellFounded, Zenon DEF OpToRel, Less

\* A loop over the table finds a slot of S if there is one, and the first one.
LEMMA FirstInIsFirst ==
  ASSUME NEW S \in SUBSET Slots, S # {}
  PROVE  FirstIn(S) \in S /\ \A q \in S : FirstIn(S) <= q
<1>1. S \in SUBSET Nat
  BY ProcAssumption DEF Slots
<1>2. PICK x \in S : \A y \in S : ~(<<y, x>> \in Less)
  BY <1>1, LessWellFounded, WFMin, Zenon
<1>3. ASSUME NEW y \in S PROVE x <= y
  <2>1. ~(<<y, x>> \in Less)
    BY <1>2, Zenon
  <2>2. x \in Nat /\ y \in Nat
    BY <1>1, Zenon
  <2>3. y < x => <<y, x>> \in Less
    BY <2>2, Zenon DEF Less
  <2> QED BY <2>1, <2>2, <2>3
<1> QED BY <1>3, Zenon DEF FirstIn

-----------------------------------------------------------------------------
\* The initial state has the right type.
LEMMA InitType == Init => TypeOK
<1> SUFFICES ASSUME Init PROVE TypeOK
  BY Zenon
<1>0. /\ 0 \in Int /\ 0 \in 0..MaxPid /\ 1 \in 0..MaxPid /\ 0 \in 0..NPROC + 1 /\ 1 \in 1..NPROC + 1
      /\ 2 \in 1..MaxPid + 1
  BY ProcAssumption
<1> USE ProcAssumption DEF Init
<1>1. state \in [Slots -> procstate]
  BY Zenon DEF Slots, NULL, initproc, procstate, Labels
<1>2. pid \in [Slots -> 0..MaxPid]
  BY <1>0, Zenon DEF Slots, NULL, initproc, procstate, Labels
<1>3. parent \in [Slots -> Slots \cup {NULL}]
  BY Zenon DEF Slots, NULL, initproc, procstate, Labels
<1>4. killed \in [Slots -> BOOLEAN]
  BY Zenon DEF Slots, NULL, initproc, procstate, Labels
<1>5. chan \in [Slots -> 0..NPROC + 1]
  BY <1>0, Zenon DEF Slots, NULL, initproc, procstate, Labels
<1>6. kstack \in [Slots -> BOOLEAN]
  BY Zenon DEF Slots, NULL, initproc, procstate, Labels
<1>7. pgdir \in [Slots -> BOOLEAN]
  BY Zenon DEF Slots, NULL, initproc, procstate, Labels
<1>8. wtime \in [Slots -> Int]
  BY <1>0, Zenon DEF Slots, NULL, initproc, procstate, Labels
<1>9. rutime \in [Slots -> Int]
  BY <1>0, Zenon DEF Slots, NULL, initproc, procstate, Labels
<1>10. snapticks \in [Slots -> Nat]
  BY Zenon DEF Slots, NULL, initproc, procstate, Labels
<1>11. pc \in [Slots -> Labels]
  BY Zenon DEF Slots, NULL, initproc, procstate, Labels
<1>12. child \in [Slots -> Slots \cup {NULL}]
  BY Zenon DEF Slots, NULL, initproc, procstate, Labels
<1>13. until \in [Slots -> Nat]
  BY Zenon DEF Slots, NULL, initproc, procstate, Labels
<1>14. nextpid \in 1..MaxPid + 1
  BY <1>0, Zenon DEF Slots, NULL, initproc, procstate, Labels
<1>15. ticks \in Nat
  BY Zenon DEF Slots, NULL, initproc, procstate, Labels
<1>16. cproc \in [CPUS -> Slots \cup {NULL}]
  BY Zenon DEF Slots, NULL, initproc, procstate, Labels
<1>17. scan \in [CPUS -> 1..NPROC + 1]
  BY <1>0, Zenon DEF Slots, NULL, initproc, procstate, Labels
<1>18. lock \in CPUS \cup {NoCpu}
  BY Zenon DEF Slots, NULL, initproc, procstate, Labels
<1>19. panicked \in BOOLEAN
  BY Zenon DEF Slots, NULL, initproc, procstate, Labels
<1> QED
  BY <1>1, <1>2, <1>3, <1>4, <1>5, <1>6, <1>7, <1>8, <1>9,
     <1>10, <1>11, <1>12, <1>13, <1>14, <1>15, <1>16, <1>17, <1>18, <1>19, Zenon DEF TypeOK

\* Every step of the kernel keeps the type invariant.
LEMMA NextType == TypeOK /\ [Next \/ Halted]_vars => TypeOK'
<1> SUFFICES ASSUME TypeOK, [Next \/ Halted]_vars PROVE TypeOK'
  BY Zenon
<1> USE ProcAssumption DEF procs, times, locals, cpus
<1>0. /\ \A q \in Slots : q \in 0..NPROC + 1 /\ q + 1 \in 1..NPROC + 1
      /\ NULL \in 0..NPROC + 1 /\ TICKS \in 0..NPROC + 1 /\ 1 \in 1..NPROC + 1
  BY DEF Slots, NULL, TICKS
<1>a. /\ 0 \in Int /\ 0 \in 0..MaxPid /\ ticks + 1 \in Nat
      /\ \A q \in Slots : /\ rutime[q] \in Int /\ rutime[q] + (ticks - snapticks[q]) \in Int
                          /\ wtime[q] + (ticks - snapticks[q]) \in Int
                          /\ rutime[q] + (ticks + 1 - snapticks[q]) \in Int
  BY DEF TypeOK
<1>1. CASE UNCHANGED vars \/ Halted
  BY <1>1, Zenon DEF TypeOK, vars, Halted
<1>2. ASSUME NEW c \in CPUS, NEW p \in Slots, allocproc(c, p) PROVE TypeOK'
  <2> DEFINE free == {q \in Slots : state[q] = "UNUSED"}
  <2>1. CASE free = {}
    <3>1. (pc \in [Slots -> Labels])'
      BY <1>2, <2>1, Zenon DEF TypeOK, allocproc, Goto, TakeSlot, Labels
    <3> QED BY <1>2, <2>1, <3>1, Zenon DEF TypeOK, allocproc, TakeSlot
  <2>2. CASE free # {}
    <3>1. FirstIn(free) \in Slots
      BY <2>2, FirstInIsFirst, Zenon
    <3> HIDE DEF free
    <3>2. /\ TakeSlot(FirstIn(free)) /\ nextpid <= MaxPid
          /\ child' = [child EXCEPT ![p] = FirstIn(free)]
          /\ Goto(p, "kalloc")
          /\ UNCHANGED <<parent, killed, chan, kstack, pgdir, until, cpus, ticks, panicked>>
      BY <1>2, <2>2, Zenon DEF allocproc, free
    <3>3. (state \in [Slots -> procstate])'
      BY <3>1, <3>2, Zenon DEF TypeOK, TakeSlot, Goto, procstate
    <3>4. (pid \in [Slots -> 0..MaxPid])'
      BY <3>1, <3>2 DEF TypeOK, TakeSlot, Goto
    <3>5. (nextpid \in 1..MaxPid + 1)'
      BY <3>1, <3>2 DEF TypeOK, TakeSlot, Goto
    <3>6. (wtime \in [Slots -> Int])'
      BY <1>a, <3>1, <3>2, Zenon DEF TypeOK, TakeSlot, Goto
    <3>7. (rutime \in [Slots -> Int])'
      BY <1>a, <3>1, <3>2, Zenon DEF TypeOK, TakeSlot, Goto
    <3>8. (snapticks \in [Slots -> Nat])'
      BY <3>1, <3>2, Zenon DEF TypeOK, TakeSlot, Goto
    <3>9. (pc \in [Slots -> Labels])'
      BY <3>1, <3>2, Zenon DEF TypeOK, TakeSlot, Goto, Labels
    <3>10. (child \in [Slots -> Slots \cup {NULL}])'
      BY <3>1, <3>2, Zenon DEF TypeOK, TakeSlot, Goto, NULL
    <3> QED
      BY <3>1, <3>2, <3>3, <3>4, <3>5, <3>6, <3>7, <3>8, <3>9, <3>10, Zenon
         DEF TypeOK, TakeSlot, Goto
  <2> QED BY <2>1, <2>2, Zenon
<1>3. ASSUME NEW c \in CPUS, NEW p \in Slots, kallocStack(c, p) PROVE TypeOK'
  <2>1. (kstack \in [Slots -> BOOLEAN])'
    BY <1>3, Zenon DEF TypeOK, kallocStack, Goto
  <2>2. (state \in [Slots -> procstate])'
    BY <1>3, Zenon DEF TypeOK, kallocStack, Goto, procstate
  <2>3. (child \in [Slots -> Slots \cup {NULL}])'
    BY <1>3, Zenon DEF TypeOK, kallocStack, Goto, NULL
  <2>4. (pc \in [Slots -> Labels])'
    BY <1>3, Zenon DEF TypeOK, kallocStack, Goto, Labels
  <2> QED BY <1>3, <2>1, <2>2, <2>3, <2>4, Zenon DEF TypeOK, kallocStack, Goto
<1>4. ASSUME NEW c \in CPUS, NEW p \in Slots, forkCopy(c, p) PROVE TypeOK'
  <2>1. (kstack \in [Slots -> BOOLEAN])'
    BY <1>4, Zenon DEF TypeOK, forkCopy, UndoFork, Goto
  <2>2. (state \in [Slots -> procstate])'
    BY <1>4, Zenon DEF TypeOK, forkCopy, UndoFork, Goto, procstate
  <2>3. (pgdir \in [Slots -> BOOLEAN])'
    BY <1>4, Zenon DEF TypeOK, forkCopy, UndoFork, Goto
  <2>4. (parent \in [Slots -> Slots \cup {NULL}])'
    BY <1>a, <1>4, Zenon DEF TypeOK, forkCopy, UndoFork, Goto, NULL
  <2>5. (child \in [Slots -> Slots \cup {NULL}])'
    BY <1>4, Zenon DEF TypeOK, forkCopy, UndoFork, Goto, NULL
  <2>6. (pc \in [Slots -> Labels])'
    BY <1>4, Zenon DEF TypeOK, forkCopy, UndoFork, Goto, Labels
  <2> QED BY <1>4, <2>1, <2>2, <2>3, <2>4, <2>5, <2>6, Zenon DEF TypeOK, forkCopy, UndoFork, Goto
<1>5. ASSUME NEW c \in CPUS, NEW p \in Slots, forkRunnable(c, p) PROVE TypeOK'
  <2>1. (state \in [Slots -> procstate])'
    BY <1>5, Zenon DEF TypeOK, forkRunnable, procstate
  <2>2. (child \in [Slots -> Slots \cup {NULL}])'
    BY <1>5, Zenon DEF TypeOK, forkRunnable, NULL
  <2>3. (pc \in [Slots -> Labels])'
    BY <1>5, Zenon DEF TypeOK, forkRunnable, Labels
  <2> QED BY <1>5, <2>1, <2>2, <2>3, Zenon DEF TypeOK, forkRunnable
<1>6. ASSUME NEW c \in CPUS, NEW p \in Slots, exit(c, p) PROVE TypeOK'
  <2>1. (state \in [Slots -> procstate])'
    BY <1>6, Zenon DEF TypeOK, exit, Stop, Goto, procstate
  <2>2. (rutime \in [Slots -> Int])'
    BY <1>a, <1>6, Zenon DEF TypeOK, exit, Stop, Goto
  <2>3. (lock \in CPUS \cup {NoCpu})'
    BY <1>6, Zenon DEF TypeOK, exit, Stop, Goto
  <2>4. (snapticks \in [Slots -> Nat])'
    BY <1>6, Zenon DEF TypeOK, exit, Stop, Goto
  <2>5. (parent \in [Slots -> Slots \cup {NULL}])'
    BY <1>6 DEF TypeOK, exit, Stop, Goto, NULL, initproc, Slots
  <2>6. (pc \in [Slots -> Labels])'
    BY <1>6, Zenon DEF TypeOK, exit, Stop, Goto, Labels
  <2> QED BY <1>6, <2>1, <2>2, <2>3, <2>4, <2>5, <2>6, Zenon DEF TypeOK, exit, Stop, Goto
<1>7. ASSUME NEW c \in CPUS, NEW p \in Slots, exitInit(c, p) PROVE TypeOK'
  BY <1>7, Zenon DEF TypeOK, exitInit
<1>8. ASSUME NEW c \in CPUS, NEW p \in Slots, NEW l \in {"wait", "wait2"},
             waitEnter(c, p, l) \/ waitScan(c, p, l)
      PROVE  TypeOK'
  <2> DEFINE zombies == {q \in Kids(p) : state[q] = "ZOMBIE"}
  <2>1. CASE waitEnter(c, p, l)
    <3>1. (pc \in [Slots -> Labels])'
      BY <2>1, Zenon DEF TypeOK, waitEnter, Goto, Labels
    <3> QED BY <2>1, <3>1, Zenon DEF TypeOK, waitEnter
  <2>2. CASE waitScan(c, p, l) /\ zombies = {}
    <3>1. (state \in [Slots -> procstate])'
      BY <1>0, <2>2 DEF TypeOK, waitScan, sleep, Stop, Goto, procstate
    <3>2. (rutime \in [Slots -> Int])'
      BY <1>0, <2>2 DEF TypeOK, waitScan, sleep, Stop, Goto
    <3>3. (chan \in [Slots -> 0..NPROC + 1])'
      BY <1>0, <2>2 DEF TypeOK, waitScan, sleep, Stop, Goto
    <3>4. (lock \in CPUS \cup {NoCpu})'
      BY <1>0, <2>2, Zenon DEF TypeOK, waitScan, sleep, Stop, Goto
    <3>5. (pc \in [Slots -> Labels])'
      BY <1>0, <2>2, Zenon DEF TypeOK, waitScan, sleep, Stop, Goto, Labels
    <3> QED BY <1>0, <2>2, <3>1, <3>2, <3>3, <3>4, <3>5, Zenon DEF TypeOK, waitScan, sleep, Stop, Goto
  <2>3. CASE waitScan(c, p, l) /\ zombies # {}
    <3>1. FirstIn(zombies) \in Slots
      BY <2>3, FirstInIsFirst, Zenon DEF Kids
    <3> HIDE DEF zombies
    <3>2. /\ Reap(FirstIn(zombies), l)
          /\ chan' = [chan EXCEPT ![p] = NULL] /\ lock' = NoCpu /\ Goto(p, "ret")
          /\ UNCHANGED <<snapticks, child, until, cproc, scan, nextpid, ticks, panicked>>
      BY <2>3, Zenon DEF waitScan, zombies
    <3>3. (state \in [Slots -> procstate])'
      BY <1>0, <3>1, <3>2, Zenon DEF TypeOK, Reap, Goto, procstate
    <3>4. (pid \in [Slots -> 0..MaxPid])'
      BY <1>0, <1>a, <3>1, <3>2, Zenon DEF TypeOK, Reap, Goto
    <3>5. (parent \in [Slots -> Slots \cup {NULL}])'
      BY <1>0, <3>1, <3>2, Zenon DEF TypeOK, Reap, Goto, NULL
    <3>6. (killed \in [Slots -> BOOLEAN])'
      BY <1>0, <3>1, <3>2, Zenon DEF TypeOK, Reap, Goto
    <3>7. (kstack \in [Slots -> BOOLEAN])'
      BY <1>0, <3>1, <3>2, Zenon DEF TypeOK, Reap, Goto
    <3>8. (pgdir \in [Slots -> BOOLEAN])'
      BY <1>0, <3>1, <3>2, Zenon DEF TypeOK, Reap, Goto
    <3>9. (wtime \in [Slots -> Int])'
      BY <1>0, <1>a, <3>1, <3>2, Zenon DEF TypeOK, Reap, Goto
    <3>10. (rutime \in [Slots -> Int])'
      BY <1>0, <1>a, <3>1, <3>2, Zenon DEF TypeOK, Reap, Goto
    <3>11. (chan \in [Slots -> 0..NPROC + 1])'
      BY <1>0, <3>1, <3>2, Zenon DEF TypeOK, Reap, Goto
    <3>12. (lock \in CPUS \cup {NoCpu})'
      BY <1>0, <3>1, <3>2, Zenon DEF TypeOK, Reap, Goto
    <3>13. (pc \in [Slots -> Labels])'
      BY <1>0, <3>1, <3>2, Zenon DEF TypeOK, Reap, Goto, Labels
    <3> QED
      BY <1>0, <3>1, <3>2, <3>3, <3>4, <3>5, <3>6, <3>7, <3>8, <3>9, <3>10, <3>11, <3>12, <3>13, Zenon
         DEF TypeOK, Reap, Goto
  <2> QED BY <1>8, <2>1, <2>2, <2>3, Zenon
<1>9. ASSUME NEW c \in CPUS, NEW p \in Slots, NEW d \in Nat, napLoop(c, p, d),
             UNCHANGED <<child, cproc, scan, nextpid, ticks, panicked>>
      PROVE  TypeOK'
  <2>1. (state \in [Slots -> procstate])'
    BY <1>0, <1>9 DEF TypeOK, napLoop, sleep, Stop, Goto, procstate
  <2>2. (rutime \in [Slots -> Int])'
    BY <1>0, <1>9 DEF TypeOK, napLoop, sleep, Stop, Goto
  <2>3. (chan \in [Slots -> 0..NPROC + 1])'
    BY <1>0, <1>a, <1>9, Zenon DEF TypeOK, napLoop, sleep, Stop, Goto
  <2>4. (lock \in CPUS \cup {NoCpu})'
    BY <1>0, <1>9, Zenon DEF TypeOK, napLoop, sleep, Stop, Goto
  <2>5. (until \in [Slots -> Nat])'
    BY <1>0, <1>9 DEF TypeOK, napLoop, sleep, Stop, Goto
  <2>6. (pc \in [Slots -> Labels])'
    BY <1>0, <1>9, Zenon DEF TypeOK, napLoop, sleep, Stop, Goto, Labels
  <2> QED
    BY <1>0, <1>9, <2>1, <2>2, <2>3, <2>4, <2>5, <2>6, Zenon
       DEF TypeOK, napLoop, sleep, Stop, Goto
<1>10. ASSUME NEW c \in CPUS, NEW p \in Slots, NEW n \in Naps, sys_sleep(c, p, n)
       PROVE  TypeOK'
  <2>1. ticks + n \in Nat
    BY DEF TypeOK
  <2> QED BY <1>9, <1>10, <2>1, Zenon DEF sys_sleep
<1>11. ASSUME NEW c \in CPUS, NEW p \in Slots, sleepAgain(c, p) PROVE TypeOK'
  <2>1. until[p] \in Nat
    BY Zenon DEF TypeOK
  <2> QED BY <1>9, <1>11, <2>1, Zenon DEF sleepAgain
<1>12. ASSUME NEW c \in CPUS, NEW p \in Slots, NEW n \in 0..MaxPid, kill(c, p, n)
       PROVE  TypeOK'
  <2>1. (state \in [Slots -> procstate])'
    BY <1>12 DEF TypeOK, kill, Goto, procstate
  <2>2. (killed \in [Slots -> BOOLEAN])'
    BY <1>12, Zenon DEF TypeOK, kill, Goto
  <2>3. (snapticks \in [Slots -> Nat])'
    BY <1>12 DEF TypeOK, kill, Goto
  <2>4. (pc \in [Slots -> Labels])'
    BY <1>12, Zenon DEF TypeOK, kill, Goto, Labels
  <2> QED BY <1>12, <2>1, <2>2, <2>3, <2>4, Zenon DEF TypeOK, kill, Goto
<1>13. ASSUME NEW c \in CPUS, NEW p \in Slots,
              sysExit(c, p) \/ sysReturn(c, p) \/ fault(c, p)
       PROVE  TypeOK'
  <2>1. (killed \in [Slots -> BOOLEAN])'
    BY <1>13, Zenon DEF TypeOK, sysExit, sysReturn, fault, Goto
  <2>2. (pc \in [Slots -> Labels])'
    BY <1>13, Zenon DEF TypeOK, sysExit, sysReturn, fault, Goto, Labels
  <2> QED BY <1>13, <2>1, <2>2, Zenon DEF TypeOK, sysExit, sysReturn, fault, Goto
<1>14. ASSUME NEW c \in CPUS, timer(c) PROVE TypeOK'
  <2>1. (ticks \in Nat)'
    BY <1>a, <1>14, Zenon DEF TypeOK, timer
  <2>2. (state \in [Slots -> procstate])'
    BY <1>14, Zenon DEF TypeOK, timer, procstate
  <2>3. (snapticks \in [Slots -> Nat])'
    BY <1>a, <1>14, Zenon DEF TypeOK, timer
  <2>4. (rutime \in [Slots -> Int])'
    BY <1>14 DEF TypeOK, timer
  <2>5. (lock \in CPUS \cup {NoCpu})'
    BY <1>14, Zenon DEF TypeOK, timer
  <2>6. (pc \in [Slots -> Labels])'
    BY <1>14, Zenon DEF TypeOK, timer, Labels
  <2> QED BY <1>14, <2>1, <2>2, <2>3, <2>4, <2>5, <2>6, Zenon DEF TypeOK, timer
<1>15. ASSUME NEW c \in CPUS, sched(c) \/ schedulerPass(c) PROVE TypeOK'
  <2>1. (cproc \in [CPUS -> Slots \cup {NULL}])'
    BY <1>0, <1>15, Zenon DEF TypeOK, sched, schedulerPass, NULL
  <2>2. (scan \in [CPUS -> 1..NPROC + 1])'
    BY <1>0, <1>15 DEF TypeOK, sched, schedulerPass, NULL
  <2>3. (lock \in CPUS \cup {NoCpu})'
    BY <1>0, <1>15, Zenon DEF TypeOK, sched, schedulerPass
  <2> QED BY <1>0, <1>15, <2>1, <2>2, <2>3, Zenon DEF TypeOK, sched, schedulerPass
<1>16. ASSUME NEW c \in CPUS, scheduler(c) PROVE TypeOK'
  <2>1. CASE Ready(c) = {}
    BY <1>16, <2>1, Zenon DEF TypeOK, scheduler
  <2>2. CASE Ready(c) # {}
    <3>1. FirstIn(Ready(c)) \in Slots
      BY <2>2, FirstInIsFirst, Zenon DEF Ready
    <3>2. (cproc \in [CPUS -> Slots \cup {NULL}])'
      BY <1>16, <2>2, <3>1 DEF TypeOK, scheduler, NULL
    <3>3. (state \in [Slots -> procstate])'
      BY <1>16, <2>2, <3>1, Zenon DEF TypeOK, scheduler, procstate
    <3>4. (wtime \in [Slots -> Int])'
      BY <1>16, <2>2, <3>1 DEF TypeOK, scheduler
    <3>5. (snapticks \in [Slots -> Nat])'
      BY <1>a, <1>16, <2>2, <3>1, Zenon DEF TypeOK, scheduler
    <3>6. (lock \in CPUS \cup {NoCpu})'
      BY <1>16, <2>2, <3>1, Zenon DEF TypeOK, scheduler
    <3> QED BY <1>16, <2>2, <3>1, <3>2, <3>3, <3>4, <3>5, <3>6, Zenon DEF TypeOK, scheduler
  <2> QED BY <2>1, <2>2, Zenon
<1>17. ASSUME NEW c \in CPUS, resume(c) PROVE TypeOK'
  <2>1. (chan \in [Slots -> 0..NPROC + 1])'
    BY <1>0, <1>17, Zenon DEF TypeOK, resume
  <2>2. (lock \in CPUS \cup {NoCpu})'
    BY <1>0, <1>17, Zenon DEF TypeOK, resume
  <2> QED BY <1>0, <1>17, <2>1, <2>2, Zenon DEF TypeOK, resume
<1> QED
  BY <1>1, <1>2, <1>3, <1>4, <1>5, <1>6, <1>7, <1>8, <1>10, <1>11, <1>12, <1>13,
     <1>14, <1>15, <1>16, <1>17 DEF Next, Step

\* The variables of the process table keep their types.
THEOREM TypeCorrect == Spec => []TypeOK
  BY InitType, NextType, PTL DEF Spec

-----------------------------------------------------------------------------
Forking == {"kalloc", "copyuvm", "runnable"}
Alive == {"RUNNABLE", "RUNNING", "SLEEPING"}

\* A loop over the table finds a slot of S if there is one; ProcProofs proves it.
FirstInFinds == \A S \in SUBSET Slots : S # {} => FirstIn(S) \in S

\* What a CPU runs has been made.
CpuMade == \A c \in CPUS : cproc[c] # NULL => state[cproc[c]] \in Made

\* A process that fork has finished making owns its stack and page table.
MadeOwns == \A p \in Slots : state[p] \in Made => kstack[p] /\ pgdir[p]

\* How far each fork in progress has come.
ForkSteps ==
  \A p \in Slots :
    /\ child[p] # NULL <=> pc[p] \in Forking
    /\ child[p] # NULL =>
         /\ kstack[child[p]] <=> pc[p] # "kalloc"
         /\ pgdir[child[p]] <=> pc[p] = "runnable"
         /\ parent[child[p]] = IF pc[p] = "runnable" THEN p ELSE NULL

\* init has no parent and never dies; nobody is its own parent; a free slot has none.
Parents ==
  /\ parent[initproc] = NULL /\ state[initproc] \in Alive
  /\ \A p \in Slots : parent[p] # p
  /\ \A p \in Slots : state[p] = "UNUSED" => parent[p] = NULL

PidsBelow == \A p \in Slots : state[p] # "UNUSED" => pid[p] < nextpid

IInv ==
  /\ TypeOK /\ RunningOnOneCpu /\ CpuMade /\ MadeOwns /\ SlotsOwned /\ ForkSteps
  /\ Parents /\ ParentCanReap /\ NoLostWait /\ PidsUnique /\ PidsBelow

-----------------------------------------------------------------------------
\* NULL and the channel &ticks are no slots; init has one.
LEMMA SlotFacts == NULL \notin Slots /\ initproc \in Slots /\ TICKS \notin Slots
  BY ProcAssumption DEF NULL, Slots, initproc, TICKS

\* The parts of the type invariant that the step lemmas use.
LEMMA Types ==
  ASSUME TypeOK
  PROVE  /\ state \in [Slots -> procstate] /\ pid \in [Slots -> 0..MaxPid]
         /\ parent \in [Slots -> Slots \cup {NULL}] /\ killed \in [Slots -> BOOLEAN]
         /\ DOMAIN chan = Slots /\ kstack \in [Slots -> BOOLEAN] /\ pgdir \in [Slots -> BOOLEAN]
         /\ pc \in [Slots -> Labels] /\ child \in [Slots -> Slots \cup {NULL}]
         /\ cproc \in [CPUS -> Slots \cup {NULL}] /\ lock \in CPUS \cup {NoCpu}
         /\ nextpid \in Nat
  BY DEF TypeOK

\* A process that executes outside ptable.lock is RUNNING, on this CPU only.
LEMMA AtIsRunning ==
  ASSUME IInv, NEW c \in CPUS, NEW p \in Slots, cproc[c] = p, lock # c
  PROVE  state[p] = "RUNNING" /\ \A d \in CPUS : cproc[d] = p => d = c
  BY SlotFacts, Zenon DEF IInv, RunningOnOneCpu

\* Steps that change no more of the table than the killed of the process itself.
LEMMA LocalStep ==
  ASSUME IInv, TypeOK', NEW c \in CPUS, NEW p \in Slots,
         \/ exitInit(c, p) \/ sysExit(c, p) \/ sysReturn(c, p) \/ fault(c, p)
         \/ \E l \in {"wait", "wait2"} : waitEnter(c, p, l)
  PROVE  IInv'
<1> USE DEF IInv, procs, times, cpus
<1>1. /\ UNCHANGED <<state, pid, parent, chan, kstack, pgdir, child, cpus, nextpid>>
      /\ \A q \in Slots : q # p => pc'[q] = pc[q] /\ killed'[q] = killed[q]
      /\ pc'[p] = pc[p] \/ (pc[p] \notin Forking /\ pc'[p] \notin Forking)
  BY Types, Zenon DEF exitInit, sysExit, sysReturn, fault, waitEnter, At, Goto, Forking, locals
<1>2. cproc[c] = p /\ lock # c
  BY Zenon DEF exitInit, sysExit, sysReturn, fault, waitEnter, At
<1>3. state[p] = "RUNNING"
  BY <1>2, AtIsRunning, Zenon
<1>4. RunningOnOneCpu' /\ CpuMade' /\ MadeOwns' /\ SlotsOwned'
  BY <1>1 DEF RunningOnOneCpu, CpuMade, MadeOwns, SlotsOwned
<1>5. ForkSteps'
  BY <1>1 DEF ForkSteps, Forking
<1>6. Parents' /\ ParentCanReap' /\ PidsUnique' /\ PidsBelow'
  BY <1>1, Zenon DEF Parents, ParentCanReap, PidsUnique, PidsBelow
<1>7. NoLostWait'
  BY <1>1, <1>3 DEF NoLostWait, Kids
<1> QED BY <1>4, <1>5, <1>6, <1>7, Zenon

\* allocproc, under ptable.lock: a free slot becomes the EMBRYO of this fork.
LEMMA AllocStep ==
  ASSUME IInv, TypeOK', FirstInFinds, NEW c \in CPUS, NEW p \in Slots, allocproc(c, p)
  PROVE  IInv'
<1> USE DEF IInv, procs, times, cpus
<1> DEFINE free == {q \in Slots : state[q] = "UNUSED"}
<1>1. state[p] = "RUNNING" /\ child[p] = NULL /\ pc[p] = "user"
  BY AtIsRunning, ForkSteps DEF allocproc, At, ForkSteps, Forking
<1>2. CASE free = {}
  <2>1. /\ UNCHANGED <<state, pid, parent, killed, chan, kstack, pgdir, child, cpus, nextpid>>
        /\ \A q \in Slots : pc'[q] = IF q = p THEN "ret" ELSE pc[q]
    BY <1>2, Types, Zenon DEF allocproc, Goto
  <2>2. RunningOnOneCpu' /\ CpuMade' /\ MadeOwns' /\ SlotsOwned'
    BY <2>1 DEF RunningOnOneCpu, CpuMade, MadeOwns, SlotsOwned
  <2>3. ForkSteps'
    BY <1>1, <2>1 DEF ForkSteps, Forking
  <2>4. Parents' /\ ParentCanReap' /\ NoLostWait' /\ PidsUnique' /\ PidsBelow'
    BY <2>1 DEF Parents, ParentCanReap, NoLostWait, Kids, PidsUnique, PidsBelow
  <2> QED BY <2>2, <2>3, <2>4, Zenon
<1>3. CASE free # {}
  <2> DEFINE np == FirstIn(free)
  <2>1. np \in Slots /\ state[np] = "UNUSED"
    BY <1>3, Zenon DEF FirstInFinds
  <2>2. /\ UNCHANGED <<parent, killed, chan, kstack, pgdir, cpus>>
        /\ TakeSlot(np) /\ child' = [child EXCEPT ![p] = np] /\ Goto(p, "kalloc")
    BY <1>3, Zenon DEF allocproc
  <2> HIDE DEF np
  <2>3. /\ \A q \in Slots : state'[q] = IF q = np THEN "EMBRYO" ELSE state[q]
        /\ \A q \in Slots : pid'[q] = IF q = np THEN nextpid ELSE pid[q]
        /\ \A q \in Slots : child'[q] = IF q = p THEN np ELSE child[q]
        /\ \A q \in Slots : pc'[q] = IF q = p THEN "kalloc" ELSE pc[q]
        /\ nextpid' = nextpid + 1 /\ nextpid \in Nat
    BY <2>1, <2>2, Types, Zenon DEF TakeSlot, Goto
  <2>4. lock = NoCpu /\ \A d \in CPUS : cproc[d] # NULL => state[cproc[d]] = "RUNNING"
    BY ProcAssumption, Zenon DEF allocproc, RunningOnOneCpu
  <2>5. RunningOnOneCpu' /\ CpuMade' /\ MadeOwns'
    BY <2>1, <2>2, <2>3, <2>4, Types DEF RunningOnOneCpu, CpuMade, MadeOwns, Made
  <2>6. SlotsOwned'
    BY <1>1, <2>1, <2>2, <2>3, SlotFacts, Types DEF SlotsOwned
  <2>7. ForkSteps'
    BY <1>1, <2>1, <2>2, <2>3, SlotFacts, Types DEF ForkSteps, Forking, SlotsOwned, Parents
  <2>8. Parents' /\ ParentCanReap'
    BY <2>1, <2>2, <2>3, SlotFacts, Types DEF Parents, ParentCanReap, Alive, Made
  <2>9. NoLostWait'
    BY <2>1, <2>2, <2>3, Types DEF NoLostWait, Kids
  <2>10. PidsUnique' /\ PidsBelow'
    BY <2>1, <2>2, <2>3, Types DEF PidsUnique, PidsBelow
  <2> QED BY <2>5, <2>6, <2>7, <2>8, <2>9, <2>10, Zenon
<1> QED BY <1>2, <1>3, Zenon

\* The fork of p gives its EMBRYO np back: what allocproc's and fork's failure
\* paths have in common.
GivesBack(p, np) ==
  /\ child[p] = np /\ ~pgdir[np] /\ parent[np] = NULL
  /\ UNCHANGED <<pid, parent, killed, chan, pgdir, cproc, lock, nextpid>>
  /\ \A q \in Slots : kstack'[q] <=> (q # np /\ kstack[q])
  /\ \A q \in Slots : state'[q] = IF q = np THEN "UNUSED" ELSE state[q]
  /\ \A q \in Slots : child'[q] = IF q = p THEN NULL ELSE child[q]
  /\ \A q \in Slots : pc'[q] = IF q = p THEN "ret" ELSE pc[q]

\* Giving the EMBRYO back leaks nothing and leaves no trace of it.
LEMMA GiveBackStep ==
  ASSUME IInv, TypeOK', NEW p \in Slots, NEW np \in Slots, GivesBack(p, np)
  PROVE  IInv'
<1> USE DEF IInv, GivesBack
<1>1. state[np] = "EMBRYO" /\ \A q \in Slots : q # p /\ child[q] # NULL => child[q] \in Slots \ {np}
  BY SlotFacts, Types DEF SlotsOwned
<1>2. RunningOnOneCpu' /\ CpuMade' /\ MadeOwns'
  BY <1>1, Types DEF RunningOnOneCpu, CpuMade, MadeOwns, Made
<1>3. SlotsOwned'
  BY <1>1, SlotFacts DEF SlotsOwned
<1>4. ForkSteps'
  BY <1>1 DEF ForkSteps, Forking
<1>5. Parents' /\ ParentCanReap'
  BY <1>1, SlotFacts, Types DEF Parents, ParentCanReap, Alive, Made
<1>6. NoLostWait' /\ PidsUnique' /\ PidsBelow'
  BY <1>1 DEF NoLostWait, Kids, PidsUnique, PidsBelow
<1> QED BY <1>2, <1>3, <1>4, <1>5, <1>6, Zenon

\* The rest of allocproc: the EMBRYO gets its kernel stack, or is given back.
LEMMA KallocStep ==
  ASSUME IInv, TypeOK', NEW c \in CPUS, NEW p \in Slots, kallocStack(c, p)
  PROVE  IInv'
<1> USE DEF IInv, times, cpus
<1>1. pc[p] = "kalloc" /\ UNCHANGED <<pid, parent, killed, chan, pgdir, cproc, lock, nextpid>>
  BY Zenon DEF kallocStack, At
<1>2. PICK np \in Slots : child[p] = np /\ state[np] = "EMBRYO" /\ ~kstack[np] /\ ~pgdir[np]
                          /\ parent[np] = NULL
  BY <1>1, Types DEF ForkSteps, Forking, SlotsOwned
<1>3. CASE /\ kstack' = [kstack EXCEPT ![np] = TRUE] /\ Goto(p, "copyuvm")
           /\ UNCHANGED <<state, child>>
  <2>1. /\ \A q \in Slots : kstack'[q] <=> (q = np \/ kstack[q])
        /\ \A q \in Slots : pc'[q] = IF q = p THEN "copyuvm" ELSE pc[q]
    BY <1>3, Types, Zenon DEF Goto
  <2>2. RunningOnOneCpu' /\ CpuMade' /\ MadeOwns'
    BY <1>1, <1>3, <2>1, Zenon DEF RunningOnOneCpu, CpuMade, MadeOwns
  <2>3. SlotsOwned'
    BY <1>1, <1>2, <1>3, <2>1 DEF SlotsOwned
  <2>4. ForkSteps'
    <3>1. \A q \in Slots : q # p /\ child[q] # NULL => child[q] \in Slots \ {np}
      BY <1>2, Types DEF SlotsOwned
    <3> QED BY <1>1, <1>2, <1>3, <2>1, <3>1 DEF ForkSteps, Forking
  <2>5. Parents' /\ ParentCanReap' /\ NoLostWait' /\ PidsUnique' /\ PidsBelow'
    BY <1>1, <1>3 DEF Parents, ParentCanReap, NoLostWait, Kids, PidsUnique, PidsBelow
  <2> QED BY <2>2, <2>3, <2>4, <2>5, Zenon
<1>4. CASE /\ state' = [state EXCEPT ![np] = "UNUSED"]
           /\ child' = [child EXCEPT ![p] = NULL]
           /\ Goto(p, "ret") /\ UNCHANGED kstack
  <2>1. GivesBack(p, np)
    BY <1>1, <1>2, <1>4, Types, Zenon DEF Goto, GivesBack
  <2> HIDE DEF IInv
  <2> QED BY <2>1, GiveBackStep, Zenon
<1> HIDE DEF IInv
<1> QED BY <1>2, <1>3, <1>4, Zenon DEF kallocStack

-----------------------------------------------------------------------------
\* fork: the EMBRYO gets its page table and parent, or is given back whole.
LEMMA ForkCopyStep ==
  ASSUME IInv, TypeOK', NEW c \in CPUS, NEW p \in Slots, forkCopy(c, p)
  PROVE  IInv'
<1> USE DEF IInv, times, cpus
<1>1. /\ state[p] = "RUNNING" /\ pc[p] = "copyuvm"
      /\ UNCHANGED <<pid, killed, chan, cproc, lock, nextpid>>
  BY AtIsRunning, Zenon DEF forkCopy, At
<1>2. PICK np \in Slots : child[p] = np /\ state[np] = "EMBRYO" /\ kstack[np] /\ ~pgdir[np]
                          /\ parent[np] = NULL
  BY <1>1, Types DEF ForkSteps, Forking, SlotsOwned
<1>3. CASE /\ pgdir' = [pgdir EXCEPT ![np] = TRUE]
           /\ parent' = [parent EXCEPT ![np] = p]
           /\ Goto(p, "runnable") /\ UNCHANGED <<state, kstack, child>>
  <2>1. /\ \A q \in Slots : pgdir'[q] <=> (q = np \/ pgdir[q])
        /\ \A q \in Slots : parent'[q] = IF q = np THEN p ELSE parent[q]
        /\ \A q \in Slots : pc'[q] = IF q = p THEN "runnable" ELSE pc[q]
    BY <1>3, Types, Zenon DEF Goto
  <2>2. RunningOnOneCpu' /\ CpuMade' /\ MadeOwns'
    BY <1>1, <1>3, <2>1 DEF RunningOnOneCpu, CpuMade, MadeOwns
  <2>3. SlotsOwned'
    BY <1>1, <1>2, <1>3, <2>1 DEF SlotsOwned
  <2>4. ForkSteps'
    BY <1>1, <1>2, <1>3, <2>1, Types DEF ForkSteps, Forking, SlotsOwned
  <2>5. Parents' /\ ParentCanReap'
    BY <1>1, <1>2, <1>3, <2>1, SlotFacts, Types DEF Parents, ParentCanReap, Alive, Made
  <2>6. NoLostWait' /\ PidsUnique' /\ PidsBelow'
    BY <1>1, <1>2, <1>3, <2>1, SlotFacts DEF NoLostWait, Kids, PidsUnique, PidsBelow
  <2> QED BY <2>2, <2>3, <2>4, <2>5, <2>6, Zenon
<1>4. CASE /\ UndoFork(np)
           /\ child' = [child EXCEPT ![p] = NULL]
           /\ Goto(p, "ret") /\ UNCHANGED <<pgdir, parent>>
  <2>1. GivesBack(p, np)
    BY <1>1, <1>2, <1>4, Types, Zenon DEF UndoFork, Goto, GivesBack
  <2> HIDE DEF IInv
  <2> QED BY <2>1, GiveBackStep, Zenon
<1> HIDE DEF IInv
<1> QED BY <1>2, <1>3, <1>4, Zenon DEF forkCopy

\* The end of fork: the EMBRYO becomes a process.
LEMMA ForkRunnableStep ==
  ASSUME IInv, TypeOK', NEW c \in CPUS, NEW p \in Slots, forkRunnable(c, p)
  PROVE  IInv'
<1> USE DEF IInv, procs, times, cpus
<1> DEFINE np == child[p]
<1>1. state[p] = "RUNNING" /\ pc[p] = "runnable"
  BY AtIsRunning, Zenon DEF forkRunnable, At
<1>2. np \in Slots /\ state[np] = "EMBRYO" /\ kstack[np] /\ pgdir[np] /\ parent[np] = p
  BY <1>1, Types DEF ForkSteps, Forking, SlotsOwned
<1>3. child[np] = NULL
  BY <1>2, Zenon DEF SlotsOwned
<1>4. /\ UNCHANGED <<pid, parent, killed, chan, kstack, pgdir, cpus, nextpid>>
      /\ \A q \in Slots : state'[q] = IF q = np THEN "RUNNABLE" ELSE state[q]
      /\ \A q \in Slots : child'[q] = IF q = p THEN NULL ELSE child[q]
      /\ \A q \in Slots : pc'[q] = IF q = np THEN "user" ELSE IF q = p THEN "ret" ELSE pc[q]
  BY <1>2, Types, Zenon DEF forkRunnable
<1> HIDE DEF np
<1>5. RunningOnOneCpu' /\ CpuMade' /\ MadeOwns'
  BY <1>2, <1>4, Types DEF RunningOnOneCpu, CpuMade, MadeOwns, Made
<1>6. SlotsOwned'
  BY <1>1, <1>2, <1>4, SlotFacts, Types DEF SlotsOwned, np
<1>7. ForkSteps'
  BY <1>1, <1>2, <1>3, <1>4, SlotFacts, Types DEF ForkSteps, Forking, SlotsOwned, np
<1>8. Parents' /\ ParentCanReap'
  BY <1>1, <1>2, <1>4, SlotFacts, Types DEF Parents, ParentCanReap, Alive, Made
<1>9. NoLostWait'
  BY <1>2, <1>4, Types DEF NoLostWait, Kids
<1>10. PidsUnique' /\ PidsBelow'
  BY <1>2, <1>4, Types DEF PidsUnique, PidsBelow
<1> QED BY <1>5, <1>6, <1>7, <1>8, <1>9, <1>10, Zenon

\* sys_sleep: return, or sleep on &ticks.
LEMMA NapStep ==
  ASSUME IInv, TypeOK', NEW c \in CPUS, NEW p \in Slots, NEW t, napLoop(c, p, t),
         cproc[c] = p, lock = NoCpu, pc[p] \in {"user", "nap"},
         UNCHANGED <<child, cproc, nextpid>>
  PROVE  IInv'
<1> USE DEF IInv, procs, times, cpus
<1>1. state[p] = "RUNNING" /\ \A d \in CPUS : cproc[d] = p => d = c
  BY AtIsRunning, ProcAssumption, Zenon
<1>2. child[p] = NULL
  BY Zenon DEF ForkSteps, Forking
<1>3. CASE Goto(p, "ret") /\ UNCHANGED <<procs, lock>>
  <2>1. \A q \in Slots : pc'[q] = IF q = p THEN "ret" ELSE pc[q]
    BY <1>3, Types, Zenon DEF Goto
  <2>2. UNCHANGED <<state, pid, parent, killed, chan, kstack, pgdir, child, cproc, lock, nextpid>>
    BY <1>1, <1>3, Zenon
  <2>3. RunningOnOneCpu' /\ CpuMade' /\ MadeOwns' /\ SlotsOwned'
    <3>1. RunningOnOneCpu'
      BY <2>2 DEF RunningOnOneCpu
    <3>2. CpuMade' /\ MadeOwns'
      BY <2>2, Zenon DEF CpuMade, MadeOwns, Made
    <3>3. SlotsOwned'
      BY <2>2 DEF SlotsOwned
    <3> QED BY <3>1, <3>2, <3>3, Zenon
  <2>4. ForkSteps'
    BY <1>2, <1>3, <2>1 DEF ForkSteps, Forking
  <2>5. Parents' /\ ParentCanReap' /\ PidsUnique' /\ PidsBelow'
    BY <2>2, Zenon DEF Parents, ParentCanReap, PidsUnique, PidsBelow, Alive, Made
  <2>6. NoLostWait'
    BY <2>2, Zenon DEF NoLostWait, Kids
  <2> QED BY <2>3, <2>4, <2>5, <2>6, Zenon
<1>4. CASE sleep(c, p, TICKS) /\ Goto(p, "nap") /\ UNCHANGED <<pid, parent, killed, kstack, pgdir>>
  <2>1. /\ \A q \in Slots : state'[q] = IF q = p THEN "SLEEPING" ELSE state[q]
        /\ \A q \in Slots : chan'[q] = IF q = p THEN TICKS ELSE chan[q]
        /\ \A q \in Slots : pc'[q] = IF q = p THEN "nap" ELSE pc[q]
        /\ lock' = c
    BY <1>4, Types, Zenon DEF sleep, Stop, Goto
  <2>2. RunningOnOneCpu' /\ CpuMade' /\ MadeOwns'
    <3>1. RunningOnOneCpu'
      BY <1>1, <1>4, <2>1, ProcAssumption, Types DEF RunningOnOneCpu
    <3>2. CpuMade'
      BY <1>1, <1>4, <2>1, Types DEF CpuMade, Made
    <3>3. MadeOwns'
      BY <1>1, <1>4, <2>1, Types DEF MadeOwns, Made
    <3> QED BY <3>1, <3>2, <3>3, Zenon
  <2>3. SlotsOwned'
    BY <1>1, <1>2, <1>4, <2>1, Types DEF SlotsOwned
  <2>4. ForkSteps'
    BY <1>2, <1>4, <2>1 DEF ForkSteps, Forking
  <2>5. Parents' /\ ParentCanReap'
    BY <1>1, <1>4, <2>1, SlotFacts, Types DEF Parents, ParentCanReap, Alive, Made
  <2>6. PidsUnique' /\ PidsBelow'
    BY <1>1, <1>4, <2>1 DEF PidsUnique, PidsBelow
  <2>7. NoLostWait'
    BY <1>4, <2>1, SlotFacts DEF NoLostWait, Kids
  <2> QED BY <2>2, <2>3, <2>4, <2>5, <2>6, <2>7, Zenon
<1> HIDE DEF IInv, procs
<1> QED BY <1>3, <1>4, Zenon DEF napLoop

\* kill(): at most wakes its target.
LEMMA KillStep ==
  ASSUME IInv, TypeOK', FirstInFinds, NEW c \in CPUS, NEW p \in Slots,
         NEW n \in 0..MaxPid, kill(c, p, n)
  PROVE  IInv'
<1> USE DEF IInv, procs, times, cpus
<1>1. /\ cproc[c] = p /\ pc[p] = "user" /\ lock = NoCpu
      /\ UNCHANGED <<pid, parent, chan, kstack, pgdir, child, cpus, nextpid>>
  BY Zenon DEF kill, At
<1>2. \A q \in Slots :
        /\ state'[q] = state[q] \/ (state[q] = "SLEEPING" /\ state'[q] = "RUNNABLE")
        /\ killed'[q] = killed[q] \/ state'[q] # "SLEEPING"
  <2> DEFINE targets == {q \in Slots : pid[q] = n}
             t == FirstIn(targets)
  <2>1. CASE targets = {}
    BY <2>1, Zenon DEF kill
  <2>2. CASE targets # {}
    <3>1. t \in Slots
      BY <2>2, Zenon DEF FirstInFinds
    <3>2. /\ killed' = [killed EXCEPT ![t] = TRUE]
          /\ state' = [state EXCEPT ![t] = IF @ = "SLEEPING" THEN "RUNNABLE" ELSE @]
      BY <2>2, Zenon DEF kill
    <3> HIDE DEF t, targets
    <3>3. /\ \A q \in Slots : q # t => killed'[q] = killed[q]
          /\ \A q \in Slots : state'[q] =
               IF q = t /\ state[q] = "SLEEPING" THEN "RUNNABLE" ELSE state[q]
      BY <3>1, <3>2, Types, Zenon
    <3> QED BY <3>3, Zenon
  <2> QED BY <2>1, <2>2, Zenon
<1>3. \A q \in Slots : pc'[q] = IF q = p THEN "ret" ELSE pc[q]
  BY Types, Zenon DEF kill, Goto
<1>4. RunningOnOneCpu' /\ CpuMade' /\ MadeOwns'
  BY <1>1, <1>2, Types DEF RunningOnOneCpu, CpuMade, MadeOwns, Made
<1>5. SlotsOwned'
  BY <1>1, <1>2, Types DEF SlotsOwned
<1>6. ForkSteps'
  BY <1>1, <1>3 DEF ForkSteps, Forking
<1>7. Parents' /\ ParentCanReap'
  BY <1>1, <1>2, SlotFacts, Types DEF Parents, ParentCanReap, Alive, Made
<1>8. NoLostWait'
  <2> SUFFICES ASSUME NEW r \in Slots, state'[r] = "SLEEPING", chan'[r] = r
               PROVE  /\ Kids(r)' # {} /\ ~killed'[r]
                      /\ \A q \in Kids(r)' : state'[q] # "ZOMBIE"
    BY Zenon DEF NoLostWait
  <2>1. /\ state[r] = "SLEEPING" /\ chan[r] = r /\ killed'[r] = killed[r]
        /\ Kids(r)' = Kids(r) /\ Kids(r) \subseteq Slots
    <3>1. state[r] = "SLEEPING" /\ killed'[r] = killed[r]
      BY <1>2, Zenon
    <3> QED BY <1>1, <3>1, Zenon DEF Kids
  <2>2. Kids(r) # {} /\ ~killed[r] /\ \A q \in Kids(r) : state[q] # "ZOMBIE"
    BY <2>1, Zenon DEF NoLostWait
  <2> QED BY ONLY <1>2, <2>1, <2>2, Zenon
<1>9. PidsUnique' /\ PidsBelow'
  BY <1>1, <1>2 DEF PidsUnique, PidsBelow
<1> QED BY <1>4, <1>5, <1>6, <1>7, <1>8, <1>9, Zenon
=============================================================================
