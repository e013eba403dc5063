-------------------------------- MODULE Proc --------------------------------
(***************************************************************************)
(* The process table of the lab 6 kernel (src/lab6/lab6/proc.c): process   *)
(* allocation, fork, exit, wait/wait2, kill, sys_sleep, the per-CPU        *)
(* scheduler, the hand-off of ptable.lock through swtch, the timer         *)
(* interrupt that may yield, and the run/wait time accounting of wait2.    *)
(*                                                                         *)
(* Granularity.  A critical section of ptable.lock that does not switch is *)
(* one action, guarded by lock = NoCpu.  One that switches (yield, sleep,  *)
(* exit) leaves lock with the CPU; sched, scheduler and the resumed        *)
(* process are later actions of that CPU.  What the code does to the table *)
(* without the lock (the failure paths of allocproc and fork, the store to *)
(* np->parent) is an action of its own, so it interleaves.                 *)
(***************************************************************************)
EXTENDS Integers, FiniteSets

CONSTANTS NPROC,     \* size of ptable.proc
          CPUS,      \* the CPUs; the build has one, the code is written for more
          BootCpu,   \* the CPU with cpuid() == 0, which counts the ticks
          NoCpu,     \* ptable.lock is free
          MaxPid,    \* bound: no process is allocated once nextpid exceeds it
          MaxTicks,  \* bound: ticks stops here, timer interrupts go on
          Naps       \* the arguments of sys_sleep

ASSUME ProcAssumption ==
  /\ NPROC \in Nat \ {0}
  /\ BootCpu \in CPUS /\ NoCpu \notin CPUS
  /\ MaxPid \in Nat \ {0} /\ MaxTicks \in Nat
  /\ Naps \subseteq Nat

Slots == 1..NPROC
NULL == 0
initproc == 1          \* userinit takes the first slot
TICKS == NPROC + 1     \* the channel &ticks; the other channels are slots

procstate == {"UNUSED", "EMBRYO", "SLEEPING", "RUNNABLE", "RUNNING", "ZOMBIE"}

\* Where a process is: in user space, at a point of a system call at which it
\* can be descheduled, about to return from one, or in exit().
Labels == {"user", "kalloc", "copyuvm", "runnable", "wait", "wait2", "nap",
           "ret", "exit", "dead"}

VARIABLES
  state, pid, parent, killed, chan,  \* struct proc
  kstack, pgdir,                     \* the slot owns a kernel stack, a page table
  wtime, rutime, snapticks,          \* struct proc: time accounting
  pc,                                \* label of the process in the slot
  child,                             \* fork's local np
  until,                             \* sys_sleep's ticks0 + n
  nextpid, ticks,
  cproc,                             \* struct cpu: proc
  scan,                              \* scheduler's loop variable p, per CPU
  lock,                              \* holder of ptable.lock
  panicked

times == <<wtime, rutime, snapticks>>
procs == <<state, pid, parent, killed, chan, kstack, pgdir>>
locals == <<pc, child, until>>
cpus == <<cproc, scan, lock>>
vars == <<procs, times, locals, cpus, nextpid, ticks, panicked>>

-----------------------------------------------------------------------------
\* After userinit: initproc is RUNNABLE with pid 1, every CPU is in scheduler().
Init ==
  /\ state = [p \in Slots |-> IF p = initproc THEN "RUNNABLE" ELSE "UNUSED"]
  /\ pid = [p \in Slots |-> IF p = initproc THEN 1 ELSE 0]
  /\ parent = [p \in Slots |-> NULL]
  /\ killed = [p \in Slots |-> FALSE]
  /\ chan = [p \in Slots |-> NULL]
  /\ kstack = [p \in Slots |-> p = initproc]
  /\ pgdir = [p \in Slots |-> p = initproc]
  /\ wtime = [p \in Slots |-> 0]
  /\ rutime = [p \in Slots |-> 0]
  /\ snapticks = [p \in Slots |-> 0]
  /\ pc = [p \in Slots |-> IF p = initproc THEN "user" ELSE "dead"]
  /\ child = [p \in Slots |-> NULL]
  /\ until = [p \in Slots |-> 0]
  /\ nextpid = 2
  /\ ticks = 0
  /\ cproc = [c \in CPUS |-> NULL]
  /\ scan = [c \in CPUS |-> 1]
  /\ lock = NoCpu
  /\ panicked = FALSE

-----------------------------------------------------------------------------
\* Process p runs on CPU c outside ptable.lock and is at label l.
At(c, p, l) == cproc[c] = p /\ pc[p] = l /\ lock # c

Goto(p, l) == pc' = [pc EXCEPT ![p] = l]

\* The slot of S that a loop over the table meets first.
FirstIn(S) == CHOOSE p \in S : \A q \in S : p <= q

Sleepers(ch) == {p \in Slots : state[p] = "SLEEPING" /\ chan[p] = ch}

\* Mutant: exit() passes only the children that still run to init.
Kids_Live(p) == {q \in Slots : parent[q] = p /\ state[q] # "ZOMBIE"}

\* The children of p, as wait() and exit() find them.
Kids(p) == {q \in Slots : parent[q] = p}

\* Mutant: allocproc forgets to count nextpid.
TakeSlot_SamePid(np) ==
  /\ state' = [state EXCEPT ![np] = "EMBRYO"]
  /\ pid' = [pid EXCEPT ![np] = nextpid]
  /\ nextpid' = nextpid
  /\ wtime' = [wtime EXCEPT ![np] = 0]
  /\ rutime' = [rutime EXCEPT ![np] = 0]
  /\ snapticks' = [snapticks EXCEPT ![np] = ticks]

\* allocproc: a slot is found.
TakeSlot(np) ==
  /\ state' = [state EXCEPT ![np] = "EMBRYO"]
  /\ pid' = [pid EXCEPT ![np] = nextpid]
  /\ nextpid' = nextpid + 1
  /\ wtime' = [wtime EXCEPT ![np] = 0]
  /\ rutime' = [rutime EXCEPT ![np] = 0]
  /\ snapticks' = [snapticks EXCEPT ![np] = ticks]

\* allocproc for fork, up to the release of ptable.lock.
allocproc(c, p) ==
  /\ At(c, p, "user") /\ ~killed[p]
  /\ lock = NoCpu
  /\ LET free == {q \in Slots : state[q] = "UNUSED"} IN
     \/ /\ free = {}
        /\ Goto(p, "ret")
        /\ UNCHANGED <<procs, times, child, nextpid>>
     \/ /\ free # {} /\ nextpid <= MaxPid
        /\ TakeSlot(FirstIn(free))
        /\ child' = [child EXCEPT ![p] = FirstIn(free)]
        /\ Goto(p, "kalloc")
        /\ UNCHANGED <<parent, killed, chan, kstack, pgdir>>
  /\ UNCHANGED <<until, cpus, ticks, panicked>>

\* The rest of allocproc, without the lock: the kernel stack, or give up.
kallocStack(c, p) ==
  /\ At(c, p, "kalloc")
  /\ LET np == child[p] IN
     \/ /\ kstack' = [kstack EXCEPT ![np] = TRUE]
        /\ Goto(p, "copyuvm")
        /\ UNCHANGED <<state, child>>
     \/ /\ state' = [state EXCEPT ![np] = "UNUSED"]
        /\ child' = [child EXCEPT ![p] = NULL]
        /\ Goto(p, "ret")
        /\ UNCHANGED kstack
  /\ UNCHANGED <<pid, parent, killed, chan, pgdir, times, until, cpus,
                 nextpid, ticks, panicked>>

\* Mutant: fork's failure path leaks the kernel stack.
UndoFork_Leak(np) ==
  /\ state' = [state EXCEPT ![np] = "UNUSED"]
  /\ UNCHANGED kstack

\* fork: copyuvm failed.
UndoFork(np) ==
  /\ kstack' = [kstack EXCEPT ![np] = FALSE]
  /\ state' = [state EXCEPT ![np] = "UNUSED"]

\* fork: copy the address space, or undo; then fill in np, still unlocked.
forkCopy(c, p) ==
  /\ At(c, p, "copyuvm")
  /\ LET np == child[p] IN
     \/ /\ pgdir' = [pgdir EXCEPT ![np] = TRUE]
        /\ parent' = [parent EXCEPT ![np] = p]
        /\ Goto(p, "runnable")
        /\ UNCHANGED <<state, kstack, child>>
     \/ /\ UndoFork(np)
        /\ child' = [child EXCEPT ![p] = NULL]
        /\ Goto(p, "ret")
        /\ UNCHANGED <<pgdir, parent>>
  /\ UNCHANGED <<pid, killed, chan, times, until, cpus, nextpid, ticks, panicked>>

\* The end of fork: the child, which starts in user space, becomes RUNNABLE.
forkRunnable(c, p) ==
  /\ At(c, p, "runnable")
  /\ lock = NoCpu
  /\ state' = [state EXCEPT ![child[p]] = "RUNNABLE"]
  /\ pc' = [pc EXCEPT ![p] = "ret", ![child[p]] = "user"]
  /\ child' = [child EXCEPT ![p] = NULL]
  /\ UNCHANGED <<pid, parent, killed, chan, kstack, pgdir, times, until, cpus,
                 nextpid, ticks, panicked>>

\* Mutant: exit() and sleep() let go of ptable.lock before they are off the stack.
Stop_Unlocked(c, p, s, woken) ==
  /\ state' = [q \in Slots |-> IF q = p THEN s
                               ELSE IF q \in woken THEN "RUNNABLE" ELSE state[q]]
  /\ rutime' = [rutime EXCEPT ![p] = @ + (ticks - snapticks[p])]
  /\ lock' = NoCpu

\* Mutant: exit() and sleep() do not account for the time run.
Stop_NoTime(c, p, s, woken) ==
  /\ state' = [q \in Slots |-> IF q = p THEN s
                               ELSE IF q \in woken THEN "RUNNABLE" ELSE state[q]]
  /\ rutime' = rutime
  /\ lock' = c

\* Process p stops running in state s; c keeps ptable.lock for sched().
Stop(c, p, s, woken) ==
  /\ state' = [q \in Slots |-> IF q = p THEN s
                               ELSE IF q \in woken THEN "RUNNABLE" ELSE state[q]]
  /\ rutime' = [rutime EXCEPT ![p] = @ + (ticks - snapticks[p])]
  /\ lock' = c

\* Mutant: exit() wakes init only.
ExitWakes_Init(p) == Sleepers(initproc)

\* Whom exit() wakes: its parent, and init if it inherits a zombie.
ExitWakes(p) ==
  Sleepers(parent[p]) \cup
    (IF \E q \in Kids(p) : state[q] = "ZOMBIE" THEN Sleepers(initproc) ELSE {})

\* exit(), after the files and cwd are closed: wake the parent, give the
\* children to init (waking it for a zombie), become a ZOMBIE.
exit(c, p) ==
  /\ At(c, p, "exit")
  /\ p # initproc
  /\ lock = NoCpu
  /\ Stop(c, p, "ZOMBIE", ExitWakes(p))
  /\ snapticks' = [q \in Slots |-> IF q \in ExitWakes(p) THEN ticks ELSE snapticks[q]]
  /\ parent' = [q \in Slots |-> IF q \in Kids(p) THEN initproc ELSE parent[q]]
  /\ Goto(p, "dead")
  /\ UNCHANGED <<pid, killed, chan, kstack, pgdir, wtime, child, until, cproc,
                 scan, nextpid, ticks, panicked>>

\* exit() by init.
exitInit(c, p) ==
  /\ At(c, p, "exit")
  /\ p = initproc
  /\ panicked' = TRUE
  /\ UNCHANGED <<procs, times, locals, cpus, nextpid, ticks>>


\* sleep(chan, lk), up to sched().  The caller's lk is released with no step in
\* between: tickslock keeps the interrupts off, and ptable.lock is lk itself.
sleep(c, p, ch) ==
  /\ Stop(c, p, "SLEEPING", {})
  /\ chan' = [chan EXCEPT ![p] = ch]
  /\ UNCHANGED snapticks

\* Mutant: the mark stays on the slot of the zombie.
Reap_Killed(z, l) ==
  /\ state' = [state EXCEPT ![z] = "UNUSED"]
  /\ pid' = [pid EXCEPT ![z] = 0]
  /\ parent' = [parent EXCEPT ![z] = NULL]
  /\ killed' = killed
  /\ kstack' = [kstack EXCEPT ![z] = FALSE]
  /\ pgdir' = [pgdir EXCEPT ![z] = FALSE]
  /\ wtime' = IF l = "wait2" THEN [wtime EXCEPT ![z] = 0] ELSE wtime
  /\ rutime' = IF l = "wait2" THEN [rutime EXCEPT ![z] = 0] ELSE rutime

\* wait() and wait2() free a zombie child; only wait2 clears the times.
Reap(z, l) ==
  /\ state' = [state EXCEPT ![z] = "UNUSED"]
  /\ pid' = [pid EXCEPT ![z] = 0]
  /\ parent' = [parent EXCEPT ![z] = NULL]
  /\ killed' = [killed EXCEPT ![z] = FALSE]
  /\ kstack' = [kstack EXCEPT ![z] = FALSE]
  /\ pgdir' = [pgdir EXCEPT ![z] = FALSE]
  /\ wtime' = IF l = "wait2" THEN [wtime EXCEPT ![z] = 0] ELSE wtime
  /\ rutime' = IF l = "wait2" THEN [rutime EXCEPT ![z] = 0] ELSE rutime

\* The system call wait or wait2 is entered.
waitEnter(c, p, l) ==
  /\ At(c, p, "user") /\ ~killed[p]
  /\ Goto(p, l)
  /\ UNCHANGED <<procs, times, child, until, cpus, nextpid, ticks, panicked>>

\* One pass of wait's loop, with ptable.lock: acquired, or still held by the
\* process that sched() has just resumed, which then also clears its chan.
waitScan(c, p, l) ==
  /\ cproc[c] = p /\ pc[p] = l /\ state[p] = "RUNNING"
  /\ lock = (IF chan[p] = p THEN c ELSE NoCpu)
  /\ LET zombies == {q \in Kids(p) : state[q] = "ZOMBIE"} IN
     \/ /\ zombies # {}
        /\ Reap(FirstIn(zombies), l)
        /\ chan' = [chan EXCEPT ![p] = NULL]
        /\ lock' = NoCpu
        /\ Goto(p, "ret")
        /\ UNCHANGED snapticks
     \/ /\ zombies = {} /\ (Kids(p) = {} \/ killed[p])
        /\ chan' = [chan EXCEPT ![p] = NULL]
        /\ lock' = NoCpu
        /\ Goto(p, "ret")
        /\ UNCHANGED <<state, pid, parent, killed, kstack, pgdir, times>>
     \/ /\ zombies = {} /\ Kids(p) # {} /\ ~killed[p]
        /\ sleep(c, p, p)
        /\ UNCHANGED <<pid, parent, killed, kstack, pgdir, wtime, pc>>
  /\ UNCHANGED <<child, until, cproc, scan, nextpid, ticks, panicked>>

\* Mutant: sys_sleep does not look at killed.
napLoop_Deaf(c, p, deadline) ==
  \/ /\ ticks >= deadline
     /\ Goto(p, "ret")
     /\ until' = [until EXCEPT ![p] = 0]
     /\ UNCHANGED <<procs, times, lock>>
  \/ /\ ticks < deadline
     /\ sleep(c, p, TICKS)
     /\ until' = [until EXCEPT ![p] = deadline]
     /\ Goto(p, "nap")
     /\ UNCHANGED <<pid, parent, killed, kstack, pgdir, wtime>>

\* sys_sleep's loop, with tickslock held.
napLoop(c, p, deadline) ==
  \/ /\ ticks >= deadline \/ killed[p]
     /\ Goto(p, "ret")
     /\ until' = [until EXCEPT ![p] = 0]
     /\ UNCHANGED <<procs, times, lock>>
  \/ /\ ticks < deadline /\ ~killed[p]
     /\ sleep(c, p, TICKS)
     /\ until' = [until EXCEPT ![p] = deadline]
     /\ Goto(p, "nap")
     /\ UNCHANGED <<pid, parent, killed, kstack, pgdir, wtime>>

sys_sleep(c, p, n) ==
  /\ At(c, p, "user") /\ ~killed[p]
  /\ lock = NoCpu
  /\ napLoop(c, p, ticks + n)
  /\ UNCHANGED <<child, cproc, scan, nextpid, ticks, panicked>>

\* sys_sleep's process was woken, has tickslock again, and tests its condition.
sleepAgain(c, p) ==
  /\ At(c, p, "nap")
  /\ lock = NoCpu
  /\ napLoop(c, p, until[p])
  /\ UNCHANGED <<child, cproc, scan, nextpid, ticks, panicked>>

\* kill(n): the first slot with that pid, whatever its state.
kill(c, p, n) ==
  /\ At(c, p, "user") /\ ~killed[p]
  /\ lock = NoCpu
  /\ LET targets == {q \in Slots : pid[q] = n} IN
     \/ /\ targets = {}
        /\ UNCHANGED <<state, killed, snapticks>>
     \/ /\ targets # {}
        /\ LET t == FirstIn(targets) IN
           /\ killed' = [killed EXCEPT ![t] = TRUE]
           /\ state' = [state EXCEPT ![t] = IF @ = "SLEEPING" THEN "RUNNABLE" ELSE @]
           /\ snapticks' = [snapticks EXCEPT ![t] =
                              IF state[t] = "SLEEPING" THEN ticks ELSE @]
  /\ Goto(p, "ret")
  /\ UNCHANGED <<pid, parent, chan, kstack, pgdir, wtime, rutime, child, until,
                 cpus, nextpid, ticks, panicked>>

\* trap(): a system call is entered by a killed process, one ends, a process
\* calls exit(), or a process faults in user space.
sysExit(c, p) ==
  /\ At(c, p, "user")
  /\ Goto(p, "exit")
  /\ UNCHANGED <<procs, times, child, until, cpus, nextpid, ticks, panicked>>

sysReturn(c, p) ==
  /\ At(c, p, "ret")
  /\ Goto(p, IF killed[p] THEN "exit" ELSE "user")
  /\ UNCHANGED <<procs, times, child, until, cpus, nextpid, ticks, panicked>>

fault(c, p) ==
  /\ At(c, p, "user")
  /\ killed' = [killed EXCEPT ![p] = TRUE]
  /\ Goto(p, "exit")
  /\ UNCHANGED <<state, pid, parent, chan, kstack, pgdir, times, child, until,
                 cpus, nextpid, ticks, panicked>>

\* The lab's condition for giving up the CPU on a clock tick.
GivesUp(p) == pid[p] % 2 # 0 \/ (rutime[p] % 2 = 0 /\ rutime[p] # 0)

\* The timer interrupt on c, not while c holds a lock.  The boot CPU counts the
\* tick and wakes the sleepers on &ticks; then the interrupted process exits,
\* yields, or goes on.
timer(c) ==
  /\ lock = NoCpu
  /\ LET p == cproc[c]
         now == IF c = BootCpu /\ ticks < MaxTicks THEN ticks + 1 ELSE ticks
         woken == IF c = BootCpu THEN Sleepers(TICKS) ELSE {}
         dies == p # NULL /\ killed[p] /\ pc[p] = "user"
         yields == p # NULL /\ ~dies /\ GivesUp(p)
     IN
     /\ ticks' = now
     /\ state' = [q \in Slots |->
                    IF q \in woken \/ (yields /\ q = p) THEN "RUNNABLE" ELSE state[q]]
     /\ snapticks' = [q \in Slots |->
                        IF q \in woken \/ (yields /\ q = p) THEN now ELSE snapticks[q]]
     /\ rutime' = IF yields THEN [rutime EXCEPT ![p] = @ + (now - snapticks[p])]
                  ELSE rutime
     /\ lock' = IF yields THEN c ELSE NoCpu
     /\ pc' = IF dies THEN [pc EXCEPT ![p] = "exit"] ELSE pc
  /\ UNCHANGED <<pid, parent, killed, chan, kstack, pgdir, wtime, child, until,
                 cproc, scan, nextpid, panicked>>

-----------------------------------------------------------------------------
\* Mutant: the scan skips a slot.
sched_Skip(c) ==
  /\ lock = c /\ cproc[c] # NULL
  /\ state[cproc[c]] # "RUNNING"
  /\ scan' = [scan EXCEPT ![c] = cproc[c] + 2]
  /\ cproc' = [cproc EXCEPT ![c] = NULL]
  /\ UNCHANGED <<procs, times, locals, lock, nextpid, ticks, panicked>>

\* sched(): with ptable.lock held and the state changed, switch to scheduler(),
\* which forgets the process and goes on with the next slot.
sched(c) ==
  /\ lock = c /\ cproc[c] # NULL
  /\ state[cproc[c]] # "RUNNING"
  /\ scan' = [scan EXCEPT ![c] = cproc[c] + 1]
  /\ cproc' = [cproc EXCEPT ![c] = NULL]
  /\ UNCHANGED <<procs, times, locals, lock, nextpid, ticks, panicked>>

\* scheduler(): a pass over the table starts.
schedulerPass(c) ==
  /\ lock = NoCpu /\ cproc[c] = NULL
  /\ lock' = c
  /\ scan' = [scan EXCEPT ![c] = 1]
  /\ UNCHANGED <<procs, times, locals, cproc, nextpid, ticks, panicked>>

\* Mutant: the scheduler takes a process that another CPU runs.
Ready_Running(c) == {p \in Slots : p >= scan[c] /\ state[p] \in {"RUNNABLE", "RUNNING"}}

\* The processes the rest of the pass can choose from.
Ready(c) == {p \in Slots : p >= scan[c] /\ state[p] = "RUNNABLE"}

\* scheduler(): switch to the next RUNNABLE process, or end the pass.
scheduler(c) ==
  /\ lock = c /\ cproc[c] = NULL
  /\ \/ /\ Ready(c) # {}
        /\ LET p == FirstIn(Ready(c)) IN
           /\ cproc' = [cproc EXCEPT ![c] = p]
           /\ state' = [state EXCEPT ![p] = "RUNNING"]
           /\ wtime' = [wtime EXCEPT ![p] = @ + (ticks - snapticks[p])]
           /\ snapticks' = [snapticks EXCEPT ![p] = ticks]
        /\ UNCHANGED lock
     \/ /\ Ready(c) = {}
        /\ lock' = NoCpu
        /\ UNCHANGED <<cproc, state, wtime, snapticks>>
  /\ UNCHANGED <<pid, parent, killed, chan, kstack, pgdir, rutime, locals, scan,
                 nextpid, ticks, panicked>>

\* The process just switched to releases ptable.lock: in forkret, at the end of
\* yield, or in sleep() for another lock, which first clears chan.  A process
\* resumed in wait keeps the lock (waitScan).
resume(c) ==
  /\ lock = c /\ cproc[c] # NULL
  /\ LET p == cproc[c] IN
     /\ state[p] = "RUNNING"
     /\ ~(pc[p] \in {"wait", "wait2"} /\ chan[p] = p)
     /\ chan' = [chan EXCEPT ![p] = NULL]
  /\ lock' = NoCpu
  /\ UNCHANGED <<state, pid, parent, killed, kstack, pgdir, times, locals, cproc,
                 scan, nextpid, ticks, panicked>>

-----------------------------------------------------------------------------
Step(c, p) ==
  \/ allocproc(c, p) \/ kallocStack(c, p) \/ forkCopy(c, p) \/ forkRunnable(c, p)
  \/ exit(c, p) \/ exitInit(c, p)
  \/ \E l \in {"wait", "wait2"} : waitEnter(c, p, l) \/ waitScan(c, p, l)
  \/ \E n \in Naps : sys_sleep(c, p, n)
  \/ sleepAgain(c, p)
  \/ \E n \in 0..MaxPid : kill(c, p, n)
  \/ sysExit(c, p) \/ sysReturn(c, p) \/ fault(c, p)

Next ==
  /\ ~panicked
  /\ \E c \in CPUS :
       \/ \E p \in Slots : Step(c, p)
       \/ timer(c) \/ sched(c) \/ schedulerPass(c) \/ scheduler(c) \/ resume(c)

Halted == panicked /\ UNCHANGED vars

Spec == Init /\ [][Next \/ Halted]_vars
-----------------------------------------------------------------------------
\* Every variable keeps its type.
TypeOK ==
  /\ state \in [Slots -> procstate]
  /\ pid \in [Slots -> 0..MaxPid]
  /\ parent \in [Slots -> Slots \cup {NULL}]
  /\ killed \in [Slots -> BOOLEAN]
  /\ chan \in [Slots -> 0..NPROC + 1]
  /\ kstack \in [Slots -> BOOLEAN]
  /\ pgdir \in [Slots -> BOOLEAN]
  /\ wtime \in [Slots -> Int]
  /\ rutime \in [Slots -> Int]
  /\ snapticks \in [Slots -> Nat]
  /\ pc \in [Slots -> Labels]
  /\ child \in [Slots -> Slots \cup {NULL}]
  /\ until \in [Slots -> Nat]
  /\ nextpid \in 1..MaxPid + 1
  /\ ticks \in Nat
  /\ cproc \in [CPUS -> Slots \cup {NULL}]
  /\ scan \in [CPUS -> 1..NPROC + 1]
  /\ lock \in CPUS \cup {NoCpu}
  /\ panicked \in BOOLEAN

\* The states of a process that fork has finished making.
Made == {"RUNNABLE", "RUNNING", "SLEEPING", "ZOMBIE"}

\* A RUNNING process is the process of exactly one CPU, and the process of a CPU
\* that does not hold ptable.lock is RUNNING: the hand-off of the lock through
\* swtch never lets two CPUs run one process (scheduler, sched, yield).
RunningOnOneCpu ==
  /\ \A p \in Slots : state[p] = "RUNNING" => \E c \in CPUS : cproc[c] = p
  /\ \A c, d \in CPUS : cproc[c] = cproc[d] /\ cproc[c] # NULL => c = d
  /\ \A c \in CPUS : cproc[c] # NULL /\ lock # c => state[cproc[c]] = "RUNNING"

\* A CPU never runs on a kernel stack or page table that a parent's wait() has
\* freed: exit() keeps ptable.lock until the zombie is off its stack.
StackInUse == \A c \in CPUS : cproc[c] # NULL => kstack[cproc[c]] /\ pgdir[cproc[c]]

\* Except for init, a process that fork made has a parent that can still reap it:
\* exit() hands the children of a dying process to init in the same critical
\* section in which it becomes a zombie.
ParentCanReap ==
  \A p \in Slots \ {initproc} :
    state[p] \in Made =>
      parent[p] # NULL /\ state[parent[p]] \in {"RUNNABLE", "RUNNING", "SLEEPING"}

\* No wakeup of wait() is lost: a process asleep in wait() has a child, has no
\* zombie child and has not been killed (exit's wakeup1 calls, kill).
NoLostWait ==
  \A p \in Slots :
    state[p] = "SLEEPING" /\ chan[p] = p =>
      /\ Kids(p) # {} /\ ~killed[p]
      /\ \A q \in Kids(p) : state[q] # "ZOMBIE"

\* A process asleep in sys_sleep has time left to sleep and has not been killed:
\* every tick wakes it, and it tests again (the timer's wakeup(&ticks)).
NoOversleep ==
  \A p \in Slots :
    state[p] = "SLEEPING" /\ chan[p] = TICKS => ticks < until[p] /\ ~killed[p]

\* The pids of the slots in use are distinct (allocproc's nextpid++ under the lock).
PidsUnique ==
  \A p, q \in Slots : p # q /\ state[p] # "UNUSED" /\ state[q] # "UNUSED" => pid[p] # pid[q]

\* An unused slot owns no kernel stack and no page table, and every slot that is
\* being made belongs to one fork in progress: the failure paths of allocproc and
\* fork, which write the slot without ptable.lock, leak and double-free nothing.
SlotsOwned ==
  /\ \A p \in Slots : state[p] = "UNUSED" => ~kstack[p] /\ ~pgdir[p]
  /\ \A p \in Slots : state[p] = "EMBRYO" => \E q \in Slots : child[q] = p
  /\ \A p, q \in Slots : child[p] # NULL /\ child[p] = child[q] => p = q
  /\ \A p \in Slots : child[p] # NULL =>
       state[child[p]] = "EMBRYO" /\ state[p] \in {"RUNNABLE", "RUNNING"}
=============================================================================
