--------------------------- MODULE ProcInvProofs ----------------------------
(***************************************************************************)
(* The safety of the process table, for every number of slots and CPUs:    *)
(* exit, wait, the timer interrupt and the scheduler preserve the          *)
(* invariant too, so it is inductive, and what follows from it.  Then that *)
(* what proc.c tells about its processes is right: the times that wait2    *)
(* reports, the mark that kill leaves and the deadline of sys_sleep, each  *)
(* from what a step can do to one slot.                                    *)
(***************************************************************************)
EXTENDS ProcTimes, ProcProofs

\* exit(): the one step that moves children and wakes two kinds of sleepers.
LEMMA ExitStep ==
  ASSUME IInv, TypeOK', NEW c \in CPUS, NEW p \in Slots, exit(c, p)
  PROVE  IInv'
<1> USE DEF IInv, procs, times, cpus
<1>1. /\ state[p] = "RUNNING" /\ pc[p] = "exit" /\ cproc[c] = p /\ lock = NoCpu
      /\ p # initproc /\ \A d \in CPUS : cproc[d] = p => d = c
  BY AtIsRunning, Zenon DEF exit, At
<1>2. child[p] = NULL
  BY <1>1, Zenon DEF ForkSteps, Forking
<1>3. \A q \in ExitWakes(p) : q \in Slots /\ state[q] = "SLEEPING"
  BY Zenon DEF ExitWakes, Sleepers
<1>4. /\ UNCHANGED <<pid, killed, chan, kstack, pgdir, child, cproc, nextpid>>
      /\ lock' = c
      /\ \A q \in Slots : state'[q] = IF q = p THEN "ZOMBIE"
                            ELSE IF q \in ExitWakes(p) THEN "RUNNABLE" ELSE state[q]
      /\ \A q \in Slots : parent'[q] = IF parent[q] = p THEN initproc ELSE parent[q]
      /\ \A q \in Slots : pc'[q] = IF q = p THEN "dead" ELSE pc[q]
  BY Types, Zenon DEF exit, Stop, Goto, Kids
<1>5. RunningOnOneCpu' /\ CpuMade' /\ MadeOwns'
  BY <1>1, <1>3, <1>4, ProcAssumption, Types DEF RunningOnOneCpu, CpuMade, MadeOwns, Made
<1>6. SlotsOwned'
  <2>1. \A q \in Slots : /\ state'[q] = "UNUSED" <=> state[q] = "UNUSED"
                         /\ state'[q] = "EMBRYO" <=> state[q] = "EMBRYO"
                         /\ q # p /\ state[q] \in {"RUNNABLE", "RUNNING"} =>
                              state'[q] \in {"RUNNABLE", "RUNNING"}
    BY <1>1, <1>3, <1>4, Zenon
  <2> QED BY <1>2, <1>4, <2>1, Types DEF SlotsOwned
<1>7. ForkSteps'
  BY <1>1, <1>2, <1>3, <1>4, SlotFacts, Types DEF ForkSteps, Forking, SlotsOwned
<1>8. Parents'
  <2>1. parent'[initproc] = NULL /\ state'[initproc] \in Alive
    BY <1>1, <1>4, SlotFacts, Zenon DEF Parents, Alive
  <2>2. \A q \in Slots : parent'[q] # q
    BY <1>4, SlotFacts, Zenon DEF Parents
  <2>3. \A q \in Slots : state'[q] = "UNUSED" => parent'[q] = NULL
    BY <1>4, SlotFacts, Zenon DEF Parents
  <2> QED BY <2>1, <2>2, <2>3 DEF Parents
<1>9. ParentCanReap'
  BY <1>1, <1>3, <1>4, SlotFacts, Types DEF Parents, ParentCanReap, Alive, Made
<1>10. NoLostWait'
  <2> SUFFICES ASSUME NEW r \in Slots, state'[r] = "SLEEPING", chan'[r] = r
               PROVE  /\ Kids(r)' # {} /\ ~killed'[r]
                      /\ \A q \in Kids(r)' : state'[q] # "ZOMBIE"
    BY Zenon DEF NoLostWait
  <2>1. r # p /\ r \notin ExitWakes(p) /\ state[r] = "SLEEPING" /\ chan[r] = r
    BY <1>3, <1>4, Zenon
  <2>2. Kids(r) # {} /\ ~killed[r] /\ \A q \in Kids(r) : state[q] # "ZOMBIE"
    BY <2>1, Zenon DEF NoLostWait
  <2>3. Kids(r) \subseteq Kids(r)'
    BY <1>4, <2>1, Zenon DEF Kids
  <2>4. ASSUME NEW q \in Kids(r)', state'[q] = "ZOMBIE" PROVE FALSE
    <3>1. q \in Slots /\ parent'[q] = r
      BY <2>4, Zenon DEF Kids
    <3>2. CASE q = p
      BY <1>1, <1>4, <2>1, <3>1, <3>2, Zenon DEF ExitWakes, Sleepers, Parents
    <3>3. CASE q # p /\ parent[q] = p
      BY <1>4, <2>1, <2>4, <3>1, <3>3 DEF ExitWakes, Sleepers, Kids
    <3>4. CASE q # p /\ parent[q] # p
      BY <1>4, <2>2, <2>4, <3>1, <3>4, Zenon DEF Kids
    <3> QED BY <3>2, <3>3, <3>4
  <2> QED BY <1>4, <2>2, <2>3, <2>4
<1>11. PidsUnique' /\ PidsBelow'
  BY <1>1, <1>3, <1>4, Types DEF PidsUnique, PidsBelow
<1> QED BY <1>5, <1>6, <1>7, <1>8, <1>9, <1>10, <1>11

\* wait() and wait2(): reap a zombie, give up, or sleep on the caller's own slot.
LEMMA WaitStep ==
  ASSUME IInv, TypeOK', FirstInFinds, NEW c \in CPUS, NEW p \in Slots,
         NEW l \in {"wait", "wait2"}, waitScan(c, p, l)
  PROVE  IInv'
<1> USE DEF IInv, procs, times, cpus
<1> DEFINE zombies == {q \in Kids(p) : state[q] = "ZOMBIE"}
           z == FirstIn(zombies)
<1>1. /\ cproc[c] = p /\ pc[p] = l /\ state[p] = "RUNNING" /\ lock \in {c, NoCpu}
      /\ UNCHANGED <<child, cproc, nextpid>>
  BY Zenon DEF waitScan
<1>2. child[p] = NULL
  BY <1>1, Zenon DEF ForkSteps, Forking
<1>3. \A d \in CPUS : cproc[d] = p => d = c
  BY <1>1, SlotFacts, Zenon DEF RunningOnOneCpu
<1>4. CASE /\ zombies # {} /\ Reap(z, l) /\ chan' = [chan EXCEPT ![p] = NULL]
           /\ lock' = NoCpu /\ Goto(p, "ret")
  <2>1. z \in zombies
    <3>1. zombies \subseteq Slots
      BY Zenon DEF Kids
    <3> QED BY <1>4, <3>1 DEF FirstInFinds
  <2>2. z \in Slots /\ parent[z] = p /\ state[z] = "ZOMBIE" /\ z # p
    BY <1>1, <2>1, Zenon DEF Kids
  <2> HIDE DEF z, zombies
  <2>3. \A d \in CPUS : cproc[d] # z
    BY <1>1, <2>2, SlotFacts, ProcAssumption, Types DEF RunningOnOneCpu
  <2>4. /\ \A q \in Slots : state'[q] = IF q = z THEN "UNUSED" ELSE state[q]
        /\ \A q \in Slots : pid'[q] = IF q = z THEN 0 ELSE pid[q]
        /\ \A q \in Slots : parent'[q] = IF q = z THEN NULL ELSE parent[q]
        /\ \A q \in Slots : q # z => killed'[q] = killed[q]
        /\ \A q \in Slots : kstack'[q] <=> (q # z /\ kstack[q])
        /\ \A q \in Slots : pgdir'[q] <=> (q # z /\ pgdir[q])
        /\ \A q \in Slots : chan'[q] = IF q = p THEN NULL ELSE chan[q]
        /\ \A q \in Slots : pc'[q] = IF q = p THEN "ret" ELSE pc[q]
    BY <1>4, <2>2, Types, Zenon DEF Reap, Goto
  <2>5. RunningOnOneCpu' /\ CpuMade'
    BY <1>1, <1>3, <1>4, <2>2, <2>3, <2>4, ProcAssumption, Types DEF RunningOnOneCpu, CpuMade
  <2>6. MadeOwns' /\ SlotsOwned'
    <3>1. MadeOwns'
      BY <2>4, Zenon DEF MadeOwns, Made
    <3>2. \A q \in Slots : child'[q] # NULL => child[q] \in Slots \ {z} /\ q # z
      BY <1>1, <2>2, Types DEF SlotsOwned
    <3>3. SlotsOwned'
      BY <1>1, <2>2, <2>4, <3>2 DEF SlotsOwned
    <3> QED BY <3>1, <3>3
  <2>7. ForkSteps'
    <3>1. \A q \in Slots : child[q] # NULL => child[q] \in Slots \ {z}
      BY <2>2, Types DEF SlotsOwned
    <3> QED BY <1>1, <1>2, <2>4, <3>1 DEF ForkSteps, Forking
  <2>8. Parents'
    BY <2>2, <2>4, SlotFacts DEF Parents, Alive
  <2>9. ParentCanReap'
    BY <2>2, <2>4, SlotFacts, Types DEF ParentCanReap, Made
  <2>10. NoLostWait'
    BY <1>1, <2>2, <2>4, SlotFacts DEF NoLostWait, Kids
  <2>11. PidsUnique' /\ PidsBelow'
    BY <1>1, <2>4 DEF PidsUnique, PidsBelow
  <2> QED BY <2>5, <2>6, <2>7, <2>8, <2>9, <2>10, <2>11
<1>5. CASE /\ chan' = [chan EXCEPT ![p] = NULL] /\ lock' = NoCpu /\ Goto(p, "ret")
           /\ UNCHANGED <<state, pid, parent, killed, kstack, pgdir>>
  <2>1. /\ \A q \in Slots : chan'[q] = IF q = p THEN NULL ELSE chan[q]
        /\ \A q \in Slots : pc'[q] = IF q = p THEN "ret" ELSE pc[q]
    BY <1>5, Types, Zenon DEF Goto
  <2>2. RunningOnOneCpu'
    BY <1>1, <1>3, <1>5, ProcAssumption, Zenon DEF RunningOnOneCpu
  <2>6. CpuMade' /\ MadeOwns' /\ SlotsOwned'
    BY <1>1, <1>5 DEF CpuMade, MadeOwns, SlotsOwned
  <2>3. ForkSteps'
    BY <1>1, <1>2, <1>5, <2>1 DEF ForkSteps, Forking
  <2>4. Parents' /\ ParentCanReap' /\ PidsUnique' /\ PidsBelow'
    BY <1>1, <1>5, Zenon DEF Parents, ParentCanReap, PidsUnique, PidsBelow
  <2>5. NoLostWait'
    BY <1>1, <1>5, <2>1, SlotFacts DEF NoLostWait, Kids
  <2> QED BY <2>2, <2>3, <2>4, <2>5, <2>6
<1>6. CASE /\ zombies = {} /\ Kids(p) # {} /\ ~killed[p] /\ sleep(c, p, p)
           /\ UNCHANGED <<pid, parent, killed, kstack, pgdir, pc>>
  <2>1. /\ \A q \in Slots : state'[q] = IF q = p THEN "SLEEPING" ELSE state[q]
        /\ \A q \in Slots : chan'[q] = IF q = p THEN p ELSE chan[q]
        /\ lock' = c
    BY <1>6, Types, Zenon DEF sleep, Stop
  <2>2. RunningOnOneCpu' /\ CpuMade' /\ MadeOwns'
    BY <1>1, <1>3, <1>6, <2>1, ProcAssumption, Types DEF RunningOnOneCpu, CpuMade, MadeOwns, Made
  <2>3. SlotsOwned'
    BY <1>1, <1>2, <1>6, <2>1, Types DEF SlotsOwned
  <2>4. ForkSteps'
    BY <1>1, <1>6, Zenon DEF ForkSteps
  <2>5. Parents' /\ ParentCanReap'
    BY <1>1, <1>6, <2>1, SlotFacts, Types DEF Parents, ParentCanReap, Alive, Made
  <2>6. PidsUnique' /\ PidsBelow'
    BY <1>1, <1>6, <2>1 DEF PidsUnique, PidsBelow
  <2>7. NoLostWait'
    BY <1>1, <1>6, <2>1, SlotFacts DEF NoLostWait, Kids
  <2> QED BY <2>2, <2>3, <2>4, <2>5, <2>6, <2>7
<1> HIDE DEF IInv
<1> QED BY <1>4, <1>5, <1>6 DEF waitScan

-----------------------------------------------------------------------------
\* The timer interrupt: wakes sleepers on &ticks, and the process may yield,
\* in which case its CPU keeps ptable.lock.
LEMMA TimerStep ==
  ASSUME IInv, TypeOK', NEW c \in CPUS, timer(c)
  PROVE  IInv'
<1> USE DEF IInv, procs, times, cpus
<1> DEFINE p == cproc[c]
           woken == IF c = BootCpu THEN Sleepers(TICKS) ELSE {}
           dies == p # NULL /\ killed[p] /\ pc[p] = "user"
           yields == p # NULL /\ ~dies /\ GivesUp(p)
<1>1. /\ UNCHANGED <<pid, parent, killed, chan, kstack, pgdir, child, cproc, nextpid>>
      /\ lock = NoCpu
      /\ lock' = IF yields THEN c ELSE NoCpu
      /\ \A q \in Slots : state'[q] =
           IF q \in woken \/ (yields /\ q = p) THEN "RUNNABLE" ELSE state[q]
  BY Zenon DEF timer
<1>2. \A q \in woken : q \in Slots /\ state[q] = "SLEEPING" /\ chan[q] = TICKS
  BY Zenon DEF Sleepers
<1>3. \A q \in Slots : pc'[q] = pc[q] \/ (pc[q] \notin Forking /\ pc'[q] \notin Forking)
  <2>1. pc' = IF dies THEN [pc EXCEPT ![p] = "exit"] ELSE pc
    BY Zenon DEF timer
  <2> QED BY <2>1, Types DEF Forking
<1>4. p # NULL => p \in Slots /\ state[p] = "RUNNING" /\ \A d \in CPUS : cproc[d] = p => d = c
  BY <1>1, ProcAssumption, Types DEF RunningOnOneCpu
<1>5. yields => p # NULL
  BY Zenon
<1> HIDE DEF p, woken, dies, yields
<1>6. RunningOnOneCpu' /\ CpuMade' /\ MadeOwns'
  BY <1>1, <1>2, <1>4, <1>5, ProcAssumption, Types DEF RunningOnOneCpu, CpuMade, MadeOwns, Made, p
<1>7. SlotsOwned'
  BY <1>1, <1>2, <1>4, <1>5, Types DEF SlotsOwned
<1>8. ForkSteps'
  BY <1>1, <1>3 DEF ForkSteps, Forking
<1>9. Parents' /\ ParentCanReap'
  BY <1>1, <1>2, <1>4, <1>5, SlotFacts, Types DEF Parents, ParentCanReap, Alive, Made
<1>10. NoLostWait'
  BY <1>1, <1>2, <1>4, <1>5, Zenon DEF NoLostWait, Kids
<1>11. PidsUnique' /\ PidsBelow'
  BY <1>1, <1>2, <1>4, <1>5 DEF PidsUnique, PidsBelow
<1> QED BY <1>6, <1>7, <1>8, <1>9, <1>10, <1>11

\* The scheduler's side: sched(), scheduler() and the release of ptable.lock by
\* the process switched to.
LEMMA SwitchStep ==
  ASSUME IInv, TypeOK', NEW c \in CPUS, sched(c) \/ schedulerPass(c) \/ resume(c)
  PROVE  IInv'
<1> USE DEF IInv, procs, times, cpus, locals
<1>1. /\ UNCHANGED <<state, pid, parent, killed, kstack, pgdir, pc, child, nextpid>>
      /\ \A q \in Slots : chan'[q] = chan[q] \/ state[q] = "RUNNING"
      /\ \A d \in CPUS : cproc'[d] = cproc[d] \/ (cproc'[d] = NULL /\ state[cproc[d]] # "RUNNING")
      /\ \A d \in CPUS : lock' # d => \/ lock # d
                                      \/ cproc'[d] # NULL => state[cproc[d]] = "RUNNING"
  <2>1. CASE sched(c)
    BY <2>1, Types, Zenon DEF sched
  <2>2. CASE schedulerPass(c)
    BY <2>2, ProcAssumption, Types, Zenon DEF schedulerPass
  <2>3. CASE resume(c)
    BY <2>3, Types, Zenon DEF resume
  <2> QED BY <2>1, <2>2, <2>3
<1>2. RunningOnOneCpu' /\ CpuMade'
  BY <1>1, Types DEF RunningOnOneCpu, CpuMade
<1>3. MadeOwns' /\ SlotsOwned' /\ ForkSteps'
  <2>1. MadeOwns'
    BY <1>1 DEF MadeOwns
  <2>2. SlotsOwned'
    BY <1>1 DEF SlotsOwned
  <2>3. ForkSteps'
    BY <1>1 DEF ForkSteps
  <2> QED BY <2>1, <2>2, <2>3, Zenon
<1>4. Parents' /\ ParentCanReap' /\ PidsUnique' /\ PidsBelow'
  BY <1>1, Zenon DEF Parents, ParentCanReap, PidsUnique, PidsBelow
<1>5. NoLostWait'
  BY <1>1 DEF NoLostWait, Kids
<1> QED BY <1>2, <1>3, <1>4, <1>5

\* scheduler() runs a RUNNABLE process, which no CPU has as its own: this one has
\* none, and another CPU's process is RUNNING as long as that CPU has no lock.
LEMMA SchedulerStep ==
  ASSUME IInv, TypeOK', FirstInFinds, NEW c \in CPUS, scheduler(c)
  PROVE  IInv'
<1> USE DEF IInv, procs, times, cpus, locals
<1> DEFINE p == FirstIn(Ready(c))
<1>1. /\ UNCHANGED <<pid, parent, killed, chan, kstack, pgdir, pc, child, nextpid>>
      /\ lock = c /\ cproc[c] = NULL
  BY Zenon DEF scheduler
<1>2. CASE Ready(c) # {}
  <2>1. p \in Slots /\ state[p] = "RUNNABLE"
    BY <1>2, Zenon DEF FirstInFinds, Ready
  <2>2. /\ lock' = lock
        /\ \A q \in Slots : state'[q] = IF q = p THEN "RUNNING" ELSE state[q]
        /\ \A d \in CPUS : cproc'[d] = IF d = c THEN p ELSE cproc[d]
    BY <1>2, <2>1, Types, Zenon DEF scheduler
  <2> HIDE DEF p
  <2>3. \A d \in CPUS : cproc[d] # p
    BY <1>1, <2>1, SlotFacts, Zenon DEF RunningOnOneCpu
  <2>4. RunningOnOneCpu' /\ CpuMade'
    <3>1. \A q \in Slots : state'[q] = "RUNNING" => \E d \in CPUS : cproc'[d] = q
      BY <1>1, <2>1, <2>2, SlotFacts DEF RunningOnOneCpu
    <3>2. \A d, e \in CPUS : cproc'[d] = cproc'[e] /\ cproc'[d] # NULL => d = e
      BY <2>2, <2>3 DEF RunningOnOneCpu
    <3>3. \A d \in CPUS : cproc'[d] # NULL /\ lock' # d => state'[cproc'[d]] = "RUNNING"
      BY <1>1, <2>2, <2>3, Types DEF RunningOnOneCpu
    <3>4. CpuMade'
      BY <2>1, <2>2, Types DEF CpuMade, Made
    <3> QED BY <3>1, <3>2, <3>3, <3>4 DEF RunningOnOneCpu
  <2>5. MadeOwns' /\ ForkSteps'
    <3>1. MadeOwns'
      BY <1>1, <2>1, <2>2 DEF MadeOwns, Made
    <3>2. ForkSteps'
      BY <1>1, <2>1, <2>2 DEF ForkSteps
    <3> QED BY <3>1, <3>2, Zenon
  <2>6. SlotsOwned'
    BY <1>1, <2>1, <2>2, Types DEF SlotsOwned
  <2>7. Parents' /\ ParentCanReap'
    BY <1>1, <2>1, <2>2, SlotFacts, Types DEF Parents, ParentCanReap, Alive, Made
  <2>8. NoLostWait' /\ PidsUnique' /\ PidsBelow'
    BY <1>1, <2>1, <2>2 DEF NoLostWait, Kids, PidsUnique, PidsBelow
  <2> QED BY <2>4, <2>5, <2>6, <2>7, <2>8
<1>3. CASE Ready(c) = {}
  <2>1. UNCHANGED <<state, cproc>> /\ lock' = NoCpu
    BY <1>3, Zenon DEF scheduler
  <2>2. RunningOnOneCpu' /\ CpuMade'
    BY <1>1, <2>1, Zenon DEF RunningOnOneCpu, CpuMade
  <2>3. MadeOwns' /\ SlotsOwned' /\ ForkSteps'
    BY <1>1, <2>1 DEF MadeOwns, SlotsOwned, ForkSteps
  <2>4. Parents' /\ ParentCanReap' /\ PidsUnique' /\ PidsBelow' /\ NoLostWait'
    BY <1>1, <2>1, Zenon DEF Parents, ParentCanReap, PidsUnique, PidsBelow, NoLostWait, Kids
  <2> QED BY <2>2, <2>3, <2>4
<1> QED BY <1>2, <1>3

-----------------------------------------------------------------------------
\* userinit establishes the invariant.
LEMMA InitInv == Init => IInv
<1> SUFFICES ASSUME Init PROVE IInv
  BY Zenon
<1>1. TypeOK
  BY InitType, Zenon
<1>2. RunningOnOneCpu /\ CpuMade /\ MadeOwns
  BY SlotFacts, Zenon DEF Init, RunningOnOneCpu, CpuMade, MadeOwns, Made
<1>3. SlotsOwned /\ ForkSteps
  BY SlotFacts, Zenon DEF Init, SlotsOwned, ForkSteps, Forking
<1>4. Parents /\ ParentCanReap /\ NoLostWait
  BY SlotFacts, Zenon DEF Init, Parents, ParentCanReap, NoLostWait, Made, Alive
<1>5. PidsUnique /\ PidsBelow
  BY DEF Init, PidsUnique, PidsBelow
<1> QED BY <1>1, <1>2, <1>3, <1>4, <1>5 DEF IInv

\* Every step of the kernel preserves it.
LEMMA NextInv == IInv /\ [Next \/ Halted]_vars => IInv'
<1> SUFFICES ASSUME IInv, [Next \/ Halted]_vars PROVE IInv'
  BY Zenon
<1>0. FirstInFinds
  BY FirstInIsFirst, Zenon DEF FirstInFinds
<1>1. TypeOK'
  BY NextType, Zenon DEF IInv
<1>2. CASE UNCHANGED vars
  BY <1>1, <1>2 DEF vars, procs, times, locals, cpus, IInv, RunningOnOneCpu, CpuMade, MadeOwns,
     SlotsOwned, ForkSteps, Parents, ParentCanReap, NoLostWait, Kids, PidsUnique, PidsBelow
<1>3. ASSUME NEW c \in CPUS, NEW p \in Slots, Step(c, p) PROVE IInv'
  <2>1. ASSUME NEW l \in {"wait", "wait2"}, waitScan(c, p, l) PROVE IInv'
    BY <1>0, <1>1, <2>1, WaitStep, Zenon
  <2>2. ASSUME NEW n \in Naps, sys_sleep(c, p, n) PROVE IInv'
    BY <1>1, <2>2, NapStep, Zenon DEF sys_sleep, At
  <2>3. CASE sleepAgain(c, p)
    BY <1>1, <2>3, NapStep, Zenon DEF sleepAgain, At
  <2>4. ASSUME NEW n \in 0..MaxPid, kill(c, p, n) PROVE IInv'
    BY <1>0, <1>1, <2>4, KillStep, Zenon
  <2>5. CASE allocproc(c, p) \/ kallocStack(c, p) \/ forkCopy(c, p) \/ forkRunnable(c, p)
    BY <1>0, <1>1, <2>5, AllocStep, KallocStep, ForkCopyStep, ForkRunnableStep, Zenon
  <2>6. CASE exit(c, p)
    BY <1>1, <2>6, ExitStep, Zenon
  <2>7. CASE \/ exitInit(c, p) \/ sysExit(c, p) \/ sysReturn(c, p) \/ fault(c, p)
             \/ \E l \in {"wait", "wait2"} : waitEnter(c, p, l)
    BY <1>1, <2>7, LocalStep, Zenon
  <2> QED BY <1>3, <2>1, <2>2, <2>3, <2>4, <2>5, <2>6, <2>7 DEF Step
<1>4. ASSUME NEW c \in CPUS, timer(c) \/ sched(c) \/ schedulerPass(c) \/ scheduler(c) \/ resume(c)
      PROVE  IInv'
  BY <1>0, <1>1, <1>4, TimerStep, SwitchStep, SchedulerStep, Zenon
<1> QED BY <1>2, <1>3, <1>4 DEF Next, Halted

\* The inductive invariant holds in every reachable state of the process table.
THEOREM Inductive == Spec => []IInv
  BY InitInv, NextInv, PTL DEF Spec

\* scheduler, sched and yield: a process runs on at most one CPU, and a CPU that
\* does not hold ptable.lock runs a RUNNING process.
THEOREM OneCpu == Spec => []RunningOnOneCpu
<1>1. IInv => RunningOnOneCpu
  BY Zenon DEF IInv
<1> QED BY Inductive, <1>1, PTL

\* exit and wait: no CPU is ever on a kernel stack or page table that wait freed.
THEOREM StacksSafe == Spec => []StackInUse
<1>1. IInv => StackInUse
  BY Types, Zenon DEF IInv, StackInUse, CpuMade, MadeOwns
<1> QED BY Inductive, <1>1, PTL

\* allocproc and fork: what their unlocked failure paths touch is owned by one fork.
THEOREM ForkOwns == Spec => []SlotsOwned
<1>1. IInv => SlotsOwned
  BY Zenon DEF IInv
<1> QED BY Inductive, <1>1, PTL

\* allocproc: two slots in use never share a pid.
THEOREM PidsDistinct == Spec => []PidsUnique
<1>1. IInv => PidsUnique
  BY Zenon DEF IInv
<1> QED BY Inductive, <1>1, PTL

\* exit: whoever was forked has a living parent, its own or init.
THEOREM NoOrphans == Spec => []ParentCanReap
<1>1. IInv => ParentCanReap
  BY Zenon DEF IInv
<1> QED BY Inductive, <1>1, PTL

\* exit, kill and wait: a process asleep in wait has something to wait for and has
\* missed no wakeup.
THEOREM WaitersWoken == Spec => []NoLostWait
<1>1. IInv => NoLostWait
  BY Zenon DEF IInv
<1> QED BY Inductive, <1>1, PTL

-----------------------------------------------------------------------------
\* What a step does to the state of slot q and to the times that go with it.
Moves(q) ==
  LET since == ticks - snapticks[q] IN
  \/ state'[q] = "UNUSED"
  \/ /\ state[q] = "UNUSED" /\ state'[q] = "EMBRYO" /\ ticks' = ticks
     /\ wtime'[q] = 0 /\ rutime'[q] = 0 /\ snapticks'[q] = ticks
  \/ /\ state'[q] = state[q] \/ (state[q] = "EMBRYO" /\ state'[q] = "RUNNABLE")
     /\ wtime'[q] = wtime[q] /\ rutime'[q] = rutime[q] /\ snapticks'[q] = snapticks[q]
  \/ /\ state[q] = "SLEEPING" /\ state'[q] = "RUNNABLE"
     /\ wtime'[q] = wtime[q] /\ rutime'[q] = rutime[q] /\ snapticks'[q] = ticks'
  \/ /\ state[q] = "RUNNABLE" /\ state'[q] = "RUNNING" /\ ticks' = ticks
     /\ wtime'[q] = wtime[q] + since /\ rutime'[q] = rutime[q] /\ snapticks'[q] = ticks
  \/ /\ state[q] = "RUNNING" /\ state'[q] \in {"SLEEPING", "ZOMBIE"} /\ ticks' = ticks
     /\ wtime'[q] = wtime[q] /\ rutime'[q] = rutime[q] + since
  \/ /\ state[q] = "RUNNING" /\ state'[q] = "RUNNABLE"
     /\ wtime'[q] = wtime[q] /\ rutime'[q] = rutime[q] + (ticks' - snapticks[q])
     /\ snapticks'[q] = ticks'

\* What it does to its mark: only wait takes one away, with the process.
Marks(q) ==
  \/ state[q] = "ZOMBIE" /\ state'[q] = "UNUSED" /\ killed'[q] = FALSE
  \/ (state[q] = "ZOMBIE" => state'[q] # "UNUSED") /\ killed'[q] = killed[q]
  \/ killed'[q] = TRUE /\ (state'[q] = "UNUSED" <=> state[q] = "UNUSED")

\* What it does to a sleep in sys_sleep: begin it in time, or leave it alone.
Dozes(q) ==
  \/ state'[q] # "SLEEPING" \/ chan'[q] # TICKS
  \/ ticks' < until'[q] /\ killed'[q] = FALSE
  \/ /\ state[q] = "SLEEPING" /\ chan[q] = TICKS
     /\ ticks' = ticks /\ until'[q] = until[q] /\ killed'[q] = killed[q]

Fine(q) == Moves(q) /\ Marks(q) /\ Dozes(q)

-----------------------------------------------------------------------------
\* A slot that keeps its state and times, and its nap if it sleeps on &ticks.
LEMMA Stays ==
  ASSUME NEW q \in Slots, state'[q] = state[q],
         wtime'[q] = wtime[q], rutime'[q] = rutime[q], snapticks'[q] = snapticks[q],
         killed'[q] = killed[q] \/ killed'[q] = TRUE,
         \/ state[q] # "SLEEPING" \/ chan'[q] # TICKS
         \/ chan'[q] = chan[q] /\ ticks' = ticks /\ until'[q] = until[q] /\ killed'[q] = killed[q]
  PROVE  Fine(q)
<1>1. Moves(q)
  BY Zenon DEF Moves
<1>2. Marks(q)
  BY Zenon DEF Marks
<1>3. Dozes(q)
  BY Zenon DEF Dozes
<1> QED
  BY <1>1, <1>2, <1>3, Zenon DEF Fine

\* Nothing of slot q that matters here changes.
Same(q) ==
  /\ state'[q] = state[q] /\ killed'[q] = killed[q] /\ chan'[q] = chan[q] /\ until'[q] = until[q]
  /\ wtime'[q] = wtime[q] /\ rutime'[q] = rutime[q] /\ snapticks'[q] = snapticks[q] /\ ticks' = ticks

\* A step that changes nothing of slot q is fine for it.
LEMMA SameIsFine ==
  ASSUME NEW q \in Slots, Same(q)
  PROVE  Fine(q)
BY Stays, Zenon DEF Same

\* The step of a process outside ptable.lock that leaves the state of every process alone.
LEMMA LocalFine ==
  ASSUME IInv, NEW c \in CPUS, NEW p \in Slots,
         \/ exitInit(c, p) \/ sysExit(c, p) \/ sysReturn(c, p) \/ fault(c, p)
         \/ \E l \in {"wait", "wait2"} : waitEnter(c, p, l)
  PROVE  ticks' = ticks /\ \A q \in Slots : Fine(q)
<1> USE DEF IInv, procs, times, cpus
<1>1. /\ UNCHANGED <<state, wtime, rutime, snapticks, chan, ticks, until>>
      /\ \A q \in Slots : killed'[q] = killed[q] \/ (q = p /\ killed'[q] = TRUE)
  BY Types, Zenon DEF exitInit, sysExit, sysReturn, fault, waitEnter, Goto, locals
<1>2. state[p] = "RUNNING"
  BY AtIsRunning, Zenon DEF exitInit, sysExit, sysReturn, fault, waitEnter, At
<1>3. ASSUME NEW q \in Slots PROVE Fine(q)
  BY <1>1, <1>2, Stays, Zenon
<1> QED
  BY <1>1, <1>3, Zenon

\* allocproc: one slot starts afresh.
LEMMA AllocFine ==
  ASSUME IInv, FirstInFinds, NEW c \in CPUS, NEW p \in Slots, allocproc(c, p)
  PROVE  ticks' = ticks /\ \A q \in Slots : Fine(q)
<1> USE DEF IInv, procs, times, cpus
<1> DEFINE free == {q \in Slots : state[q] = "UNUSED"}
<1>1. ticks' = ticks /\ UNCHANGED <<killed, chan, until>>
  BY Zenon DEF allocproc
<1>2. CASE free = {}
  <2>1. UNCHANGED <<state, wtime, rutime, snapticks>>
    BY <1>2, Zenon DEF allocproc
  <2> QED
    BY <1>1, <2>1, SameIsFine, Zenon DEF Same
<1>3. CASE free # {}
  <2>1. PICK np \in Slots : state[np] = "UNUSED" /\ TakeSlot(np)
    BY <1>3, Zenon DEF FirstInFinds, allocproc
  <2>2. /\ \A q \in Slots : state'[q] = IF q = np THEN "EMBRYO" ELSE state[q]
        /\ \A q \in Slots : wtime'[q] = IF q = np THEN 0 ELSE wtime[q]
        /\ \A q \in Slots : rutime'[q] = IF q = np THEN 0 ELSE rutime[q]
        /\ \A q \in Slots : snapticks'[q] = IF q = np THEN ticks ELSE snapticks[q]
    BY <2>1, Zenon DEF TakeSlot, TypeOK
  <2>3. ASSUME NEW q \in Slots, q # np PROVE Fine(q)
    BY <1>1, <2>2, <2>3, SameIsFine, Zenon DEF Same
  <2>4. Fine(np)
    BY <1>1, <2>1, <2>2, Zenon DEF Fine, Moves, Marks, Dozes
  <2> QED
    BY <1>1, <2>3, <2>4, Zenon
<1> QED
  BY <1>2, <1>3, Zenon

\* The rest of fork: the EMBRYO is finished, or given back.
LEMMA ForkFine ==
  ASSUME IInv, NEW c \in CPUS, NEW p \in Slots,
         kallocStack(c, p) \/ forkCopy(c, p) \/ forkRunnable(c, p)
  PROVE  ticks' = ticks /\ \A q \in Slots : Fine(q)
<1> USE DEF IInv, procs, times, cpus
<1>1. /\ UNCHANGED <<killed, chan, until, wtime, rutime, snapticks, ticks>>
      /\ pc[p] \in Forking
      /\ state' = state \/ \E s \in {"UNUSED", "RUNNABLE"} : state' = [state EXCEPT ![child[p]] = s]
  BY Zenon DEF kallocStack, forkCopy, forkRunnable, At, Forking, UndoFork
<1>2. PICK np \in Slots : child[p] = np /\ state[np] = "EMBRYO"
  <2>1. child[p] # NULL
    BY <1>1, Zenon DEF ForkSteps
  <2>2. child[p] \in Slots
    BY <2>1, Types, Zenon
  <2> QED
    BY <2>1, <2>2, Zenon DEF SlotsOwned
<1>3. /\ state'[np] \in {"UNUSED", "RUNNABLE", "EMBRYO"}
      /\ \A q \in Slots : q # np => state'[q] = state[q]
  BY <1>1, <1>2, Types, Zenon
<1>4. ASSUME NEW q \in Slots, q # np PROVE Fine(q)
  BY <1>1, <1>3, <1>4, SameIsFine, Zenon DEF Same
<1>5. Fine(np)
  BY <1>1, <1>2, <1>3, Zenon DEF Fine, Moves, Marks, Dozes
<1> QED
  BY <1>1, <1>4, <1>5, Zenon

\* exit, or a sleep: process p stops running, and those in woken are woken.
LEMMA StopFine ==
  ASSUME IInv, NEW p \in Slots, state[p] = "RUNNING", NEW woken \in SUBSET Slots, NEW c, NEW s \in {"SLEEPING", "ZOMBIE"},
         Stop(c, p, s, woken), \A q \in woken : state[q] = "SLEEPING",
         UNCHANGED <<killed, wtime, ticks>>,
         \A q \in Slots : snapticks'[q] = IF q \in woken THEN ticks ELSE snapticks[q],
         \A q \in Slots : q # p => until'[q] = until[q] /\ chan'[q] = chan[q],
         s = "SLEEPING" => chan'[p] # TICKS \/ (ticks < until'[p] /\ killed[p] = FALSE)
  PROVE  \A q \in Slots : Fine(q)
<1> USE DEF IInv
<1>1. /\ \A q \in Slots : state'[q] = IF q = p THEN s ELSE IF q \in woken THEN "RUNNABLE" ELSE state[q]
      /\ \A q \in Slots : rutime'[q] = IF q = p THEN rutime[q] + (ticks - snapticks[q]) ELSE rutime[q]
  BY Zenon DEF Stop, TypeOK
<1>2. Fine(p)
  BY <1>1, Zenon DEF Fine, Moves, Marks, Dozes
<1>3. ASSUME NEW q \in Slots, q # p, q \in woken PROVE Fine(q)
  BY <1>1, <1>3, Zenon DEF Fine, Moves, Marks, Dozes
<1>4. ASSUME NEW q \in Slots, q # p, q \notin woken PROVE Fine(q)
  BY <1>1, <1>4, SameIsFine, Zenon DEF Same
<1> QED
  BY <1>2, <1>3, <1>4, Zenon

\* exit() stops its process and wakes those waiting for it.
LEMMA ExitFine ==
  ASSUME IInv, NEW c \in CPUS, NEW p \in Slots, exit(c, p)
  PROVE  ticks' = ticks /\ \A q \in Slots : Fine(q)
<1> USE DEF IInv
<1>1. /\ Stop(c, p, "ZOMBIE", ExitWakes(p)) /\ UNCHANGED <<killed, chan, until, wtime, ticks>>
      /\ \A q \in Slots : snapticks'[q] = IF q \in ExitWakes(p) THEN ticks ELSE snapticks[q]
  BY Zenon DEF exit
<1>2. state[p] = "RUNNING"
  BY AtIsRunning, Zenon DEF exit, At
<1>3. ExitWakes(p) \in SUBSET Slots /\ \A q \in ExitWakes(p) : state[q] = "SLEEPING"
  BY Zenon DEF ExitWakes, Sleepers
<1> HIDE DEF IInv
<1> QED
  BY <1>1, <1>2, <1>3, StopFine, Zenon

\* wait and wait2.
LEMMA WaitFine ==
  ASSUME IInv, FirstInFinds, NEW c \in CPUS, NEW p \in Slots, NEW l \in {"wait", "wait2"}, waitScan(c, p, l)
  PROVE  ticks' = ticks /\ \A q \in Slots : Fine(q)
<1> USE DEF IInv, procs, times, cpus
<1> DEFINE zombies == {q \in Kids(p) : state[q] = "ZOMBIE"}
<1>1. ticks' = ticks /\ until' = until /\ state[p] = "RUNNING"
  BY Zenon DEF waitScan
<1>2. ASSUME NEW z \in Slots, state[z] = "ZOMBIE", Reap(z, l), chan' = [chan EXCEPT ![p] = NULL],
             UNCHANGED snapticks
      PROVE  \A q \in Slots : Fine(q)
  <2>1. /\ \A q \in Slots : q # z => state'[q] = state[q] /\ killed'[q] = killed[q]
        /\ \A q \in Slots : q # z => wtime'[q] = wtime[q] /\ rutime'[q] = rutime[q]
        /\ state'[z] = "UNUSED" /\ killed'[z] = FALSE
        /\ \A q \in Slots : q # p => chan'[q] = chan[q]
    BY <1>2, Zenon DEF Reap, TypeOK
  <2>2. ASSUME NEW q \in Slots, q # z PROVE Fine(q)
    BY <1>1, <1>2, <2>1, <2>2, Stays, Zenon
  <2>3. Fine(z)
    BY <1>2, <2>1, Zenon DEF Fine, Moves, Marks, Dozes
  <2> QED
    BY <2>2, <2>3, Zenon
<1>3. CASE chan' = [chan EXCEPT ![p] = NULL] /\ UNCHANGED <<state, killed, times>>
  <2>1. \A q \in Slots : q # p => chan'[q] = chan[q]
    BY <1>3, Zenon DEF TypeOK
  <2> QED
    BY <1>1, <1>3, <2>1, Stays, Zenon
<1>4. CASE sleep(c, p, p) /\ UNCHANGED <<killed, wtime>>
  <2>1. /\ Stop(c, p, "SLEEPING", {}) /\ chan'[p] # TICKS /\ snapticks' = snapticks
        /\ \A q \in Slots : q # p => chan'[q] = chan[q]
    BY <1>4, SlotFacts, Zenon DEF sleep, TypeOK
  <2>2. PICK w \in SUBSET Slots : w = {}
    BY Zenon
  <2>3. /\ Stop(c, p, "SLEEPING", w) /\ \A q \in w : state[q] = "SLEEPING"
        /\ \A q \in Slots : snapticks'[q] = IF q \in w THEN ticks ELSE snapticks[q]
    BY <2>1, <2>2, Zenon
  <2> HIDE DEF IInv
  <2> QED
    BY <1>1, <1>4, <2>1, <2>3, StopFine, Zenon
<1>5. zombies # {} => FirstIn(zombies) \in Slots /\ state[FirstIn(zombies)] = "ZOMBIE"
  <2>1. zombies \in SUBSET Slots
    BY Zenon DEF Kids
  <2>2. zombies # {} => FirstIn(zombies) \in zombies
    BY <2>1, Zenon DEF FirstInFinds
  <2> QED
    BY <2>1, <2>2, Zenon
<1> HIDE DEF IInv
<1> QED
  BY <1>1, <1>2, <1>3, <1>4, <1>5, Zenon DEF waitScan

\* sys_sleep.
LEMMA NapFine ==
  ASSUME IInv, NEW c \in CPUS, NEW p \in Slots, NEW t, napLoop(c, p, t), state[p] = "RUNNING", ticks' = ticks
  PROVE  \A q \in Slots : Fine(q)
<1> USE DEF IInv, procs, times
<1>1. until' = [until EXCEPT ![p] = 0] \/ until' = [until EXCEPT ![p] = t]
  BY Zenon DEF napLoop
<1>2. \A q \in Slots : q # p => until'[q] = until[q]
  BY <1>1, Zenon DEF TypeOK
<1>3. CASE UNCHANGED <<procs, times>>
  BY <1>2, <1>3, Stays, Zenon
<1>4. CASE /\ ticks < t /\ ~killed[p] /\ sleep(c, p, TICKS) /\ until' = [until EXCEPT ![p] = t]
           /\ UNCHANGED <<killed, wtime>>
  <2>1. /\ Stop(c, p, "SLEEPING", {}) /\ snapticks' = snapticks /\ until'[p] = t
        /\ \A q \in Slots : q # p => chan'[q] = chan[q]
    BY <1>4, Zenon DEF sleep, TypeOK
  <2>2. killed[p] = FALSE
    BY <1>4, Types, Zenon
  <2>3. PICK w \in SUBSET Slots : w = {}
    BY Zenon
  <2>4. /\ Stop(c, p, "SLEEPING", w) /\ \A q \in w : state[q] = "SLEEPING"
        /\ \A q \in Slots : snapticks'[q] = IF q \in w THEN ticks ELSE snapticks[q]
    BY <2>1, <2>3, Zenon
  <2> HIDE DEF IInv
  <2> QED
    BY <1>2, <1>4, <2>1, <2>2, <2>4, StopFine, Zenon
<1> HIDE DEF IInv
<1> QED
  BY <1>3, <1>4, Zenon DEF napLoop

\* kill: the target is marked, and woken if it sleeps.
LEMMA KillFine ==
  ASSUME IInv, FirstInFinds, NEW c \in CPUS, NEW p \in Slots, NEW n \in 0..MaxPid, kill(c, p, n)
  PROVE  ticks' = ticks /\ \A q \in Slots : Fine(q)
<1> USE DEF IInv
<1> DEFINE targets == {q \in Slots : pid[q] = n}
<1>1. UNCHANGED <<chan, until, wtime, rutime, ticks>>
  BY Zenon DEF kill
<1>2. CASE targets = {}
  <2>1. UNCHANGED <<state, killed, snapticks>>
    BY <1>2, Zenon DEF kill
  <2> QED
    BY <1>1, <2>1, SameIsFine, Zenon DEF Same
<1>3. CASE targets # {}
  <2>1. PICK t \in Slots :
          /\ killed' = [killed EXCEPT ![t] = TRUE]
          /\ state' = [state EXCEPT ![t] = IF @ = "SLEEPING" THEN "RUNNABLE" ELSE @]
          /\ snapticks' = [snapticks EXCEPT ![t] = IF state[t] = "SLEEPING" THEN ticks ELSE @]
    <3> DEFINE t == FirstIn(targets)
    <3>1. t \in Slots
      BY <1>3, Zenon DEF FirstInFinds
    <3>2. /\ killed' = [killed EXCEPT ![t] = TRUE]
          /\ state' = [state EXCEPT ![t] = IF @ = "SLEEPING" THEN "RUNNABLE" ELSE @]
          /\ snapticks' = [snapticks EXCEPT ![t] = IF state[t] = "SLEEPING" THEN ticks ELSE @]
      BY <1>3, Zenon DEF kill
    <3> HIDE DEF t
    <3> QED
      BY <3>1, <3>2, Zenon
  <2>2. /\ killed'[t] = TRUE /\ state'[t] = IF state[t] = "SLEEPING" THEN "RUNNABLE" ELSE state[t]
        /\ snapticks'[t] = IF state[t] = "SLEEPING" THEN ticks ELSE snapticks[t]
        /\ \A q \in Slots : q # t => killed'[q] = killed[q] /\ state'[q] = state[q] /\ snapticks'[q] = snapticks[q]
    BY <2>1, Zenon DEF TypeOK
  <2>3. ASSUME NEW q \in Slots, q # t PROVE Fine(q)
    BY <1>1, <2>2, <2>3, SameIsFine, Zenon DEF Same
  <2>4. Fine(t)
    BY <1>1, <2>2, Zenon DEF Fine, Moves, Marks, Dozes
  <2> QED
    BY <1>1, <2>3, <2>4, Zenon
<1> QED
  BY <1>2, <1>3, Zenon

-----------------------------------------------------------------------------
\* The timer interrupt.
LEMMA TimerFine ==
  ASSUME IInv, NEW c \in CPUS, timer(c)
  PROVE  ticks' \in {ticks, ticks + 1} /\ \A q \in Slots : Fine(q)
<1> USE DEF IInv
<1> DEFINE p == cproc[c]
           woken == IF c = BootCpu THEN Sleepers(TICKS) ELSE {}
           yields == p # NULL /\ ~(p # NULL /\ killed[p] /\ pc[p] = "user") /\ GivesUp(p)
<1>1. /\ UNCHANGED <<killed, chan, until, wtime>> /\ lock = NoCpu
      /\ ticks' \in {ticks, ticks + 1} /\ (c # BootCpu => ticks' = ticks)
      /\ \A q \in Slots : state'[q] = IF q \in woken \/ (yields /\ q = p) THEN "RUNNABLE" ELSE state[q]
      /\ \A q \in Slots : snapticks'[q] = IF q \in woken \/ (yields /\ q = p) THEN ticks' ELSE snapticks[q]
      /\ rutime' = IF yields THEN [rutime EXCEPT ![p] = @ + (ticks' - snapticks[p])] ELSE rutime
  BY Zenon DEF timer
<1>2. /\ \A q \in Slots : q \in woken => state[q] = "SLEEPING"
      /\ c = BootCpu => \A q \in Slots : state[q] = "SLEEPING" /\ chan[q] = TICKS => q \in woken
  BY Zenon DEF Sleepers
<1>3. yields => p \in Slots /\ state[p] = "RUNNING"
  <2>1. lock # c /\ (p # NULL => p \in Slots)
    BY <1>1, ProcAssumption, Types, Zenon
  <2> QED
    BY <2>1, Zenon DEF RunningOnOneCpu
<1>4. \A q \in Slots : rutime'[q] = IF yields /\ q = p THEN rutime[q] + (ticks' - snapticks[q]) ELSE rutime[q]
  BY <1>1, <1>3, Zenon DEF TypeOK
<1> HIDE DEF woken, yields, p, IInv
<1>5. ASSUME NEW q \in Slots, q \in woken PROVE Fine(q)
  <2>1. state[q] = "SLEEPING" /\ state'[q] = "RUNNABLE" /\ snapticks'[q] = ticks' /\ rutime'[q] = rutime[q]
    BY <1>1, <1>2, <1>3, <1>4, <1>5, Zenon
  <2> QED
    BY <1>1, <2>1, Zenon DEF Fine, Moves, Marks, Dozes
<1>6. ASSUME NEW q \in Slots, q \notin woken, yields /\ q = p PROVE Fine(q)
  <2>1. /\ state[q] = "RUNNING" /\ state'[q] = "RUNNABLE" /\ snapticks'[q] = ticks'
        /\ rutime'[q] = rutime[q] + (ticks' - snapticks[q])
    BY <1>1, <1>3, <1>4, <1>6, Zenon
  <2> QED
    BY <1>1, <2>1, Zenon DEF Fine, Moves, Marks, Dozes
<1>7. ASSUME NEW q \in Slots, q \notin woken, ~(yields /\ q = p) PROVE Fine(q)
  <2>1. state'[q] = state[q] /\ snapticks'[q] = snapticks[q] /\ rutime'[q] = rutime[q]
    BY <1>1, <1>4, <1>7, Zenon
  <2>2. state[q] # "SLEEPING" \/ chan'[q] # TICKS \/ ticks' = ticks
    BY <1>1, <1>2, <1>7, Zenon
  <2> QED
    BY <1>1, <2>1, <2>2, Stays, Zenon
<1> QED
  BY <1>1, <1>5, <1>6, <1>7, Zenon

\* sched, the beginning of the scheduler's pass, and the release of ptable.lock.
LEMMA SwitchFine ==
  ASSUME IInv, NEW c \in CPUS, sched(c) \/ schedulerPass(c) \/ resume(c)
  PROVE  ticks' = ticks /\ \A q \in Slots : Fine(q)
<1> USE DEF IInv, procs, times, cpus, locals
<1>1. UNCHANGED <<state, killed, until, wtime, rutime, snapticks, ticks>>
  BY Zenon DEF sched, schedulerPass, resume
<1>2. ASSUME NEW q \in Slots PROVE chan'[q] = chan[q] \/ state[q] # "SLEEPING"
  <2>1. CASE sched(c) \/ schedulerPass(c)
    BY <2>1, Zenon DEF sched, schedulerPass
  <2>2. CASE resume(c)
    BY <2>2, Types, Zenon DEF resume
  <2> QED
    BY <2>1, <2>2, Zenon
<1>3. ASSUME NEW q \in Slots PROVE Fine(q)
  BY <1>1, <1>2, Stays, Zenon
<1> QED
  BY <1>1, <1>3, Zenon

\* scheduler: the wait of the process chosen is over.
LEMMA SchedulerFine ==
  ASSUME IInv, FirstInFinds, NEW c \in CPUS, scheduler(c)
  PROVE  ticks' = ticks /\ \A q \in Slots : Fine(q)
<1> USE DEF IInv, locals
<1>1. UNCHANGED <<killed, chan, until, rutime, ticks>>
  BY Zenon DEF scheduler
<1>2. CASE Ready(c) # {}
  <2>1. PICK p \in Slots :
          /\ state[p] = "RUNNABLE" /\ state' = [state EXCEPT ![p] = "RUNNING"]
          /\ wtime' = [wtime EXCEPT ![p] = @ + (ticks - snapticks[p])]
          /\ snapticks' = [snapticks EXCEPT ![p] = ticks]
    <3> DEFINE p == FirstIn(Ready(c))
    <3>1. p \in Slots /\ state[p] = "RUNNABLE"
      BY <1>2, Zenon DEF FirstInFinds, Ready
    <3>2. /\ state' = [state EXCEPT ![p] = "RUNNING"]
          /\ wtime' = [wtime EXCEPT ![p] = @ + (ticks - snapticks[p])]
          /\ snapticks' = [snapticks EXCEPT ![p] = ticks]
      BY <1>2, Zenon DEF scheduler
    <3> HIDE DEF p
    <3> QED
      BY <3>1, <3>2, Zenon
  <2>2. /\ state'[p] = "RUNNING" /\ wtime'[p] = wtime[p] + (ticks - snapticks[p]) /\ snapticks'[p] = ticks
        /\ \A q \in Slots : q # p => state'[q] = state[q] /\ wtime'[q] = wtime[q] /\ snapticks'[q] = snapticks[q]
    BY <2>1, Zenon DEF TypeOK
  <2>3. ASSUME NEW q \in Slots, q # p PROVE Fine(q)
    BY <1>1, <2>2, <2>3, SameIsFine, Zenon DEF Same
  <2>4. Fine(p)
    BY <1>1, <2>1, <2>2, Zenon DEF Fine, Moves, Marks, Dozes
  <2> QED
    BY <1>1, <2>3, <2>4, Zenon
<1>3. CASE Ready(c) = {}
  <2>1. UNCHANGED <<state, wtime, snapticks>>
    BY <1>3, Zenon DEF scheduler
  <2> QED
    BY <1>1, <2>1, SameIsFine, Zenon DEF Same
<1> QED
  BY <1>2, <1>3, Zenon

\* Every step of the kernel.
LEMMA NextFine ==
  ASSUME IInv, [Next \/ Halted]_vars
  PROVE  ticks' \in {ticks, ticks + 1} /\ \A q \in Slots : Fine(q)
<1>1. FirstInFinds
  BY FirstInIsFirst, Zenon DEF FirstInFinds
<1> DEFINE Goal == ticks' \in {ticks, ticks + 1} /\ \A q \in Slots : Fine(q)
<1>2. CASE UNCHANGED vars
  BY <1>2, SameIsFine, Zenon DEF vars, procs, times, locals, Same
<1>3. ASSUME NEW c \in CPUS, NEW p \in Slots, Step(c, p) PROVE Goal
  <2>1. ASSUME NEW l \in {"wait", "wait2"}, waitScan(c, p, l) PROVE Goal
    BY <1>1, <2>1, WaitFine, Zenon
  <2>2. ASSUME NEW n \in Naps, sys_sleep(c, p, n) PROVE Goal
    <3>1. state[p] = "RUNNING" /\ ticks' = ticks /\ napLoop(c, p, ticks + n)
      BY <2>2, AtIsRunning, Zenon DEF sys_sleep, At
    <3> QED
      BY <3>1, NapFine, Zenon
  <2>3. CASE sleepAgain(c, p)
    <3>1. state[p] = "RUNNING" /\ ticks' = ticks /\ napLoop(c, p, until[p])
      BY <2>3, AtIsRunning, Zenon DEF sleepAgain, At
    <3> QED
      BY <3>1, NapFine, Zenon
  <2>4. ASSUME NEW n \in 0..MaxPid, kill(c, p, n) PROVE Goal
    BY <1>1, <2>4, KillFine, Zenon
  <2>5. CASE allocproc(c, p)
    BY <1>1, <2>5, AllocFine, Zenon
  <2>6. CASE kallocStack(c, p) \/ forkCopy(c, p) \/ forkRunnable(c, p)
    BY <2>6, ForkFine, Zenon
  <2>7. CASE exit(c, p)
    BY <2>7, ExitFine, Zenon
  <2>8. CASE \/ exitInit(c, p) \/ sysExit(c, p) \/ sysReturn(c, p) \/ fault(c, p)
             \/ \E l \in {"wait", "wait2"} : waitEnter(c, p, l)
    BY <2>8, LocalFine, Zenon
  <2> QED
    BY <1>3, <2>1, <2>2, <2>3, <2>4, <2>5, <2>6, <2>7, <2>8, Zenon DEF Step
<1>4. ASSUME NEW c \in CPUS, timer(c) PROVE Goal
  BY <1>4, TimerFine, Zenon
<1>5. ASSUME NEW c \in CPUS, sched(c) \/ schedulerPass(c) \/ resume(c) PROVE Goal
  BY <1>5, SwitchFine, Zenon
<1>6. ASSUME NEW c \in CPUS, scheduler(c) PROVE Goal
  BY <1>1, <1>6, SchedulerFine, Zenon
<1> QED
  BY <1>2, <1>3, <1>4, <1>5, <1>6, Zenon DEF Next, Halted

-----------------------------------------------------------------------------
\* The histories are numbers and Booleans.
HistoryType ==
  /\ ran \in [Slots -> Int] /\ waited \in [Slots -> Int]
  /\ hit \in [Slots -> BOOLEAN] /\ stray \in [Slots -> BOOLEAN]

\* A mark on a free slot is a stray one.
StrayExact == \A p \in Slots : state[p] = "UNUSED" => killed[p] = stray[p]

TInv == HistoryType /\ TimesExact /\ KilledExact /\ StrayExact

\* A step keeps the histories numbers and Booleans.
LEMMA HistoryStep ==
  ASSUME HistoryType, IInv, IInv', Record
  PROVE  HistoryType'
<1>1. \A f \in [Slots -> Int] : \A p \in Slots : f[p] + 1 \in Int
  OBVIOUS
<1>2. killed \in [Slots -> BOOLEAN] /\ killed' \in [Slots -> BOOLEAN]
  BY Zenon DEF IInv, TypeOK
<1>a. 0 \in Int
  OBVIOUS
<1>3. ran' \in [Slots -> Int] /\ waited' \in [Slots -> Int]
  BY <1>1, <1>a, Zenon DEF Record, HistoryType
<1>4. hit' \in [Slots -> BOOLEAN] /\ stray' \in [Slots -> BOOLEAN]
  BY <1>2, Zenon DEF Record, HistoryType
<1> QED
  BY <1>3, <1>4, Zenon DEF HistoryType


\* TimesExact for one slot, with since the ticks after snapticks.
Exact(s, since, w, r, n, m) ==
  /\ s \in {"EMBRYO", "RUNNABLE"} => r = n /\ w + since = m
  /\ s = "RUNNING" => r + since = n /\ w = m
  /\ s \in {"SLEEPING", "ZOMBIE"} => r = n /\ w = m

\* The times stay exact: a tick counts for the state it finds the process in.
LEMMA TimesStep ==
  ASSUME IInv, IInv', HistoryType, HistoryType', TimesExact, Record,
         ticks' \in {ticks, ticks + 1}, NEW q \in Slots, Moves(q)
  PROVE  Exact(state'[q], ticks' - snapticks'[q], wtime'[q], rutime'[q], ran'[q], waited'[q])
<1>1. /\ ticks \in Int /\ snapticks[q] \in Int /\ wtime[q] \in Int /\ rutime[q] \in Int
      /\ ran[q] \in Int /\ waited[q] \in Int /\ ran'[q] \in Int /\ waited'[q] \in Int
      /\ snapticks'[q] \in Int /\ ticks' \in Int
  BY DEF IInv, TypeOK, HistoryType
<1>2. Exact(state[q], ticks - snapticks[q], wtime[q], rutime[q], ran[q], waited[q])
  BY Zenon DEF TimesExact, Exact
<1>3. CASE state'[q] = "UNUSED"
  BY <1>3, Zenon DEF Exact
<1>4. CASE /\ state[q] = "UNUSED" /\ state'[q] = "EMBRYO" /\ ticks' = ticks
           /\ wtime'[q] = 0 /\ rutime'[q] = 0 /\ snapticks'[q] = ticks
  <2>1. ran'[q] = 0 /\ waited'[q] = 0
    BY <1>4, Zenon DEF Record
  <2>2. ticks - ticks = 0 /\ 0 + 0 = 0
    BY <1>1
  <2> QED
    BY <1>4, <2>1, <2>2, Zenon DEF Exact
<1>5. CASE ~(state[q] = "UNUSED" /\ state'[q] = "EMBRYO") /\ state'[q] # "UNUSED"
  <2>1. /\ ran'[q] = IF ticks' # ticks /\ state[q] \in {"RUNNING"} THEN ran[q] + 1 ELSE ran[q]
        /\ waited'[q] = IF ticks' # ticks /\ state[q] \in {"EMBRYO", "RUNNABLE"} THEN waited[q] + 1 ELSE waited[q]
    BY <1>5, Zenon DEF Record
  <2>2. PICK s : s = state[q]
    BY Zenon
  <2>3. PICK t \in Int : t = ticks
    BY <1>1, Zenon
  <2>a. PICK t1 \in {t, t + 1} : t1 = ticks'
    BY <2>3, Zenon
  <2>4. PICK snap \in Int, w \in Int, r \in Int : snap = snapticks[q] /\ w = wtime[q] /\ r = rutime[q]
    BY <1>1, Zenon
  <2>5. PICK n \in Int, m \in Int, n1 \in Int, m1 \in Int :
           n = ran[q] /\ m = waited[q] /\ n1 = ran'[q] /\ m1 = waited'[q]
    BY <1>1, Zenon
  <2>6. /\ Exact(s, t - snap, w, r, n, m)
        /\ n1 = IF t1 # t /\ s \in {"RUNNING"} THEN n + 1 ELSE n
        /\ m1 = IF t1 # t /\ s \in {"EMBRYO", "RUNNABLE"} THEN m + 1 ELSE m
    BY <1>2, <2>1, <2>2, <2>3, <2>a, <2>4, <2>5, Zenon
  <2>7. /\ Exact(s, t1 - snap, w, r, n1, m1)
        /\ s = "EMBRYO" => Exact("RUNNABLE", t1 - snap, w, r, n1, m1)
        /\ s = "SLEEPING" => Exact("RUNNABLE", t1 - t1, w, r, n1, m1)
        /\ s = "RUNNABLE" /\ t1 = t => Exact("RUNNING", t - t, w + (t - snap), r, n1, m1)
        /\ s = "RUNNING" /\ t1 = t => /\ n1 = r + (t - snap) /\ m1 = w
        /\ s = "RUNNING" => Exact("RUNNABLE", t1 - t1, w, r + (t1 - snap), n1, m1)
    BY <2>6 DEF Exact
  <2>8. /\ Exact(state[q], ticks' - snapticks[q], wtime[q], rutime[q], ran'[q], waited'[q])
        /\ state[q] = "EMBRYO" => Exact("RUNNABLE", ticks' - snapticks[q], wtime[q], rutime[q], ran'[q], waited'[q])
        /\ state[q] = "SLEEPING" => Exact("RUNNABLE", ticks' - ticks', wtime[q], rutime[q], ran'[q], waited'[q])
        /\ state[q] = "RUNNABLE" /\ ticks' = ticks =>
             Exact("RUNNING", ticks - ticks, wtime[q] + (ticks - snapticks[q]), rutime[q], ran'[q], waited'[q])
        /\ state[q] = "RUNNING" /\ ticks' = ticks =>
             ran'[q] = rutime[q] + (ticks - snapticks[q]) /\ waited'[q] = wtime[q]
        /\ state[q] = "RUNNING" =>
             Exact("RUNNABLE", ticks' - ticks', wtime[q], rutime[q] + (ticks' - snapticks[q]), ran'[q], waited'[q])
    BY <2>2, <2>3, <2>a, <2>4, <2>5, <2>7, Zenon
  <2>9. CASE /\ state[q] = "RUNNING" /\ state'[q] \in {"SLEEPING", "ZOMBIE"} /\ ticks' = ticks
             /\ wtime'[q] = wtime[q] /\ rutime'[q] = rutime[q] + (ticks - snapticks[q])
    BY <2>8, <2>9, Zenon DEF Exact
  <2> QED
    BY <1>5, <2>8, <2>9, Zenon DEF Moves
<1> QED
  BY <1>3, <1>4, <1>5, Zenon DEF Moves

\* The marks stay exact: wait takes the mark with the process, and nothing else takes one.
LEMMA MarksStep ==
  ASSUME IInv, IInv', HistoryType, KilledExact, StrayExact, Record, NEW q \in Slots, Moves(q), Marks(q)
  PROVE  /\ state'[q] # "UNUSED" => killed'[q] = (hit'[q] \/ stray'[q])
         /\ state'[q] = "UNUSED" => killed'[q] = stray'[q]
<1>1. /\ killed[q] \in BOOLEAN /\ killed'[q] \in BOOLEAN /\ hit[q] \in BOOLEAN /\ stray[q] \in BOOLEAN
  BY Zenon DEF IInv, TypeOK, HistoryType
<1>2. /\ state[q] # "UNUSED" => (killed[q] <=> hit[q] \/ stray[q])
      /\ state[q] = "UNUSED" => (killed[q] <=> stray[q])
  BY <1>1, Zenon DEF KilledExact, StrayExact
<1>3. /\ hit'[q] <=> /\ ~(state[q] = "UNUSED" /\ state'[q] = "EMBRYO")
                     /\ hit[q] \/ (state[q] # "UNUSED" /\ ~killed[q] /\ killed'[q])
      /\ state[q] = "UNUSED" => (stray'[q] <=> stray[q] \/ (~killed[q] /\ killed'[q]))
      /\ state[q] # "UNUSED" /\ state'[q] = "UNUSED" =>
           (stray'[q] <=> state[q] # "ZOMBIE" /\ (hit[q] \/ stray[q]))
      /\ state[q] # "UNUSED" /\ state'[q] # "UNUSED" => (stray'[q] <=> stray[q])
  BY Zenon DEF Record
<1>4. state[q] = "UNUSED" /\ state'[q] # "UNUSED" => state'[q] = "EMBRYO"
  BY Zenon DEF Moves
<1>5. hit'[q] \in BOOLEAN /\ stray'[q] \in BOOLEAN
  BY <1>1, Zenon DEF Record
<1>6. /\ state'[q] # "UNUSED" => (killed'[q] <=> hit'[q] \/ stray'[q])
      /\ state'[q] = "UNUSED" => (killed'[q] <=> stray'[q])
  BY <1>2, <1>3, <1>4, Zenon DEF Marks
<1> QED
  BY <1>1, <1>5, <1>6, Zenon

\* A step of the histories keeps them exact.
LEMMA TStep ==
  ASSUME IInv, IInv', TInv, Next \/ Halted, Record
  PROVE  TInv'
<1>1. ticks' \in {ticks, ticks + 1} /\ \A q \in Slots : Fine(q)
  BY NextFine, Zenon
<1>2. HistoryType'
  BY HistoryStep, Zenon DEF TInv
<1>3. \A q \in Slots : Exact(state'[q], ticks' - snapticks'[q], wtime'[q], rutime'[q], ran'[q], waited'[q])
  BY <1>1, <1>2, TimesStep, Zenon DEF TInv, Fine
<1>4. TimesExact'
  BY <1>3, Zenon DEF TimesExact, Exact
<1>5. \A q \in Slots : /\ state'[q] # "UNUSED" => killed'[q] = (hit'[q] \/ stray'[q])
                       /\ state'[q] = "UNUSED" => killed'[q] = stray'[q]
  BY <1>1, MarksStep, Zenon DEF TInv, Fine
<1> QED
  BY <1>2, <1>4, <1>5, Zenon DEF TInv, KilledExact, StrayExact

\* They are exact at the start: only init's slot is in use, at tick 0.
LEMMA TInitInv == TInit => TInv
<1> SUFFICES ASSUME TInit PROVE TInv
  OBVIOUS
<1>0. 0 \in Int
  OBVIOUS
<1>1. HistoryType
  BY <1>0, Zenon DEF TInit, HistoryType
<1>2. ASSUME NEW p \in Slots PROVE ran[p] = 0 /\ waited[p] = 0 /\ ~hit[p] /\ ~stray[p]
  BY <1>2, Zenon DEF TInit
<1>3. ASSUME NEW p \in Slots
      PROVE  wtime[p] = 0 /\ rutime[p] = 0 /\ killed[p] = FALSE /\ ticks - snapticks[p] = 0
  BY <1>3 DEF TInit, Init
<1>4. 0 + 0 = 0
  OBVIOUS
<1>5. TimesExact
  BY <1>2, <1>3, <1>4, Zenon DEF TimesExact
<1>6. KilledExact /\ StrayExact
  <2> SUFFICES ASSUME NEW p \in Slots PROVE killed[p] = (hit[p] \/ stray[p]) /\ killed[p] = stray[p]
    BY Zenon DEF KilledExact, StrayExact
  <2>1. stray[p] \in BOOLEAN
    BY <1>1, Zenon DEF HistoryType
  <2> QED
    BY <1>2, <1>3, <2>1, Zenon
<1> QED
  BY <1>1, <1>5, <1>6, Zenon DEF TInv

\* The histories only watch: with them the process table behaves as without.
LEMMA HistoriesWatch == TSpec => Spec
<1>1. TInit => Init
  BY Zenon DEF TInit
<1>2. [(Next \/ Halted) /\ Record]_tvars => [Next \/ Halted]_vars
  BY Zenon DEF tvars
<1> QED
  BY <1>1, <1>2, PTL DEF TSpec, Spec

\* The histories are exact in every reachable state.
LEMMA HistoriesExact == TSpec => []TInv
<1>1. IInv /\ IInv' /\ TInv /\ [(Next \/ Halted) /\ Record]_tvars => TInv'
  <2>1. ASSUME TInv, UNCHANGED tvars PROVE TInv'
    <3>1. UNCHANGED vars /\ UNCHANGED <<ran, waited, hit, stray>>
      BY <2>1, Zenon DEF tvars
    <3>2. UNCHANGED <<state, ticks, snapticks, wtime, rutime, killed>>
      BY <3>1, Zenon DEF vars, procs, times
    <3> QED
      BY <2>1, <3>1, <3>2 DEF TInv, HistoryType, TimesExact, KilledExact, StrayExact
  <2> QED
    BY <2>1, TStep, Zenon
<1> QED
  BY <1>1, TInitInv, HistoriesWatch, Inductive, PTL DEF TSpec

\* scheduler, yield, sleep, wakeup1, kill and exit together: the run and wait times
\* that wait2 reports are the ticks the process ran and waited.
THEOREM TimesAreExact == TSpec => []TimesExact
<1>1. TInv => TimesExact
  BY Zenon DEF TInv
<1> QED
  BY <1>1, HistoriesExact, PTL

\* kill and wait: a process is marked killed just when something marked it, or its
\* slot before it.
THEOREM KillsAreExact == TSpec => []KilledExact
<1>1. TInv => KilledExact
  BY Zenon DEF TInv
<1> QED
  BY <1>1, HistoriesExact, PTL

\* sys_sleep and the timer: whoever sleeps on ticks has time left and is not killed.
THEOREM SleepersWoken == Spec => []NoOversleep
<1>1. Init => NoOversleep
  BY Zenon DEF Init, NoOversleep
<1>2. IInv /\ NoOversleep /\ [Next \/ Halted]_vars => NoOversleep'
  <2> SUFFICES ASSUME IInv, NoOversleep, [Next \/ Halted]_vars PROVE NoOversleep'
    OBVIOUS
  <2>1. \A q \in Slots : Dozes(q)
    BY NextFine, Zenon DEF Fine
  <2> QED
    BY <2>1, Zenon DEF NoOversleep, Dozes
<1> QED
  BY <1>1, <1>2, Inductive, PTL DEF Spec
=============================================================================
