------------------------------ MODULE Preempt ------------------------------
(***************************************************************************)
(* Who gives up the CPU on a clock tick.  Both lab 6 kernels let a process *)
(* with an even pid keep the CPU unless its rutime is even and not zero    *)
(* (trap.c).  They differ in how rutime grows: src/lab6/lab6 adds up the   *)
(* ticks since snapticks when a process stops running, while               *)
(* src/lab6/200050086_lab6 counts every tick in updateTable().             *)
(*                                                                         *)
(* One CPU.  Process p has pid p, runs for ever, and may sleep and be      *)
(* woken.  Tick counts grow without bound, so a count is represented by    *)
(* what the condition tells apart: 0 for zero, 1 for odd, 2 for even and   *)
(* not zero.  Unlike a bound this loses nothing: Plus is exact.            *)
(***************************************************************************)
EXTENDS Integers, FiniteSets

CONSTANT NPROC

Slots == 1..NPROC
Count == {0, 1, 2}

VARIABLES state,    \* struct proc
          rutime,   \* struct proc, as a Count
          since,    \* ticks - snapticks, as a Count
          running,  \* struct cpu: proc, 0 in the scheduler
          scan,     \* the scheduler's loop variable
          waits     \* history: ticks others have run while a process was RUNNABLE

kernel == <<state, rutime, since, running, scan>>
vars == <<kernel, waits>>

Plus(a, b) == IF a = 0 THEN b ELSE IF b = 0 THEN a ELSE IF a = b THEN 2 ELSE 1

Init ==
  /\ state = [p \in Slots |-> "RUNNABLE"]
  /\ rutime = [p \in Slots |-> 0]
  /\ since = [p \in Slots |-> 0]
  /\ running = 0
  /\ scan = 1
  /\ waits = [p \in Slots |-> 0]

\* trap.c's condition, for the process whose rutime is r.
GivesUp(p, r) == p # 0 /\ (p % 2 # 0 \/ r = 2)

\* yield(), as far as the scheduler sees it, or nothing.
YieldIf(yields) ==
  IF yields
  THEN /\ state' = [state EXCEPT ![running] = "RUNNABLE"]
       /\ running' = 0 /\ scan' = running + 1
  ELSE UNCHANGED <<state, running, scan>>

\* The rutime of the running process, in the map f.
Own(f) == IF running = 0 THEN 0 ELSE f[running]

\* The timer interrupt of src/lab6/lab6: trap() tests rutime before yield() adds
\* the ticks since snapticks to it.
timer ==
  LET yields == GivesUp(running, Own(rutime))
      now == [p \in Slots |-> Plus(since[p], 1)]
  IN
  /\ rutime' = IF yields THEN [rutime EXCEPT ![running] = Plus(@, now[running])] ELSE rutime
  /\ since' = IF yields THEN [now EXCEPT ![running] = 0] ELSE now
  /\ YieldIf(yields)

\* Mutant: the tick is not counted.
updateTable_Not == rutime

\* updateTable(): the tick counts for the running process.
updateTable == IF running = 0 THEN rutime ELSE [rutime EXCEPT ![running] = Plus(@, 1)]

\* The timer interrupt of src/lab6/200050086_lab6: updateTable() before the test.
timerUpdateTable ==
  /\ rutime' = updateTable
  /\ YieldIf(GivesUp(running, Own(updateTable)))
  /\ UNCHANGED since

\* scheduler(): the next RUNNABLE process of the pass, or a new pass.
scheduler ==
  /\ running = 0
  /\ LET ready == {p \in Slots : p >= scan /\ state[p] = "RUNNABLE"} IN
     IF ready = {}
     THEN scan' = 1 /\ UNCHANGED <<state, since, running>>
     ELSE LET p == CHOOSE p \in ready : \A q \in ready : p <= q IN
          /\ running' = p
          /\ state' = [state EXCEPT ![p] = "RUNNING"]
          /\ since' = [since EXCEPT ![p] = 0]
          /\ UNCHANGED scan
  /\ UNCHANGED rutime

\* The running process sleeps; src/lab6/lab6 adds the ticks since snapticks.
sleep(add) ==
  /\ running # 0
  /\ state' = [state EXCEPT ![running] = "SLEEPING"]
  /\ rutime' = IF add THEN [rutime EXCEPT ![running] = Plus(@, since[running])] ELSE rutime
  /\ running' = 0 /\ scan' = running + 1
  /\ UNCHANGED since

wakeup(p) ==
  /\ state[p] = "SLEEPING"
  /\ state' = [state EXCEPT ![p] = "RUNNABLE"]
  /\ since' = [since EXCEPT ![p] = 0]
  /\ UNCHANGED <<rutime, running, scan>>

Common == scheduler \/ \E p \in Slots : wakeup(p)

\* The clock keeps ticking and the scheduler keeps going; no process has to sleep.
Spec ==
  /\ Init /\ [][(timer \/ sleep(TRUE) \/ Common) /\ UNCHANGED waits]_vars
  /\ WF_kernel(timer) /\ WF_kernel(scheduler)

\* trap.c: "Force process to give up CPU on clock tick": every process that can run
\* gets to run, however much the others compute.
EveryRunnableRuns == \A p \in Slots : state[p] = "RUNNABLE" ~> state[p] = "RUNNING"

\* How long p has to wait: one tick for every other process, two for one with an even pid.
Longest(p) == Cardinality(Slots \ {p}) + Cardinality({q \in Slots \ {p} : q % 2 = 0})

\* The history, up to one more than it should be.
Watch(tick) ==
  waits' = [p \in Slots |->
    IF state[p] # "RUNNABLE" \/ state'[p] # "RUNNABLE" THEN 0
    ELSE IF tick /\ running # 0 /\ waits[p] <= Longest(p) THEN waits[p] + 1 ELSE waits[p]]

NextUpdateTable ==
  \/ timerUpdateTable /\ Watch(TRUE)
  \/ (sleep(FALSE) \/ Common) /\ Watch(FALSE)

\* The same for the kernel with updateTable(), and how soon: whatever the others do, a
\* RUNNABLE process waits for one turn of each of them, and a turn is at most two ticks.
WaitBounded == \A p \in Slots : waits[p] <= Longest(p)
=============================================================================
