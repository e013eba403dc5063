----------------------------- MODULE SleepLock -----------------------------
(***************************************************************************)
(* A sleep lock (src/lab6/lab6/sleeplock.c) in all its detail: the spin    *)
(* lock inside it and ptable.lock (spinlock.c), with pushcli/popcli, the   *)
(* interrupt flag, ncli and intena of each CPU; sleep, wakeup, yield and   *)
(* sched; the scheduler; and a timer interrupt wherever interrupts are on. *)
(* Every process acquires and releases the one sleep lock for ever.        *)
(*                                                                         *)
(* The scheduler's choice of the next RUNNABLE process is left open here;  *)
(* Proc models its scan of the table.                                      *)
(***************************************************************************)
EXTENDS Integers, FiniteSets

CONSTANTS Procs, CPUS, NoProc, NoCpu

VARIABLES
  holder,               \* the CPU that holds each spin lock
  ifl, ncli, intena,    \* per CPU: FL_IF, and struct cpu's ncli and intena
  cproc, sch,           \* per CPU: struct cpu's proc, and scheduler()'s label
  state, chan,          \* per process: state, and whether chan is the sleep lock
  pc, back,             \* label, and the label a timer interrupt returns to
  saved,                \* sched's local intena
  locked, owner,        \* struct sleeplock: locked and pid
  panicked

cpu == <<ifl, ncli, intena>>
vars == <<holder, cpu, cproc, sch, state, chan, pc, back, saved, locked, owner, panicked>>

Spinlocks == {"ptable", "lk"}
None == "none"

\* Where interrupts are on: no spin lock is held or about to be taken.
OpenLabels == {"out", "want", "in", "leave"}

Labels == OpenLabels \cup
  {"spin", "test", "got", "sleep", "sleepSpin", "sleepRelease", "sleepSet",
   "sleepSched", "slept", "leaveSpin", "unlock", "wakeup", "wakeSpin", "wake",
   "done", "yield", "yieldSpin", "yieldSet", "yieldSched", "yielded", "iret",
   "forkret", "trapret"}

\* Every process is new, every CPU enters scheduler().
Init ==
  /\ holder = [l \in Spinlocks |-> NoCpu]
  /\ ifl = [c \in CPUS |-> FALSE]
  /\ ncli = [c \in CPUS |-> 0]
  /\ intena = [c \in CPUS |-> FALSE]
  /\ cproc = [c \in CPUS |-> NoProc]
  /\ sch = [c \in CPUS |-> "sti"]
  /\ state = [p \in Procs |-> "RUNNABLE"]
  /\ chan = [p \in Procs |-> FALSE]
  /\ pc = [p \in Procs |-> "forkret"]
  /\ back = [p \in Procs |-> None]
  /\ saved = [p \in Procs |-> FALSE]
  /\ locked = FALSE /\ owner = NoProc
  /\ panicked = FALSE

-----------------------------------------------------------------------------
\* pushcli().
pushcli(c) ==
  /\ ifl' = [ifl EXCEPT ![c] = FALSE]
  /\ intena' = [intena EXCEPT ![c] = IF ncli[c] = 0 THEN ifl[c] ELSE @]
  /\ ncli' = [ncli EXCEPT ![c] = @ + 1]

\* Mutant: popcli turns interrupts on whatever intena says.
Enabled_Always(c) == ncli[c] = 1

\* popcli: the last popcli turns interrupts on if they were on before.
Enabled(c) == ncli[c] = 1 /\ intena[c]

\* Mutant: release() without popcli's count.
release_NoPop(c, l) ==
  /\ panicked' = (holder[l] # c \/ ifl[c] \/ ncli[c] = 0)
  /\ holder' = [holder EXCEPT ![l] = NoCpu]
  /\ ifl' = [ifl EXCEPT ![c] = @ \/ Enabled(c)]
  /\ UNCHANGED <<intena, ncli>>

\* release(l), with popcli: either of its panics, or the lock is free.
release(c, l) ==
  /\ panicked' = (holder[l] # c \/ ifl[c] \/ ncli[c] = 0)
  /\ holder' = [holder EXCEPT ![l] = NoCpu]
  /\ ncli' = [ncli EXCEPT ![c] = @ - 1]
  /\ ifl' = [ifl EXCEPT ![c] = @ \/ Enabled(c)]
  /\ UNCHANGED intena

Move(p, from, to) == pc[p] = from /\ pc' = [pc EXCEPT ![p] = to]

\* acquire(l): pushcli and the test of holding(), then the spin.
acquire(c, p, l, from, spin, to) ==
  /\ \/ /\ Move(p, from, spin)
        /\ pushcli(c)
        /\ panicked' = (holder[l] = c)
        /\ UNCHANGED holder
     \/ /\ Move(p, spin, to)
        /\ holder[l] = NoCpu
        /\ holder' = [holder EXCEPT ![l] = c]
        /\ UNCHANGED <<cpu, panicked>>
  /\ UNCHANGED <<cproc, sch, state, chan, back, saved, locked, owner>>

\* A system call comes to acquiresleep, or to releasesleep.
enter(c, p) ==
  /\ Move(p, "out", "want") \/ Move(p, "in", "leave")
  /\ UNCHANGED <<holder, cpu, cproc, sch, state, chan, back, saved, locked, owner, panicked>>

\* Mutant: acquiresleep steals the lock of a process that is not running.
test_Steal(c, p) ==
  /\ \/ /\ locked /\ state[owner] = "RUNNING"
        /\ Move(p, "test", "sleep") /\ UNCHANGED <<locked, owner>>
     \/ /\ ~(locked /\ state[owner] = "RUNNING")
        /\ Move(p, "test", "got") /\ locked' = TRUE /\ owner' = p
  /\ UNCHANGED <<holder, cpu, cproc, sch, state, chan, back, saved, panicked>>

\* acquiresleep holds lk->lk and tests locked.
test(c, p) ==
  /\ \/ locked /\ Move(p, "test", "sleep") /\ UNCHANGED <<locked, owner>>
     \/ ~locked /\ Move(p, "test", "got") /\ locked' = TRUE /\ owner' = p
  /\ UNCHANGED <<holder, cpu, cproc, sch, state, chan, back, saved, panicked>>

\* acquiresleep, releasesleep: release(&lk->lk) and return.
leave(c, p) ==
  /\ Move(p, "got", "in") \/ Move(p, "done", "out")
  /\ release(c, "lk")
  /\ UNCHANGED <<cproc, sch, state, chan, back, saved, locked, owner>>

\* sleep(): with ptable.lock, release lk, ...
sleepRelease(c, p) ==
  /\ Move(p, "sleepRelease", "sleepSet")
  /\ release(c, "lk")
  /\ UNCHANGED <<cproc, sch, state, chan, back, saved, locked, owner>>

\* ... set chan and state, and go to sched(); yield() sets the state only.
stop(c, p) ==
  /\ \/ /\ Move(p, "sleepSet", "sleepSched")
        /\ chan' = [chan EXCEPT ![p] = TRUE]
        /\ state' = [state EXCEPT ![p] = "SLEEPING"]
     \/ /\ Move(p, "yieldSet", "yieldSched")
        /\ state' = [state EXCEPT ![p] = "RUNNABLE"]
        /\ UNCHANGED chan
  /\ UNCHANGED <<holder, cpu, cproc, sch, back, saved, locked, owner, panicked>>

\* sched(): the four panics; save intena; switch to the scheduler of this CPU.
sched(c, p) ==
  /\ Move(p, "sleepSched", "slept") \/ Move(p, "yieldSched", "yielded")
  /\ panicked' = (holder["ptable"] # c \/ ncli[c] # 1 \/ state[p] = "RUNNING" \/ ifl[c])
  /\ saved' = [saved EXCEPT ![p] = intena[c]]
  /\ cproc' = [cproc EXCEPT ![c] = NoProc]
  /\ sch' = [sch EXCEPT ![c] = "scan"]
  /\ UNCHANGED <<holder, cpu, state, chan, back, locked, owner>>

\* Back from sched() in sleep(), in yield(), or new in forkret(): release
\* ptable.lock.  sleep() then acquires lk again and acquiresleep tests again.
resumed(c, p) ==
  /\ \/ Move(p, "slept", "want") /\ chan' = [chan EXCEPT ![p] = FALSE]
     \/ Move(p, "yielded", "iret") /\ UNCHANGED chan
     \/ Move(p, "forkret", "trapret") /\ UNCHANGED chan
  /\ release(c, "ptable")
  /\ UNCHANGED <<cproc, sch, state, back, saved, locked, owner>>

\* releasesleep: the lock is free, the sleepers still sleep.
unlock(c, p) ==
  /\ Move(p, "unlock", "wakeup")
  /\ locked' = FALSE /\ owner' = NoProc
  /\ UNCHANGED <<holder, cpu, cproc, sch, state, chan, back, saved, panicked>>

\* Mutant: wakeup1 wakes one sleeper only.
wakeup_One(c, p) ==
  /\ Move(p, "wake", "done")
  /\ LET sleepers == {q \in Procs : state[q] = "SLEEPING" /\ chan[q]}
         one == CHOOSE q \in sleepers : TRUE
     IN state' = IF sleepers = {} THEN state ELSE [state EXCEPT ![one] = "RUNNABLE"]
  /\ release(c, "ptable")
  /\ UNCHANGED <<cproc, sch, chan, back, saved, locked, owner>>

\* wakeup(lk), with ptable.lock: wakeup1 and release.
wakeup(c, p) ==
  /\ Move(p, "wake", "done")
  /\ state' = [q \in Procs |->
                 IF state[q] = "SLEEPING" /\ chan[q] THEN "RUNNABLE" ELSE state[q]]
  /\ release(c, "ptable")
  /\ UNCHANGED <<cproc, sch, chan, back, saved, locked, owner>>

\* The timer interrupt: the gate clears FL_IF, trap() calls yield().
timer(c, p) ==
  /\ ifl[c] /\ back[p] = None
  /\ ifl' = [ifl EXCEPT ![c] = FALSE]
  /\ back' = [back EXCEPT ![p] = pc[p]]
  /\ pc' = [pc EXCEPT ![p] = "yield"]
  /\ UNCHANGED <<holder, ncli, intena, cproc, sch, state, chan, saved, locked, owner, panicked>>

\* trapret's iret, from the interrupt or of a new process to user space, restores
\* FL_IF.
iret(c, p) ==
  /\ \/ /\ pc[p] = "iret"
        /\ pc' = [pc EXCEPT ![p] = back[p]]
        /\ back' = [back EXCEPT ![p] = None]
     \/ Move(p, "trapret", "out") /\ UNCHANGED back
  /\ ifl' = [ifl EXCEPT ![c] = TRUE]
  /\ UNCHANGED <<holder, ncli, intena, cproc, sch, state, chan, saved, locked, owner, panicked>>

\* kill() makes a sleeping process RUNNABLE though the lock is not free.
kill(p) ==
  /\ holder["ptable"] = NoCpu
  /\ state[p] = "SLEEPING"
  /\ state' = [state EXCEPT ![p] = "RUNNABLE"]
  /\ UNCHANGED <<holder, cpu, cproc, sch, chan, pc, back, saved, locked, owner, panicked>>

-----------------------------------------------------------------------------
\* scheduler(): sti(), acquire(&ptable.lock).
schedulerAcquire(c) ==
  /\ \/ /\ sch[c] = "sti"
        /\ ifl' = [ifl EXCEPT ![c] = TRUE]
        /\ sch' = [sch EXCEPT ![c] = "acquire"]
        /\ UNCHANGED <<holder, ncli, intena, panicked>>
     \/ /\ sch[c] = "acquire"
        /\ pushcli(c)
        /\ panicked' = (holder["ptable"] = c)
        /\ sch' = [sch EXCEPT ![c] = "spin"]
        /\ UNCHANGED holder
     \/ /\ sch[c] = "spin" /\ holder["ptable"] = NoCpu
        /\ holder' = [holder EXCEPT !["ptable"] = c]
        /\ sch' = [sch EXCEPT ![c] = "scan"]
        /\ UNCHANGED <<cpu, panicked>>
  /\ UNCHANGED <<cproc, state, chan, pc, back, saved, locked, owner>>

\* scheduler(): switch to a RUNNABLE process, which restores its intena if it
\* comes back from sched().
dispatch(c, p) ==
  /\ sch[c] = "scan" /\ state[p] = "RUNNABLE"
  /\ cproc' = [cproc EXCEPT ![c] = p]
  /\ state' = [state EXCEPT ![p] = "RUNNING"]
  /\ sch' = [sch EXCEPT ![c] = "swtch"]
  /\ intena' = [intena EXCEPT ![c] = IF pc[p] = "forkret" THEN @ ELSE saved[p]]
  /\ UNCHANGED <<holder, ifl, ncli, chan, pc, back, saved, locked, owner, panicked>>

\* scheduler(): the pass over the table ends.
schedulerRelease(c) ==
  /\ sch[c] = "scan"
  /\ release(c, "ptable")
  /\ sch' = [sch EXCEPT ![c] = "sti"]
  /\ UNCHANGED <<cproc, state, chan, pc, back, saved, locked, owner>>

-----------------------------------------------------------------------------
\* The steps of process p on CPU c.
Run(c, p) ==
  /\ cproc[c] = p
  /\ \/ enter(c, p) \/ test(c, p) \/ leave(c, p) \/ unlock(c, p) \/ wakeup(c, p)
     \/ acquire(c, p, "lk", "want", "spin", "test")
     \/ acquire(c, p, "lk", "leave", "leaveSpin", "unlock")
     \/ acquire(c, p, "ptable", "sleep", "sleepSpin", "sleepRelease")
     \/ acquire(c, p, "ptable", "wakeup", "wakeSpin", "wake")
     \/ acquire(c, p, "ptable", "yield", "yieldSpin", "yieldSet")
     \/ sleepRelease(c, p) \/ stop(c, p) \/ sched(c, p) \/ resumed(c, p) \/ iret(c, p)

Next ==
  /\ ~panicked
  /\ \/ \E c \in CPUS, p \in Procs :
          \/ Run(c, p)
          \/ cproc[c] = p /\ timer(c, p)
          \/ dispatch(c, p)
     \/ \E c \in CPUS : schedulerAcquire(c) \/ schedulerRelease(c)
     \/ \E p \in Procs : kill(p)

Spec == Init /\ [][Next]_vars

-----------------------------------------------------------------------------
\* None of the panics of acquire, release, popcli and sched is reached: sleep()
\* and yield() come to sched() holding exactly ptable.lock, interrupts off.
NoPanic == ~panicked

\* The kernel's invariant about interrupts: a running process has them on exactly
\* when it neither holds nor waits for a spin lock and is not in a handler, though
\* the CPU's intena was overwritten by other processes while it was switched out
\* (sched saves and restores it) and it may have moved to another CPU.  Only a new
\* process between forkret and user space has whatever it finds.
InterruptsRestored ==
  \A c \in CPUS : cproc[c] # NoProc /\ pc[cproc[c]] # "trapret" =>
    (ifl[c] <=> pc[cproc[c]] \in OpenLabels)

\* The labels at which a process holds the sleep lock.
HoldLabels == {"got", "in", "leave", "leaveSpin", "unlock"}

\* The holders of module Mutex, which the sleep lock implements.
Holders == {p \in Procs : pc[p] \in HoldLabels \/ back[p] \in HoldLabels}

\* No wakeup is lost: while a process sleeps on the lock, the lock is held or its
\* last holder has still to call wakeup1 (sleep() holds ptable.lock before it
\* lets go of lk).
NoLostWakeup ==
  \A p \in Procs : state[p] = "SLEEPING" =>
    \/ locked
    \/ \E q \in Procs : pc[q] \in {"wakeup", "wakeSpin", "wake"}
=============================================================================
