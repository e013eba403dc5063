-------------------------- MODULE SleepLockProofs ---------------------------
(***************************************************************************)
(* SleepLock, for any number of processes and CPUs: its inductive          *)
(* invariant and that every step preserves it, so no panic is reached,     *)
(* interrupts are restored, no wakeup is lost, and the sleep lock is a     *)
(* mutual exclusion lock.                                                  *)
(***************************************************************************)
EXTENDS SleepLock, TLAPS

\* NoProc is no process, NoCpu no CPU.
LockConstants == NoProc \notin Procs /\ NoCpu \notin CPUS

\* What a CPU is doing: the label of its process, or of its scheduler.
At(c) == IF cproc[c] = NoProc THEN sch[c] ELSE pc[cproc[c]]

SchLabels == {"sti", "acquire", "spin", "scan", "swtch"}

\* The labels of a process that is switched out.
Off == {"slept", "yielded", "forkret"}
\* ... that is about to be.
Stopped == {"sleepSched", "yieldSched"}
\* ... in the timer interrupt.
Handler == {"yield", "yieldSpin", "yieldSet", "yieldSched", "yielded", "iret"}
\* Where a CPU holds ptable.lock, and where it holds lk.
Ptable == {"scan", "sleepRelease", "sleepSet", "sleepSched", "slept", "wake",
           "yieldSet", "yieldSched", "yielded", "forkret"}
Lk == {"test", "got", "sleep", "sleepSpin", "sleepRelease", "unlock", "wakeup",
       "wakeSpin", "wake", "done"}
\* Where it has called pushcli twice, and where not at all.
Twice == {"sleepSpin", "sleepRelease", "wakeSpin", "wake"}
Never == OpenLabels \cup {"yield", "iret", "trapret", "sti", "acquire"}
\* Where a holder that has given the lock up has still to call wakeup1.
Waking == {"wakeup", "wakeSpin", "wake"}

Types ==
  /\ holder \in [Spinlocks -> CPUS \cup {NoCpu}]
  /\ ifl \in [CPUS -> BOOLEAN] /\ intena \in [CPUS -> BOOLEAN] /\ ncli \in [CPUS -> Int]
  /\ cproc \in [CPUS -> Procs \cup {NoProc}] /\ sch \in [CPUS -> SchLabels]
  /\ state \in [Procs -> {"RUNNABLE", "RUNNING", "SLEEPING"}]
  /\ chan \in [Procs -> BOOLEAN] /\ saved \in [Procs -> BOOLEAN]
  /\ pc \in [Procs -> Labels] /\ back \in [Procs -> OpenLabels \cup {"trapret", None}]
  /\ locked \in BOOLEAN
  /\ ~panicked

\* The CPUs and their processes.
Placed ==
  /\ \A c, d \in CPUS : cproc[c] = cproc[d] /\ cproc[c] # NoProc => c = d
  /\ \A c \in CPUS : sch[c] = "swtch" <=> cproc[c] # NoProc
  /\ \A p \in Procs : pc[p] \in Off \/ \E c \in CPUS : cproc[c] = p
  /\ \A c \in CPUS : cproc[c] # NoProc =>
       (state[cproc[c]] = "RUNNING" <=> pc[cproc[c]] \notin Stopped)

\* The locks and the interrupts of CPU c follow from what it does.
Held(c) ==
  /\ holder["ptable"] = c <=> At(c) \in Ptable
  /\ holder["lk"] = c <=> At(c) \in Lk
Depth(c) ==
  ncli[c] = IF At(c) \in Twice THEN 2 ELSE IF At(c) \in Never THEN 0 ELSE 1
Interrupts(c) ==
  /\ ifl[c] => At(c) \in OpenLabels \cup {"trapret", "sti", "acquire"}
  /\ At(c) \in OpenLabels => ifl[c]
  /\ cproc[c] # NoProc /\ At(c) \notin Never \cup {"forkret"} =>
       (intena[c] <=> At(c) \notin Handler)
Cpu == \A c \in CPUS : Held(c) /\ Depth(c) /\ Interrupts(c)

\* What a process that does not run will find when it does.
Resting ==
  \A p \in Procs :
    /\ state[p] = "SLEEPING" => pc[p] \in {"sleepSched", "slept"}
    /\ state[p] = "RUNNABLE" => pc[p] \in Off \cup {"yieldSched"}
    /\ pc[p] \in {"sleepSched", "slept"} => chan[p]
    /\ back[p] # None <=> pc[p] \in Handler
    /\ pc[p] = "slept" => saved[p]
    /\ pc[p] = "yielded" => ~saved[p]

Exclusive ==
  /\ locked <=> Holders # {}
  /\ \A p \in Holders : p = owner

\* NoLostWakeup on the way to sleep.
Awaited ==
  \A p \in Procs :
    /\ pc[p] \in {"sleep", "sleepSpin", "sleepRelease"} => locked
    /\ pc[p] = "sleepSet" \/ state[p] = "SLEEPING" =>
         locked \/ \E q \in Procs : pc[q] \in Waking

IInv == Types /\ Placed /\ Cpu /\ Resting /\ Exclusive /\ Awaited

-----------------------------------------------------------------------------
\* After process p has gone to label l on CPU c, ...
Stepped(c, p, l) ==
  /\ At(c) = pc[p] /\ At(c)' = l
  /\ \A d \in CPUS : d # c => At(d)' = At(d)
  /\ pc' \in [Procs -> Labels] /\ pc'[p] = l
  /\ \A q \in Procs : q # p => pc'[q] = pc[q]
  /\ cproc[c] = p /\ cproc' = cproc /\ sch' = sch

\* ... every other CPU is where it was.
LEMMA Elsewhere ==
  ASSUME LockConstants, Types, Placed, NEW c \in CPUS, NEW p \in Procs, cproc[c] = p,
         NEW l \in Labels, pc' = [pc EXCEPT ![p] = l], UNCHANGED <<cproc, sch>>
  PROVE  Stepped(c, p, l)
<1>1. pc' \in [Procs -> Labels] /\ pc'[p] = l /\ \A q \in Procs : q # p => pc'[q] = pc[q]
  BY Zenon DEF Types
<1>2. p # NoProc
  BY Zenon DEF LockConstants
<1>3. At(c) = pc[p] /\ At(c)' = l
  BY <1>1, <1>2, Zenon DEF At
<1>4. ASSUME NEW d \in CPUS, d # c PROVE At(d)' = At(d)
  <2>1. cproc[d] # p /\ cproc[d] \in Procs \cup {NoProc}
    BY <1>2, <1>4, Zenon DEF Placed, Types
  <2> QED
    BY <1>1, <2>1, Zenon DEF At
<1> QED
  BY <1>1, <1>3, <1>4, Zenon DEF Stepped

\* A step that leaves state alone and does not leave p about to be switched out.
LEMMA StillPlaced ==
  ASSUME LockConstants, Types, Placed, NEW c \in CPUS, NEW p \in Procs,
         NEW l \in Labels, Stepped(c, p, l), UNCHANGED state,
         pc[p] \notin Stopped, l \notin Stopped
  PROVE  Placed'
<1>1. \A d \in CPUS : cproc[d] # NoProc => cproc[d] \in Procs
  BY Zenon DEF Types
<1>2. \A q \in Procs : pc'[q] \in Off \/ \E d \in CPUS : cproc'[d] = q
  BY DEF Placed, Stepped
<1>3. \A d \in CPUS : cproc'[d] # NoProc =>
        (state'[cproc'[d]] = "RUNNING" <=> pc'[cproc'[d]] \notin Stopped)
  BY <1>1 DEF Placed, Stepped
<1> QED
  BY <1>2, <1>3 DEF Placed, Stepped

\* A step that takes nobody into the critical section or out of it.
LEMMA StillExclusive ==
  ASSUME Types, Exclusive, UNCHANGED <<locked, owner>>,
         \A q \in Procs : pc'[q] \in HoldLabels \/ back'[q] \in HoldLabels
                          <=> pc[q] \in HoldLabels \/ back[q] \in HoldLabels
  PROVE  Exclusive' /\ Holders' = Holders
<1>1. Holders' = Holders
  BY Zenon DEF Holders
<1> QED
  BY <1>1, Zenon DEF Exclusive

\* A step that leaves locked and state alone, and puts p on the way to sleep only if locked.
LEMMA StillAwaited ==
  ASSUME Types, Awaited, NEW c \in CPUS, NEW p \in Procs, NEW l \in Labels,
         Stepped(c, p, l), UNCHANGED <<locked, state>>,
         l \in {"sleep", "sleepSpin", "sleepRelease", "sleepSet"} => locked,
         pc[p] \in Waking => l \in Waking
  PROVE  Awaited'
<1>1. \A q \in Procs : pc[q] \in Waking => pc'[q] \in Waking
  BY Zenon DEF Stepped
<1> QED
  BY <1>1, Zenon DEF Awaited, Stepped

\* A step that leaves state, chan, back and saved alone.
LEMMA StillResting ==
  ASSUME LockConstants, Types, Placed, Resting, NEW c \in CPUS, NEW p \in Procs, NEW l \in Labels,
         Stepped(c, p, l), UNCHANGED <<state, chan, back, saved>>,
         pc[p] \notin Stopped, l \notin {"sleepSched", "slept", "yielded"},
         pc[p] \in Handler <=> l \in Handler
  PROVE  Resting'
<1>1. state[p] = "RUNNING"
  BY Zenon DEF LockConstants, Placed, Stepped
<1> QED
  BY <1>1 DEF Resting, Stepped

\* A step that leaves the other CPUs alone.
LEMMA OtherCpus ==
  ASSUME Cpu, NEW c \in CPUS, NEW p \in Procs, NEW l \in Labels, Stepped(c, p, l),
         \A d \in CPUS : d # c =>
           /\ ifl'[d] = ifl[d] /\ ncli'[d] = ncli[d] /\ intena'[d] = intena[d]
           /\ \A x \in Spinlocks : holder'[x] = d <=> holder[x] = d,
         Held(c)', Depth(c)', Interrupts(c)'
  PROVE  Cpu'
<1>1. ASSUME NEW d \in CPUS, d # c PROVE Held(d)' /\ Depth(d)' /\ Interrupts(d)'
  <2>1. Held(d)'
    BY <1>1 DEF Cpu, Held, Stepped, Spinlocks
  <2>2. Depth(d)'
    BY <1>1 DEF Cpu, Depth, Stepped
  <2>3. Interrupts(d)'
    BY <1>1 DEF Cpu, Interrupts, Stepped
  <2> QED
    BY <2>1, <2>2, <2>3, Zenon
<1> QED
  BY <1>1, Zenon DEF Cpu

-----------------------------------------------------------------------------
\* The moves that change neither the state of the process nor who has the sleep lock.
Quiet ==
  {<<"out", "want">>, <<"in", "leave">>, <<"got", "in">>, <<"done", "out">>,
   <<"want", "spin">>, <<"spin", "test">>, <<"leave", "leaveSpin">>, <<"leaveSpin", "unlock">>,
   <<"sleep", "sleepSpin">>, <<"sleepSpin", "sleepRelease">>, <<"sleepRelease", "sleepSet">>,
   <<"wakeup", "wakeSpin">>, <<"wakeSpin", "wake">>,
   <<"yield", "yieldSpin">>, <<"yieldSpin", "yieldSet">>}

\* They leave the CPUs' locks and interrupts to be looked at.
LEMMA QuietHolds ==
  ASSUME LockConstants, IInv, NEW c \in CPUS, NEW p \in Procs, cproc[c] = p,
         NEW l \in Labels, <<pc[p], l>> \in Quiet, pc' = [pc EXCEPT ![p] = l],
         UNCHANGED <<cproc, sch, state, chan, back, saved, locked, owner>>
  PROVE  Stepped(c, p, l) /\ Placed' /\ Resting' /\ Exclusive' /\ Awaited' /\ UNCHANGED Holders
<1> USE DEF IInv
<1>1. Stepped(c, p, l)
  BY Elsewhere, Zenon
<1>2. Placed'
  <2>1. pc[p] \notin Stopped /\ l \notin Stopped
    BY Zenon DEF Quiet, Stopped
  <2> QED
    BY <1>1, <2>1, StillPlaced, Zenon
<1>3. Exclusive' /\ UNCHANGED Holders
  <2>1. pc[p] \in HoldLabels <=> l \in HoldLabels
    BY Zenon DEF Quiet, HoldLabels
  <2>2. \A q \in Procs : pc'[q] \in HoldLabels \/ back'[q] \in HoldLabels
                          <=> pc[q] \in HoldLabels \/ back[q] \in HoldLabels
    BY <1>1, <2>1, Zenon DEF Stepped
  <2> QED
    BY <2>2, StillExclusive, Zenon
<1>4. Awaited'
  <2>1. l \in {"sleep", "sleepSpin", "sleepRelease", "sleepSet"} =>
          pc[p] \in {"sleep", "sleepSpin", "sleepRelease"}
    BY Zenon DEF Quiet
  <2>2. pc[p] \in Waking => l \in Waking
    BY Zenon DEF Quiet, Waking
  <2>3. l \in {"sleep", "sleepSpin", "sleepRelease", "sleepSet"} => locked
    BY <2>1, Zenon DEF Awaited
  <2> QED
    BY <1>1, <2>2, <2>3, StillAwaited, Zenon
<1>5. Resting'
  <2>1. /\ pc[p] \notin Stopped /\ l \notin {"sleepSched", "slept", "yielded"}
        /\ pc[p] \in Handler <=> l \in Handler
    BY Zenon DEF Quiet, Stopped, Handler
  <2> QED
    BY <1>1, <2>1, StillResting, Zenon
<1> QED
  BY <1>1, <1>2, <1>3, <1>4, <1>5, Zenon

\* A system call comes to acquiresleep or releasesleep.
LEMMA EnterHolds ==
  ASSUME LockConstants, IInv, NEW c \in CPUS, NEW p \in Procs, cproc[c] = p, enter(c, p)
  PROVE  IInv' /\ UNCHANGED Holders
<1> USE DEF IInv
<1>1. PICK l \in Labels : pc' = [pc EXCEPT ![p] = l] /\ <<pc[p], l>> \in {<<"out", "want">>, <<"in", "leave">>}
  BY Zenon DEF enter, Move, Labels, OpenLabels
<1>2. <<pc[p], l>> \in Quiet
  BY <1>1, Zenon DEF Quiet
<1>3. Stepped(c, p, l) /\ Placed' /\ Resting' /\ Exclusive' /\ Awaited' /\ UNCHANGED Holders
  BY <1>1, <1>2, QuietHolds, Zenon DEF enter
<1>4. Types'
  BY <1>3, Zenon DEF Types, Stepped, enter, cpu
<1>5. Held(c)' /\ Depth(c)' /\ Interrupts(c)'
  <2>1. Held(c) /\ Depth(c) /\ Interrupts(c)
    BY Zenon DEF Cpu
  <2>2. Held(c)'
    BY <1>1, <1>3, <2>1, Zenon DEF Held, Stepped, enter, Ptable, Lk
  <2>3. Depth(c)'
    BY <1>1, <1>3, <2>1, Zenon DEF Depth, Stepped, enter, cpu, Twice, Never, OpenLabels
  <2>4. Interrupts(c)'
    BY <1>1, <1>3, <2>1, Zenon DEF Interrupts, Stepped, enter, cpu, Never, OpenLabels
  <2> QED
    BY <2>2, <2>3, <2>4, Zenon
<1>6. Cpu'
  BY <1>3, <1>5, OtherCpus, Zenon DEF enter, cpu
<1> QED
  BY <1>3, <1>4, <1>6, Zenon

\* The five calls of acquire: the lock, and the labels before, during and after the spin.
Acquires ==
  {<<"lk", "want", "spin", "test">>, <<"lk", "leave", "leaveSpin", "unlock">>,
   <<"ptable", "sleep", "sleepSpin", "sleepRelease">>,
   <<"ptable", "wakeup", "wakeSpin", "wake">>,
   <<"ptable", "yield", "yieldSpin", "yieldSet">>}

\* acquire, its first half: pushcli, and no process takes a lock that its CPU has.
LEMMA PushHolds ==
  ASSUME LockConstants, IInv, NEW c \in CPUS, NEW p \in Procs, cproc[c] = p,
         NEW x \in Spinlocks, NEW f, NEW s, NEW t, <<x, f, s, t>> \in Acquires,
         Move(p, f, s), pushcli(c), panicked' = (holder[x] = c),
         UNCHANGED <<holder, cproc, sch, state, chan, back, saved, locked, owner>>
  PROVE  IInv' /\ UNCHANGED Holders
<1> USE DEF IInv
<1>1. s \in Labels /\ pc[p] = f /\ pc' = [pc EXCEPT ![p] = s]
  BY Zenon DEF Acquires, Labels, Move
<1>2. <<pc[p], s>> \in Quiet
  BY <1>1, Zenon DEF Quiet, Acquires
<1>3. Stepped(c, p, s) /\ Placed' /\ Resting' /\ Exclusive' /\ Awaited' /\ UNCHANGED Holders
  BY <1>1, <1>2, QuietHolds, Zenon
<1>4. Held(c) /\ Depth(c) /\ Interrupts(c) /\ At(c) = f /\ At(c)' = s
  BY <1>1, <1>3, Zenon DEF Cpu, Stepped
<1>5. holder[x] # c
  BY <1>4, Zenon DEF Held, Acquires, Ptable, Lk
<1>6. Types'
  <2>1. ~panicked'
    BY <1>5, Zenon
  <2>2. /\ ifl' \in [CPUS -> BOOLEAN] /\ ncli' \in [CPUS -> Int]
        /\ intena' \in [CPUS -> BOOLEAN]
    BY DEF Types, pushcli
  <2> QED
    BY <1>3, <2>1, <2>2, Zenon DEF Types, Stepped
<1>7. Held(c)'
  BY <1>4, Zenon DEF Held, Acquires, Ptable, Lk
<1>8. Depth(c)'
  <2>1. ncli'[c] = ncli[c] + 1
    BY Zenon DEF pushcli, Types
  <2> QED
    BY <1>4, <2>1 DEF Depth, Acquires, Twice, Never, OpenLabels
<1>9. Interrupts(c)'
  <2>1. ifl'[c] = FALSE /\ intena'[c] = IF ncli[c] = 0 THEN ifl[c] ELSE intena[c]
    BY Zenon DEF pushcli, Types
  <2>2. cproc[c] # NoProc
    BY <1>3, Zenon DEF Stepped, LockConstants
  <2>3. CASE f \in {"want", "leave", "yield"}
    BY <1>3, <1>4, <2>1, <2>2, <2>3, Zenon
    DEF Interrupts, Depth, Stepped, Acquires, Twice, Never, OpenLabels, Handler
  <2>4. CASE f \in {"sleep", "wakeup"}
    <3>1. ncli[c] = 1 /\ intena[c]
      BY <1>4, <2>2, <2>4, Zenon DEF Interrupts, Depth, Twice, Never, OpenLabels, Handler
    <3> QED
      BY <1>3, <1>4, <2>1, <2>4, <3>1
      DEF Interrupts, Stepped, Acquires, Never, OpenLabels, Handler
  <2> QED
    BY <2>3, <2>4, Zenon DEF Acquires
<1>10. Cpu'
  <2>1. \A d \in CPUS : d # c => ifl'[d] = ifl[d] /\ ncli'[d] = ncli[d] /\ intena'[d] = intena[d]
    BY Zenon DEF pushcli, Types
  <2> QED
    BY <1>1, <1>3, <1>7, <1>8, <1>9, <2>1, OtherCpus, Zenon
<1> QED
  BY <1>3, <1>6, <1>10, Zenon

\* acquire, its second half: the spin ends.
LEMMA SpinHolds ==
  ASSUME LockConstants, IInv, NEW c \in CPUS, NEW p \in Procs, cproc[c] = p,
         NEW x \in Spinlocks, NEW f, NEW s, NEW t, <<x, f, s, t>> \in Acquires,
         Move(p, s, t), holder[x] = NoCpu, holder' = [holder EXCEPT ![x] = c],
         UNCHANGED <<cpu, panicked, cproc, sch, state, chan, back, saved, locked, owner>>
  PROVE  IInv' /\ UNCHANGED Holders
<1> USE DEF IInv
<1>1. t \in Labels /\ pc[p] = s /\ pc' = [pc EXCEPT ![p] = t]
  BY Zenon DEF Acquires, Labels, Move
<1>2. <<pc[p], t>> \in Quiet
  BY <1>1, Zenon DEF Quiet, Acquires
<1>3. Stepped(c, p, t) /\ Placed' /\ Resting' /\ Exclusive' /\ Awaited' /\ UNCHANGED Holders
  BY <1>1, <1>2, QuietHolds, Zenon
<1>4. Held(c) /\ Depth(c) /\ Interrupts(c) /\ At(c) = s /\ At(c)' = t
  BY <1>1, <1>3, Zenon DEF Cpu, Stepped
<1>5. Types'
  BY <1>3, Zenon DEF Types, Stepped, cpu
<1>6. holder'[x] = c /\ \A y \in Spinlocks : y # x => holder'[y] = holder[y]
  BY Zenon DEF Types
<1>7. Held(c)'
  BY <1>4, <1>6, Zenon DEF Held, Acquires, Ptable, Lk, Spinlocks
<1>8. Depth(c)'
  BY <1>4, Zenon DEF Depth, Acquires, Twice, Never, OpenLabels, cpu
<1>9. Interrupts(c)'
  BY <1>3, <1>4, Zenon DEF Interrupts, Stepped, Acquires, Never, OpenLabels, Handler, cpu
<1>10. Cpu'
  <2>1. \A d \in CPUS : d # c => \A y \in Spinlocks : holder'[y] = d <=> holder[y] = d
    BY <1>6, Zenon DEF LockConstants
  <2> QED
    BY <1>1, <1>3, <1>7, <1>8, <1>9, <2>1, OtherCpus, Zenon DEF cpu
<1> QED
  BY <1>3, <1>5, <1>10, Zenon

\* acquire of any lock.
LEMMA AcquireHolds ==
  ASSUME LockConstants, IInv, NEW c \in CPUS, NEW p \in Procs, cproc[c] = p,
         NEW x \in Spinlocks, NEW f, NEW s, NEW t, <<x, f, s, t>> \in Acquires,
         acquire(c, p, x, f, s, t)
  PROVE  IInv' /\ UNCHANGED Holders
<1>1. CASE Move(p, f, s) /\ pushcli(c) /\ panicked' = (holder[x] = c) /\ UNCHANGED holder
  BY <1>1, PushHolds, Zenon DEF acquire
<1>2. CASE /\ Move(p, s, t) /\ holder[x] = NoCpu /\ holder' = [holder EXCEPT ![x] = c]
           /\ UNCHANGED <<cpu, panicked>>
  BY <1>2, SpinHolds, Zenon DEF acquire
<1> QED
  BY <1>1, <1>2, Zenon DEF acquire

-----------------------------------------------------------------------------
\* CPU c has released x.
Released(c, x) ==
  /\ holder' \in [Spinlocks -> CPUS \cup {NoCpu}]
  /\ holder'[x] = NoCpu /\ \A y \in Spinlocks : y # x => holder'[y] = holder[y]
  /\ ncli' \in [CPUS -> Int] /\ ncli'[c] = ncli[c] - 1
  /\ ifl' \in [CPUS -> BOOLEAN] /\ (ifl'[c] <=> ncli[c] = 1 /\ intena[c])
  /\ \A d \in CPUS : d # c => ncli'[d] = ncli[d] /\ ifl'[d] = ifl[d]
  /\ intena' = intena
  /\ ~panicked'

\* release, by a CPU that has the lock, does not panic.
LEMMA ReleaseWorks ==
  ASSUME LockConstants, IInv, NEW c \in CPUS, NEW x \in Spinlocks, holder[x] = c, release(c, x)
  PROVE  Released(c, x)
<1> USE DEF IInv
<1>1. Held(c) /\ Depth(c) /\ Interrupts(c)
  BY Zenon DEF Cpu
<1>2. At(c) \in Ptable \cup Lk
  BY <1>1, Zenon DEF Held, Spinlocks
<1>3. ncli[c] # 0 /\ ~ifl[c]
  BY <1>1, <1>2 DEF Depth, Interrupts, Ptable, Lk, Twice, Never, OpenLabels
<1>4. ~panicked'
  BY <1>3, Zenon DEF release
<1>5. /\ holder' \in [Spinlocks -> CPUS \cup {NoCpu}]
      /\ holder'[x] = NoCpu /\ \A y \in Spinlocks : y # x => holder'[y] = holder[y]
  BY Zenon DEF release, Types
<1>6. /\ ncli' \in [CPUS -> Int] /\ ncli'[c] = ncli[c] - 1
      /\ \A d \in CPUS : d # c => ncli'[d] = ncli[d]
  BY DEF release, Types
<1>7. /\ ifl' \in [CPUS -> BOOLEAN] /\ (ifl'[c] <=> ncli[c] = 1 /\ intena[c])
      /\ \A d \in CPUS : d # c => ifl'[d] = ifl[d]
  <2>1. ifl' = [ifl EXCEPT ![c] = ifl[c] \/ Enabled(c)]
    BY Zenon DEF release
  <2>2. Enabled(c) \in BOOLEAN /\ (Enabled(c) <=> ncli[c] = 1 /\ intena[c])
    BY Zenon DEF Enabled, Types
  <2> QED
    BY <1>3, <2>1, <2>2, Zenon DEF Types
<1> QED
  BY <1>4, <1>5, <1>6, <1>7, Zenon DEF Released, release

\* leave and sleepRelease: acquiresleep, releasesleep and sleep release lk.
LEMMA ReleaseHolds ==
  ASSUME LockConstants, IInv, NEW c \in CPUS, NEW p \in Procs, cproc[c] = p,
         leave(c, p) \/ sleepRelease(c, p)
  PROVE  IInv' /\ UNCHANGED Holders
<1> USE DEF IInv
<1>1. PICK l \in Labels :
        /\ pc' = [pc EXCEPT ![p] = l]
        /\ <<pc[p], l>> \in {<<"got", "in">>, <<"done", "out">>, <<"sleepRelease", "sleepSet">>}
  BY Zenon DEF leave, sleepRelease, Move, Labels, OpenLabels
<1>2. <<pc[p], l>> \in Quiet
  BY <1>1, Zenon DEF Quiet
<1>3. Stepped(c, p, l) /\ Placed' /\ Resting' /\ Exclusive' /\ Awaited' /\ UNCHANGED Holders
  BY <1>1, <1>2, QuietHolds, Zenon DEF leave, sleepRelease
<1>4. Held(c) /\ Depth(c) /\ Interrupts(c) /\ At(c) = pc[p] /\ At(c)' = l /\ cproc[c] # NoProc
  BY <1>1, <1>3, Zenon DEF Cpu, Stepped, LockConstants
<1>5. holder["lk"] = c
  BY <1>1, <1>4, Zenon DEF Held, Lk
<1>6. Released(c, "lk")
  BY <1>5, ReleaseWorks, Zenon DEF leave, sleepRelease, Spinlocks
<1>7. Types'
  BY <1>3, <1>6, Zenon DEF Types, Stepped, Released, leave, sleepRelease
<1>8. Held(c)'
  BY <1>1, <1>4, <1>6, Zenon DEF Held, Released, Spinlocks, Ptable, Lk, LockConstants
<1>9. Depth(c)'
  BY <1>1, <1>4, <1>6 DEF Depth, Released, Twice, Never, OpenLabels
<1>10. Interrupts(c)'
  <2>1. intena[c]
    BY <1>1, <1>4, Zenon DEF Interrupts, Never, OpenLabels, Handler
  <2>2. ifl'[c] <=> l \in OpenLabels
    BY <1>1, <1>4, <1>6, <2>1 DEF Depth, Released, Twice, Never, OpenLabels
  <2>3. intena'[c]
    BY <1>6, <2>1, Zenon DEF Released
  <2> QED
    BY <1>1, <1>4, <2>2, <2>3, Zenon DEF Interrupts, OpenLabels, Handler
<1>11. Cpu'
  <2>1. \A d \in CPUS : d # c => \A y \in Spinlocks : holder'[y] = d <=> holder[y] = d
    BY <1>5, <1>6 DEF Released, LockConstants
  <2> QED
    BY <1>3, <1>6, <1>8, <1>9, <1>10, <2>1, OtherCpus, Zenon DEF Released
<1> QED
  BY <1>3, <1>7, <1>11, Zenon

-----------------------------------------------------------------------------
\* The lock that the sleep lock implements.
M == INSTANCE Mutex WITH holders <- Holders

\* A step with lk held that leaves the locks and the interrupts alone.
LEMMA CpuInLk ==
  ASSUME LockConstants, IInv, NEW c \in CPUS, NEW p \in Procs, NEW l \in Labels, Stepped(c, p, l),
         UNCHANGED <<holder, cpu>>,
         pc[p] \in Lk \ (Ptable \cup Twice), l \in Lk \ (Ptable \cup Twice)
  PROVE  Cpu'
<1>1. Held(c) /\ Depth(c) /\ Interrupts(c) /\ At(c) = pc[p] /\ At(c)' = l
  BY Zenon DEF IInv, Cpu, Stepped
<1>2. Held(c)'
  BY <1>1, Zenon DEF Held
<1>3. Depth(c)'
  BY <1>1, Zenon DEF Depth, cpu, Lk, Never, OpenLabels
<1>4. Interrupts(c)'
  BY <1>1, Zenon DEF Interrupts, Stepped, cpu, Lk, Never, OpenLabels, Handler
<1> QED
  BY <1>2, <1>3, <1>4, OtherCpus, Zenon DEF IInv, cpu

\* acquiresleep tests locked, and takes the lock if nobody has it.
LEMMA TestHolds ==
  ASSUME LockConstants, IInv, NEW c \in CPUS, NEW p \in Procs, cproc[c] = p, test(c, p)
  PROVE  IInv' /\ (UNCHANGED Holders \/ M!Acquire(p))
<1> USE DEF IInv
<1>1. PICK l \in Labels :
        /\ pc' = [pc EXCEPT ![p] = l] /\ pc[p] = "test"
        /\ \/ locked /\ l = "sleep" /\ UNCHANGED <<locked, owner>>
           \/ ~locked /\ l = "got" /\ locked' = TRUE /\ owner' = p
  BY Zenon DEF test, Move, Labels
<1>2. Stepped(c, p, l)
  BY <1>1, Elsewhere, Zenon DEF test
<1>3. Types'
  BY <1>1, <1>2, Zenon DEF Types, Stepped, test, cpu
<1>4. Placed'
  BY <1>1, <1>2, StillPlaced, Zenon DEF test, Stopped
<1>5. Resting'
  BY <1>1, <1>2, StillResting, Zenon DEF test, Stopped, Handler
<1>6. Cpu'
  BY <1>1, <1>2, CpuInLk, Zenon DEF test, Lk, Ptable, Twice
<1>7. CASE l = "sleep"
  <2>1. locked /\ UNCHANGED <<locked, owner>>
    BY <1>1, <1>7, Zenon
  <2>2. Exclusive' /\ UNCHANGED Holders
    <3>1. \A q \in Procs : pc'[q] \in HoldLabels \/ back'[q] \in HoldLabels
                            <=> pc[q] \in HoldLabels \/ back[q] \in HoldLabels
      BY <1>1, <1>2, <1>7, Zenon DEF Stepped, HoldLabels, test
    <3> QED
      BY <2>1, <3>1, StillExclusive, Zenon
  <2>3. Awaited'
    BY <1>1, <1>2, <2>1, StillAwaited, Zenon DEF test, Waking
  <2> QED
    BY <1>3, <1>4, <1>5, <1>6, <2>2, <2>3, Zenon
<1>8. CASE l = "got"
  <2>1. ~locked /\ locked' = TRUE /\ owner' = p
    BY <1>1, <1>8, Zenon
  <2>2. Holders = {}
    BY <2>1, Zenon DEF Exclusive
  <2>3. \A q \in Procs : pc'[q] \in HoldLabels \/ back'[q] \in HoldLabels <=> q = p
    BY <1>2, <1>8, <2>2, Zenon DEF Stepped, HoldLabels, Holders, test
  <2>4. Holders' = {p}
    BY <2>3, Zenon DEF Holders
  <2>5. Exclusive'
    BY <2>1, <2>4, Zenon DEF Exclusive
  <2>6. Awaited'
    BY <2>1, Zenon DEF Awaited
  <2> QED
    BY <1>3, <1>4, <1>5, <1>6, <2>2, <2>4, <2>5, <2>6, Zenon DEF M!Acquire
<1> QED
  BY <1>1, <1>7, <1>8, Zenon

\* releasesleep gives the lock up: nobody is between the test of acquiresleep and sleep's release
\* of lk, and who sleeps already will be woken.
LEMMA UnlockHolds ==
  ASSUME LockConstants, IInv, NEW c \in CPUS, NEW p \in Procs, cproc[c] = p, unlock(c, p)
  PROVE  IInv' /\ M!Release(p)
<1> USE DEF IInv
<1>1. pc[p] = "unlock" /\ pc' = [pc EXCEPT ![p] = "wakeup"] /\ ~locked' /\ owner' = NoProc
  BY Zenon DEF unlock, Move
<1>2. "wakeup" \in Labels
  BY Zenon DEF Labels
<1>3. Stepped(c, p, "wakeup")
  BY <1>1, <1>2, Elsewhere, Zenon DEF unlock
<1>4. Types'
  BY <1>1, <1>3, Zenon DEF Types, Stepped, unlock, cpu
<1>5. Placed'
  BY <1>1, <1>2, <1>3, StillPlaced, Zenon DEF unlock, Stopped
<1>6. Resting'
  BY <1>1, <1>2, <1>3, StillResting, Zenon DEF unlock, Stopped, Handler
<1>7. Cpu'
  BY <1>1, <1>2, <1>3, CpuInLk, Zenon DEF unlock, Lk, Ptable, Twice
<1>8. Holders = {p}
  <2>1. p \in Holders
    BY <1>1, Zenon DEF Holders, HoldLabels
  <2> QED
    BY <2>1, Zenon DEF Exclusive
<1>9. Holders' = {}
  <2>1. back[p] = None
    BY <1>1, Zenon DEF Resting, Handler
  <2>2. \A q \in Procs : ~(pc'[q] \in HoldLabels \/ back'[q] \in HoldLabels)
    BY <1>3, <1>8, <2>1 DEF Stepped, Holders, HoldLabels, None, unlock
  <2> QED
    BY <2>2, Zenon DEF Holders
<1>10. Exclusive'
  BY <1>1, <1>9, Zenon DEF Exclusive
<1>11. Awaited'
  <2>1. ASSUME NEW q \in Procs PROVE pc'[q] \notin {"sleep", "sleepSpin", "sleepRelease"}
    <3>1. SUFFICES ASSUME pc'[q] \in {"sleep", "sleepSpin", "sleepRelease"} PROVE FALSE
      BY Zenon
    <3>2. q # p /\ pc[q] = pc'[q]
      BY <1>3, <3>1, Zenon DEF Stepped
    <3>3. PICK d \in CPUS : cproc[d] = q
      BY <3>1, <3>2, Zenon DEF Placed, Off
    <3>4. d # c /\ At(d) = pc[q] /\ At(c) = pc[p]
      BY <3>2, <3>3, Zenon DEF At, LockConstants
    <3>5. holder["lk"] = d /\ holder["lk"] = c
      BY <1>1, <3>1, <3>2, <3>4, Zenon DEF Cpu, Held, Lk
    <3> QED
      BY <3>4, <3>5, Zenon
  <2>2. pc'[p] \in Waking
    BY <1>3, Zenon DEF Stepped, Waking
  <2> QED
    BY <2>1, <2>2, Zenon DEF Awaited
<1> QED
  BY <1>4, <1>5, <1>6, <1>7, <1>8, <1>9, <1>10, <1>11, Zenon DEF M!Release

-----------------------------------------------------------------------------
\* sleep and yield, with ptable.lock held, set state and chan.
LEMMA StopHolds ==
  ASSUME LockConstants, IInv, NEW c \in CPUS, NEW p \in Procs, cproc[c] = p, stop(c, p)
  PROVE  IInv' /\ UNCHANGED Holders
<1> USE DEF IInv
<1>1. PICK l \in Labels :
        /\ pc' = [pc EXCEPT ![p] = l]
        /\ \/ /\ pc[p] = "sleepSet" /\ l = "sleepSched"
              /\ chan' = [chan EXCEPT ![p] = TRUE] /\ state' = [state EXCEPT ![p] = "SLEEPING"]
           \/ /\ pc[p] = "yieldSet" /\ l = "yieldSched"
              /\ chan' = chan /\ state' = [state EXCEPT ![p] = "RUNNABLE"]
  BY Zenon DEF stop, Move, Labels
<1>2. Stepped(c, p, l)
  BY <1>1, Elsewhere, Zenon DEF stop
<1>3. Types'
  BY <1>1, <1>2, Zenon DEF Types, Stepped, stop, cpu
<1>4. /\ \A q \in Procs : q # p => state'[q] = state[q] /\ chan'[q] = chan[q]
      /\ l = "sleepSched" => state'[p] = "SLEEPING" /\ chan'[p]
      /\ l = "yieldSched" => state'[p] = "RUNNABLE"
  BY <1>1, Zenon DEF Types
<1>5. Placed'
  <2>1. \A d \in CPUS : cproc[d] # NoProc => cproc[d] \in Procs
    BY Zenon DEF Types
  <2>2. \A q \in Procs : pc'[q] \in Off \/ \E d \in CPUS : cproc'[d] = q
    BY <1>2, Zenon DEF Placed, Stepped
  <2>3. l \in Stopped /\ state'[p] # "RUNNING"
    BY <1>1, <1>4, Zenon DEF Stopped
  <2>4. \A d \in CPUS : cproc'[d] # NoProc =>
          (state'[cproc'[d]] = "RUNNING" <=> pc'[cproc'[d]] \notin Stopped)
    BY <1>2, <1>4, <2>1, <2>3 DEF Placed, Stepped
  <2> QED
    BY <1>2, <2>2, <2>4 DEF Placed, Stepped
<1>6. Exclusive' /\ UNCHANGED Holders
  <2>1. \A q \in Procs : pc'[q] \in HoldLabels \/ back'[q] \in HoldLabels
                          <=> pc[q] \in HoldLabels \/ back[q] \in HoldLabels
    BY <1>1, <1>2, Zenon DEF Stepped, HoldLabels, stop
  <2> QED
    BY <2>1, StillExclusive, Zenon DEF stop
<1>7. Awaited'
  <2>1. \A q \in Procs : pc[q] \in Waking => pc'[q] \in Waking
    BY <1>1, <1>2, Zenon DEF Stepped, Waking
  <2>2. pc[p] = "sleepSet" \/ l = "yieldSched"
    BY <1>1, Zenon
  <2> QED
    BY <1>1, <1>2, <1>4, <2>1, <2>2 DEF Awaited, Stepped, stop
<1>8. Resting'
  <2>1. \A q \in Procs : q # p => pc'[q] = pc[q] /\ state'[q] = state[q] /\ chan'[q] = chan[q]
                                  /\ back'[q] = back[q] /\ saved'[q] = saved[q]
    BY <1>2, <1>4, Zenon DEF Stepped, stop
  <2>2. back[p] # None <=> l = "yieldSched"
    BY <1>1, Zenon DEF Resting, Handler
  <2> QED
    BY <1>1, <1>2, <1>4, <2>1, <2>2 DEF Resting, Stepped, Handler, Off, stop
<1>9. Held(c) /\ Depth(c) /\ Interrupts(c) /\ At(c) = pc[p] /\ At(c)' = l
  BY <1>2, Zenon DEF Cpu, Stepped
<1>10. Held(c)'
  BY <1>1, <1>9, Zenon DEF Held, Ptable, Lk, stop
<1>11. Depth(c)'
  BY <1>1, <1>9, Zenon DEF Depth, stop, cpu, Twice, Never, OpenLabels
<1>12. Interrupts(c)'
  BY <1>1, <1>2, <1>9, Zenon DEF Interrupts, Stepped, stop, cpu, Never, OpenLabels, Handler
<1>13. Cpu'
  BY <1>2, <1>10, <1>11, <1>12, OtherCpus, Zenon DEF stop, cpu
<1> QED
  BY <1>3, <1>5, <1>6, <1>7, <1>8, <1>13, Zenon

\* sched does not panic, and hands ptable.lock to the scheduler.
LEMMA SchedHolds ==
  ASSUME LockConstants, IInv, NEW c \in CPUS, NEW p \in Procs, cproc[c] = p, sched(c, p)
  PROVE  IInv' /\ UNCHANGED Holders
<1> USE DEF IInv
<1>1. PICK l \in Labels :
        /\ pc' = [pc EXCEPT ![p] = l]
        /\ <<pc[p], l>> \in {<<"sleepSched", "slept">>, <<"yieldSched", "yielded">>}
  BY Zenon DEF sched, Move, Labels
<1>2. pc' \in [Procs -> Labels] /\ pc'[p] = l /\ \A q \in Procs : q # p => pc'[q] = pc[q]
  BY <1>1, Zenon DEF Types
<1>3. /\ cproc' \in [CPUS -> Procs \cup {NoProc}] /\ cproc'[c] = NoProc
      /\ sch' \in [CPUS -> SchLabels] /\ sch'[c] = "scan"
      /\ \A d \in CPUS : d # c => cproc'[d] = cproc[d] /\ sch'[d] = sch[d]
      /\ saved' \in [Procs -> BOOLEAN] /\ saved'[p] = intena[c]
      /\ \A q \in Procs : q # p => saved'[q] = saved[q]
  BY Zenon DEF sched, Types, SchLabels
<1>4. p # NoProc /\ At(c) = pc[p] /\ At(c)' = "scan"
  BY <1>3, Zenon DEF LockConstants, At
<1>5. \A d \in CPUS : d # c => cproc[d] # p /\ cproc[d] \in Procs \cup {NoProc}
  BY <1>4, Zenon DEF Placed, Types
<1>6. \A d \in CPUS : d # c => At(d)' = At(d)
  BY <1>2, <1>3, <1>5, Zenon DEF At
<1>7. Held(c) /\ Depth(c) /\ Interrupts(c)
  BY Zenon DEF Cpu
<1>8. ~panicked'
  <2>1. holder["ptable"] = c
    BY <1>1, <1>4, <1>7, Zenon DEF Held, Ptable
  <2>2. ncli[c] = 1
    BY <1>1, <1>4, <1>7, Zenon DEF Depth, Twice, Never, OpenLabels
  <2>3. ~ifl[c]
    BY <1>1, <1>4, <1>7, Zenon DEF Interrupts, OpenLabels
  <2>4. state[p] # "RUNNING"
    BY <1>1, <1>4, Zenon DEF Placed, Stopped
  <2> QED
    BY <2>1, <2>2, <2>3, <2>4, Zenon DEF sched
<1>9. Types'
  BY <1>2, <1>3, <1>8, Zenon DEF Types, sched, cpu
<1>10. Placed'
  <2>1. \A d, e \in CPUS : cproc'[d] = cproc'[e] /\ cproc'[d] # NoProc => d = e
    BY <1>3 DEF Placed
  <2>2. \A d \in CPUS : sch'[d] = "swtch" <=> cproc'[d] # NoProc
    BY <1>3 DEF Placed
  <2>3. \A q \in Procs : pc'[q] \in Off \/ \E d \in CPUS : cproc'[d] = q
    <3>1. l \in Off
      BY <1>1, Zenon DEF Off
    <3> QED
      BY <1>2, <1>3, <3>1 DEF Placed
  <2>4. \A d \in CPUS : cproc'[d] # NoProc =>
          (state'[cproc'[d]] = "RUNNING" <=> pc'[cproc'[d]] \notin Stopped)
    BY <1>2, <1>3, <1>5 DEF Placed, sched
  <2> QED
    BY <2>1, <2>2, <2>3, <2>4, Zenon DEF Placed
<1>11. Exclusive' /\ UNCHANGED Holders
  <2>1. \A q \in Procs : pc'[q] \in HoldLabels \/ back'[q] \in HoldLabels
                          <=> pc[q] \in HoldLabels \/ back[q] \in HoldLabels
    BY <1>1, <1>2, Zenon DEF HoldLabels, sched
  <2> QED
    BY <2>1, StillExclusive, Zenon DEF sched
<1>12. Awaited'
  <2>1. \A q \in Procs : pc[q] \in Waking => pc'[q] \in Waking
    BY <1>1, <1>2, Zenon DEF Waking
  <2> QED
    BY <1>1, <1>2, <2>1, Zenon DEF Awaited, sched
<1>13. Resting'
  <2>1. intena[c] <=> pc[p] = "sleepSched"
    BY <1>1, <1>4, <1>7, Zenon DEF Interrupts, Never, OpenLabels, Handler
  <2>2. saved'[p] <=> l = "slept"
    BY <1>1, <1>3, <2>1, Zenon
  <2> QED
    BY <1>1, <1>2, <1>3, <2>2 DEF Resting, Off, Handler, sched
<1>14. Cpu'
  <2>1. Held(c)'
    BY <1>1, <1>4, <1>7, Zenon DEF Held, Ptable, Lk, sched
  <2>2. Depth(c)'
    BY <1>1, <1>4, <1>7, Zenon DEF Depth, sched, cpu, Twice, Never, OpenLabels
  <2>3. Interrupts(c)'
    BY <1>1, <1>3, <1>4, <1>7, Zenon DEF Interrupts, sched, cpu, OpenLabels
  <2>4. ASSUME NEW d \in CPUS, d # c PROVE Held(d)' /\ Depth(d)' /\ Interrupts(d)'
    BY <1>3, <1>6, <2>4 DEF Cpu, Held, Depth, Interrupts, sched, cpu
  <2> QED
    BY <2>1, <2>2, <2>3, <2>4, Zenon DEF Cpu
<1> QED
  BY <1>9, <1>10, <1>11, <1>12, <1>13, <1>14, Zenon

\* Back from sched: sleep, yield and forkret release the ptable.lock that the scheduler took, and
\* find the interrupt flag as it was when they gave the CPU away.
LEMMA ResumedHolds ==
  ASSUME LockConstants, IInv, NEW c \in CPUS, NEW p \in Procs, cproc[c] = p, resumed(c, p)
  PROVE  IInv' /\ UNCHANGED Holders
<1> USE DEF IInv
<1>1. PICK l \in Labels :
        /\ pc' = [pc EXCEPT ![p] = l]
        /\ \/ pc[p] = "slept" /\ l = "want" /\ chan' = [chan EXCEPT ![p] = FALSE]
           \/ pc[p] = "yielded" /\ l = "iret" /\ chan' = chan
           \/ pc[p] = "forkret" /\ l = "trapret" /\ chan' = chan
  BY Zenon DEF resumed, Move, Labels, OpenLabels
<1>2. Stepped(c, p, l)
  BY <1>1, Elsewhere, Zenon DEF resumed
<1>3. Held(c) /\ Depth(c) /\ Interrupts(c) /\ At(c) = pc[p] /\ At(c)' = l /\ cproc[c] # NoProc
  BY <1>2, Zenon DEF Cpu, Stepped, LockConstants
<1>4. holder["ptable"] = c
  BY <1>1, <1>3, Zenon DEF Held, Ptable
<1>5. Released(c, "ptable")
  BY <1>4, ReleaseWorks, Zenon DEF resumed, Spinlocks
<1>6. chan' \in [Procs -> BOOLEAN] /\ \A q \in Procs : q # p => chan'[q] = chan[q]
  BY <1>1, Zenon DEF Types
<1>7. Types'
  BY <1>2, <1>5, <1>6, Zenon DEF Types, Stepped, Released, resumed
<1>8. Placed'
  BY <1>1, <1>2, StillPlaced, Zenon DEF resumed, Stopped
<1>9. Exclusive' /\ UNCHANGED Holders
  <2>1. \A q \in Procs : pc'[q] \in HoldLabels \/ back'[q] \in HoldLabels
                          <=> pc[q] \in HoldLabels \/ back[q] \in HoldLabels
    BY <1>1, <1>2, Zenon DEF Stepped, HoldLabels, resumed
  <2> QED
    BY <2>1, StillExclusive, Zenon DEF resumed
<1>10. Awaited'
  BY <1>1, <1>2, StillAwaited, Zenon DEF resumed, Waking
<1>11. Resting'
  <2>1. state[p] = "RUNNING"
    BY <1>1, <1>3, Zenon DEF Placed, Stopped
  <2> QED
    BY <1>1, <1>2, <1>6, <2>1 DEF Resting, Stepped, Handler, resumed
<1>12. Held(c)'
  BY <1>1, <1>3, <1>5, Zenon DEF Held, Released, Spinlocks, Ptable, Lk, LockConstants
<1>13. Depth(c)'
  BY <1>1, <1>3, <1>5 DEF Depth, Released, Twice, Never, OpenLabels
<1>14. Interrupts(c)'
  <2>1. ncli[c] = 1
    BY <1>1, <1>3, Zenon DEF Depth, Twice, Never, OpenLabels
  <2>2. pc[p] # "forkret" => (intena[c] <=> pc[p] = "slept")
    BY <1>1, <1>3, Zenon DEF Interrupts, Never, OpenLabels, Handler
  <2>3. pc[p] # "forkret" => (ifl'[c] <=> pc[p] = "slept")
    BY <1>5, <2>1, <2>2, Zenon DEF Released
  <2> QED
    BY <1>1, <1>3, <2>3, Zenon DEF Interrupts, Never, OpenLabels
<1>15. Cpu'
  <2>1. \A d \in CPUS : d # c => \A y \in Spinlocks : holder'[y] = d <=> holder[y] = d
    BY <1>4, <1>5 DEF Released, LockConstants
  <2> QED
    BY <1>2, <1>5, <1>12, <1>13, <1>14, <2>1, OtherCpus, Zenon DEF Released
<1> QED
  BY <1>7, <1>8, <1>9, <1>10, <1>11, <1>15, Zenon

-----------------------------------------------------------------------------

\* wakeup1 leaves nobody asleep; with ptable.lock held, nobody is about to be.
LEMMA WakeupHolds ==
  ASSUME LockConstants, IInv, NEW c \in CPUS, NEW p \in Procs, cproc[c] = p, wakeup(c, p)
  PROVE  IInv' /\ UNCHANGED Holders
<1> USE DEF IInv
<1>1. pc[p] = "wake" /\ pc' = [pc EXCEPT ![p] = "done"] /\ "done" \in Labels
  BY Zenon DEF wakeup, Move, Labels
<1>2. Stepped(c, p, "done")
  BY <1>1, Elsewhere, Zenon DEF wakeup
<1>3. Held(c) /\ Depth(c) /\ Interrupts(c) /\ At(c) = pc[p] /\ At(c)' = "done" /\ cproc[c] # NoProc
  BY <1>2, Zenon DEF Cpu, Stepped, LockConstants
<1>4. holder["ptable"] = c
  BY <1>1, <1>3, Zenon DEF Held, Ptable
<1>5. Released(c, "ptable")
  BY <1>4, ReleaseWorks, Zenon DEF wakeup, Spinlocks
<1>6. ASSUME NEW q \in Procs, pc[q] \in {"sleepSet", "sleepSched", "yieldSched"} PROVE FALSE
  <2>1. PICK d \in CPUS : cproc[d] = q
    BY <1>6, Zenon DEF Placed, Off
  <2>2. At(d) = pc[q] /\ d # c
    BY <1>1, <1>6, <2>1, Zenon DEF At, LockConstants
  <2>3. holder["ptable"] = d
    BY <1>6, <2>2, Zenon DEF Cpu, Held, Ptable
  <2> QED
    BY <1>4, <2>2, <2>3, Zenon
<1>7. \A q \in Procs : state[q] = "SLEEPING" => chan[q] /\ pc[q] = "slept"
  BY <1>6, Zenon DEF Resting
<1>8. \A q \in Procs : state'[q] = IF state[q] = "SLEEPING" THEN "RUNNABLE" ELSE state[q]
  BY <1>7, Zenon DEF wakeup
<1>9. state' \in [Procs -> {"RUNNABLE", "RUNNING", "SLEEPING"}]
  BY Zenon DEF wakeup, Types
<1>10. Types'
  BY <1>2, <1>5, <1>9, Zenon DEF Types, Stepped, Released, wakeup
<1>11. Placed'
  <2>1. \A d \in CPUS : cproc[d] # NoProc => cproc[d] \in Procs
    BY Zenon DEF Types
  <2>2. \A q \in Procs : pc'[q] \in Off \/ \E d \in CPUS : cproc'[d] = q
    BY <1>2, Zenon DEF Placed, Stepped
  <2>3. pc[p] \notin Stopped /\ "done" \notin Stopped
    BY <1>1, Zenon DEF Stopped
  <2>4. \A d \in CPUS : cproc'[d] # NoProc =>
          (state'[cproc'[d]] = "RUNNING" <=> pc'[cproc'[d]] \notin Stopped)
    BY <1>2, <1>8, <2>1, <2>3 DEF Placed, Stepped
  <2> QED
    BY <1>2, <2>2, <2>4 DEF Placed, Stepped
<1>12. Exclusive' /\ UNCHANGED Holders
  <2>1. \A q \in Procs : pc'[q] \in HoldLabels \/ back'[q] \in HoldLabels
                          <=> pc[q] \in HoldLabels \/ back[q] \in HoldLabels
    BY <1>1, <1>2, Zenon DEF Stepped, HoldLabels, wakeup
  <2> QED
    BY <2>1, StillExclusive, Zenon DEF wakeup
<1>13. Awaited'
  <2>1. \A q \in Procs : state'[q] # "SLEEPING"
    BY <1>8, Zenon
  <2>2. \A q \in Procs : pc'[q] # "sleepSet"
    BY <1>2, <1>6, Zenon DEF Stepped
  <2> QED
    BY <1>2, <2>1, <2>2, Zenon DEF Awaited, Stepped, wakeup
<1>14. Resting'
  <2>1. state[p] = "RUNNING"
    BY <1>1, <1>3, Zenon DEF Placed, Stopped
  <2>2. state'[p] = "RUNNING"
    BY <1>8, <2>1, Zenon
  <2>3. \A q \in Procs : state'[q] = "RUNNABLE" => pc'[q] \in Off \cup {"yieldSched"}
    BY <1>2, <1>7, <1>8, <2>2 DEF Resting, Stepped, Off
  <2>4. \A q \in Procs : state'[q] # "SLEEPING"
    BY <1>8, Zenon
  <2> QED
    BY <1>1, <1>2, <2>3, <2>4 DEF Resting, Stepped, Handler, wakeup
<1>15. Held(c)'
  BY <1>1, <1>3, <1>5, Zenon DEF Held, Released, Spinlocks, Ptable, Lk, LockConstants
<1>16. Depth(c)'
  BY <1>1, <1>3, <1>5 DEF Depth, Released, Twice, Never, OpenLabels
<1>17. Interrupts(c)'
  <2>1. ~ifl'[c]
    BY <1>1, <1>3, <1>5 DEF Depth, Released, Twice
  <2>2. intena[c]
    BY <1>1, <1>3, Zenon DEF Interrupts, Never, OpenLabels, Handler
  <2>3. intena'[c]
    BY <1>5, <2>2, Zenon DEF Released
  <2> QED
    BY <1>3, <2>1, <2>3, Zenon DEF Interrupts, OpenLabels, Handler
<1>18. Cpu'
  <2>1. \A d \in CPUS : d # c => \A y \in Spinlocks : holder'[y] = d <=> holder[y] = d
    BY <1>4, <1>5 DEF Released, LockConstants
  <2> QED
    BY <1>1, <1>2, <1>5, <1>15, <1>16, <1>17, <2>1, OtherCpus DEF Released
<1> QED
  BY <1>10, <1>11, <1>12, <1>13, <1>14, <1>18, Zenon

-----------------------------------------------------------------------------
\* A timer interrupt, which needs interrupts on, remembers where it came from.
LEMMA TimerHolds ==
  ASSUME LockConstants, IInv, NEW c \in CPUS, NEW p \in Procs, cproc[c] = p, timer(c, p)
  PROVE  IInv' /\ UNCHANGED Holders
<1> USE DEF IInv
<1>1. "yield" \in Labels /\ pc' = [pc EXCEPT ![p] = "yield"]
  BY Zenon DEF timer, Labels
<1>2. Stepped(c, p, "yield")
  BY <1>1, Elsewhere, Zenon DEF timer
<1>3. Held(c) /\ Depth(c) /\ Interrupts(c) /\ At(c) = pc[p] /\ At(c)' = "yield" /\ cproc[c] # NoProc
  BY <1>2, Zenon DEF Cpu, Stepped, LockConstants
<1>4. pc[p] \in OpenLabels \cup {"trapret"}
  <2>1. pc[p] \in OpenLabels \cup {"trapret", "sti", "acquire"} /\ pc[p] \in Labels
    BY <1>3, Zenon DEF Interrupts, timer, Types
  <2> QED
    BY <2>1, Zenon DEF Labels, OpenLabels
<1>5. /\ back' \in [Procs -> OpenLabels \cup {"trapret", None}] /\ back'[p] = pc[p]
      /\ \A q \in Procs : q # p => back'[q] = back[q]
  BY <1>4, Zenon DEF timer, Types
<1>6. /\ ifl' \in [CPUS -> BOOLEAN] /\ ~ifl'[c]
      /\ \A d \in CPUS : d # c => ifl'[d] = ifl[d]
  BY Zenon DEF timer, Types
<1>7. Types'
  BY <1>2, <1>5, <1>6, Zenon DEF Types, Stepped, timer
<1>8. Placed'
  <2>1. pc[p] \notin Stopped /\ "yield" \notin Stopped
    BY <1>4, Zenon DEF Stopped, OpenLabels
  <2> QED
    BY <1>1, <1>2, <2>1, StillPlaced, Zenon DEF timer
<1>9. Exclusive' /\ UNCHANGED Holders
  <2>1. back[p] \notin HoldLabels /\ "yield" \notin HoldLabels
    BY Zenon DEF timer, None, HoldLabels
  <2>2. \A q \in Procs : pc'[q] \in HoldLabels \/ back'[q] \in HoldLabels
                          <=> pc[q] \in HoldLabels \/ back[q] \in HoldLabels
    BY <1>2, <1>5, <2>1, Zenon DEF Stepped
  <2> QED
    BY <2>2, StillExclusive, Zenon DEF timer
<1>10. Awaited'
  <2>1. pc[p] \notin Waking
    BY <1>4, Zenon DEF Waking, OpenLabels
  <2> QED
    BY <1>1, <1>2, <2>1, StillAwaited, Zenon DEF timer
<1>11. Resting'
  <2>1. state[p] = "RUNNING"
    BY <1>3, <1>4, Zenon DEF Placed, Stopped, OpenLabels
  <2>2. back'[p] # None /\ "yield" \in Handler
    BY <1>4, <1>5, Zenon DEF None, OpenLabels, Handler
  <2> QED
    BY <1>2, <1>5, <2>1, <2>2 DEF Resting, Stepped, timer
<1>12. Held(c)'
  BY <1>3, <1>4, Zenon DEF Held, Ptable, Lk, OpenLabels, timer
<1>13. Depth(c)'
  BY <1>3, <1>4, Zenon DEF Depth, Twice, Never, OpenLabels, timer
<1>14. Interrupts(c)'
  BY <1>3, <1>6, Zenon DEF Interrupts, Never, OpenLabels
<1>15. Cpu'
  BY <1>1, <1>2, <1>6, <1>12, <1>13, <1>14, OtherCpus, Zenon DEF timer
<1> QED
  BY <1>7, <1>8, <1>9, <1>10, <1>11, <1>15, Zenon

\* trapret's iret goes back to where the interrupt came from, with interrupts on.
LEMMA IretHolds ==
  ASSUME LockConstants, IInv, NEW c \in CPUS, NEW p \in Procs, cproc[c] = p, iret(c, p)
  PROVE  IInv' /\ UNCHANGED Holders
<1> USE DEF IInv
<1>1. PICK l \in OpenLabels \cup {"trapret"} :
        /\ pc' = [pc EXCEPT ![p] = l]
        /\ \/ pc[p] = "iret" /\ l = back[p] /\ back' = [back EXCEPT ![p] = None]
           \/ pc[p] = "trapret" /\ l = "out" /\ back' = back
  <2>1. pc[p] = "iret" => back[p] \in OpenLabels \cup {"trapret"}
    BY Zenon DEF Resting, Handler, Types
  <2>2. "out" \in OpenLabels
    BY Zenon DEF OpenLabels
  <2> QED
    BY <2>1, <2>2, Zenon DEF iret, Move
<1>2. l \in Labels
  BY <1>1, Zenon DEF Labels
<1>3. Stepped(c, p, l)
  BY <1>1, <1>2, Elsewhere, Zenon DEF iret
<1>4. Held(c) /\ Depth(c) /\ Interrupts(c) /\ At(c) = pc[p] /\ At(c)' = l /\ cproc[c] # NoProc
  BY <1>3, Zenon DEF Cpu, Stepped, LockConstants
<1>5. pc[p] = "trapret" => back[p] = None
  BY Zenon DEF Resting, Handler
<1>6. /\ back' \in [Procs -> OpenLabels \cup {"trapret", None}] /\ back'[p] = None
      /\ \A q \in Procs : q # p => back'[q] = back[q]
  BY <1>1, <1>5, Zenon DEF Types
<1>7. /\ ifl' \in [CPUS -> BOOLEAN] /\ ifl'[c]
      /\ \A d \in CPUS : d # c => ifl'[d] = ifl[d]
  BY Zenon DEF iret, Types
<1>8. Types'
  BY <1>3, <1>6, <1>7, Zenon DEF Types, Stepped, iret
<1>9. l \notin Stopped \cup Handler \cup Waking \cup Off
  BY <1>1, Zenon DEF OpenLabels, Stopped, Handler, Waking, Off
<1>10. Placed'
  <2>1. pc[p] \notin Stopped
    BY <1>1, Zenon DEF Stopped
  <2> QED
    BY <1>2, <1>3, <1>9, <2>1, StillPlaced, Zenon DEF iret
<1>11. Exclusive' /\ UNCHANGED Holders
  <2>1. pc[p] \notin HoldLabels /\ None \notin HoldLabels /\ "out" \notin HoldLabels
    BY <1>1, Zenon DEF HoldLabels, None
  <2>2. l \in HoldLabels <=> back[p] \in HoldLabels
    BY <1>1, <1>5, <2>1, Zenon
  <2>3. \A q \in Procs : pc'[q] \in HoldLabels \/ back'[q] \in HoldLabels
                          <=> pc[q] \in HoldLabels \/ back[q] \in HoldLabels
    BY <1>3, <1>6, <2>1, <2>2, Zenon DEF Stepped
  <2> QED
    BY <2>3, StillExclusive, Zenon DEF iret
<1>12. Awaited'
  <2>1. pc[p] \notin Waking /\ l \notin {"sleep", "sleepSpin", "sleepRelease", "sleepSet"}
    BY <1>1, Zenon DEF Waking, OpenLabels
  <2> QED
    BY <1>2, <1>3, <2>1, StillAwaited, Zenon DEF iret
<1>13. Resting'
  <2>1. state[p] = "RUNNING"
    BY <1>1, <1>4, Zenon DEF Placed, Stopped
  <2> QED
    BY <1>3, <1>6, <1>9, <2>1 DEF Resting, Stepped, iret, Stopped, Off
<1>14. Held(c)'
  BY <1>1, <1>4, Zenon DEF Held, Ptable, Lk, OpenLabels, iret
<1>15. Depth(c)'
  BY <1>1, <1>4, Zenon DEF Depth, Twice, Never, OpenLabels, iret
<1>16. Interrupts(c)'
  BY <1>1, <1>4, <1>7, Zenon DEF Interrupts, Never, OpenLabels
<1>17. Cpu'
  BY <1>2, <1>3, <1>7, <1>14, <1>15, <1>16, OtherCpus, Zenon DEF iret
<1> QED
  BY <1>8, <1>10, <1>11, <1>12, <1>13, <1>17, Zenon

\* kill, when nobody has ptable.lock, wakes one process.
LEMMA KillHolds ==
  ASSUME LockConstants, IInv, NEW p \in Procs, kill(p)
  PROVE  IInv' /\ UNCHANGED Holders
<1> USE DEF IInv
<1>1. /\ state' \in [Procs -> {"RUNNABLE", "RUNNING", "SLEEPING"}] /\ state'[p] = "RUNNABLE"
      /\ \A q \in Procs : q # p => state'[q] = state[q]
  BY Zenon DEF kill, Types
<1>2. pc[p] = "slept"
  <2>1. pc[p] \in {"sleepSched", "slept"}
    BY Zenon DEF kill, Resting
  <2>2. CASE pc[p] = "sleepSched"
    <3>1. PICK d \in CPUS : cproc[d] = p
      BY <2>2, Zenon DEF Placed, Off
    <3>2. At(d) = pc[p]
      BY <3>1, Zenon DEF At, LockConstants
    <3>3. holder["ptable"] = d
      BY <2>2, <3>2, Zenon DEF Cpu, Held, Ptable
    <3> QED
      BY <3>3, Zenon DEF kill, LockConstants
  <2> QED
    BY <2>1, <2>2, Zenon
<1>3. Types'
  BY <1>1, Zenon DEF Types, kill, cpu
<1>4. Placed'
  <2>1. \A d \in CPUS : cproc[d] # NoProc => cproc[d] \in Procs
    BY Zenon DEF Types
  <2>2. \A d \in CPUS : cproc[d] # p
    BY <1>2, Zenon DEF Placed, Stopped, LockConstants, kill
  <2> QED
    BY <1>1, <2>1, <2>2 DEF Placed, kill
<1>5. \A d \in CPUS : At(d)' = At(d)
  BY Zenon DEF At, kill
<1>6. Cpu'
  BY <1>5 DEF Cpu, Held, Depth, Interrupts, kill, cpu
<1>7. Resting'
  BY <1>1, <1>2, Zenon DEF Resting, Off, kill
<1>8. Exclusive' /\ UNCHANGED Holders
  BY StillExclusive, Zenon DEF kill
<1>9. Awaited'
  BY <1>1, Zenon DEF Awaited, kill
<1> QED
  BY <1>3, <1>4, <1>6, <1>7, <1>8, <1>9, Zenon

-----------------------------------------------------------------------------
\* A step of scheduler() that does not switch to a process leaves the processes alone.
LEMMA SchedulerStep ==
  ASSUME LockConstants, IInv, NEW c \in CPUS, sch[c] # "swtch",
         NEW s \in SchLabels, s # "swtch", sch' = [sch EXCEPT ![c] = s],
         UNCHANGED <<cproc, state, chan, pc, back, saved, locked, owner>>
  PROVE  /\ cproc[c] = NoProc /\ At(c) = sch[c] /\ At(c)' = s
         /\ \A d \in CPUS : d # c => At(d)' = At(d)
         /\ sch' \in [CPUS -> SchLabels]
         /\ Placed' /\ Resting' /\ Exclusive' /\ Awaited' /\ UNCHANGED Holders
<1> USE DEF IInv
<1>1. sch' \in [CPUS -> SchLabels] /\ sch'[c] = s /\ \A d \in CPUS : d # c => sch'[d] = sch[d]
  BY Zenon DEF Types
<1>2. cproc[c] = NoProc
  BY Zenon DEF Placed
<1>3. At(c) = sch[c] /\ At(c)' = s /\ \A d \in CPUS : d # c => At(d)' = At(d)
  BY <1>1, <1>2, Zenon DEF At
<1>4. Placed'
  BY <1>1, <1>2 DEF Placed
<1>5. Resting' /\ Awaited'
  BY Zenon DEF Resting, Awaited
<1>6. Exclusive' /\ UNCHANGED Holders
  BY StillExclusive, Zenon
<1> QED
  BY <1>1, <1>2, <1>3, <1>4, <1>5, <1>6, Zenon

\* scheduler: sti and acquire(&ptable.lock).
LEMMA SchedulerAcquireHolds ==
  ASSUME LockConstants, IInv, NEW c \in CPUS, schedulerAcquire(c)
  PROVE  IInv' /\ UNCHANGED Holders
<1> USE DEF IInv
<1>1. PICK s \in SchLabels :
        /\ sch' = [sch EXCEPT ![c] = s]
        /\ <<sch[c], s>> \in {<<"sti", "acquire">>, <<"acquire", "spin">>, <<"spin", "scan">>}
  BY Zenon DEF schedulerAcquire, SchLabels
<1>2. sch[c] # "swtch" /\ s # "swtch"
  BY <1>1, Zenon
<1>3. /\ cproc[c] = NoProc /\ At(c) = sch[c] /\ At(c)' = s
      /\ \A d \in CPUS : d # c => At(d)' = At(d)
      /\ sch' \in [CPUS -> SchLabels]
      /\ Placed' /\ Resting' /\ Exclusive' /\ Awaited' /\ UNCHANGED Holders
  BY <1>1, <1>2, SchedulerStep, Zenon DEF schedulerAcquire
<1>4. Held(c) /\ Depth(c) /\ Interrupts(c)
  BY Zenon DEF Cpu
<1>5. sch'[c] = s
  BY <1>1, Zenon DEF Types
<1>6. CASE sch[c] = "sti"
  <2>1. ifl' = [ifl EXCEPT ![c] = TRUE] /\ s = "acquire" /\ UNCHANGED <<holder, ncli, intena, panicked>>
    BY <1>5, <1>6, <1>1, Zenon DEF schedulerAcquire
  <2>2. ifl' \in [CPUS -> BOOLEAN] /\ \A d \in CPUS : d # c => ifl'[d] = ifl[d]
    BY <2>1, Zenon DEF Types
  <2>3. Types'
    BY <1>3, <2>1, <2>2, Zenon DEF Types, schedulerAcquire
  <2>4. Held(c)' /\ Depth(c)' /\ Interrupts(c)'
    BY <1>3, <1>4, <1>6, <2>1, Zenon
    DEF Held, Depth, Interrupts, Ptable, Lk, Twice, Never, OpenLabels, schedulerAcquire
  <2>5. \A d \in CPUS : d # c => Held(d)' /\ Depth(d)' /\ Interrupts(d)'
    BY <1>3, <2>1, <2>2 DEF Cpu, Held, Depth, Interrupts, schedulerAcquire
  <2> QED
    BY <1>3, <2>3, <2>4, <2>5, Zenon DEF Cpu
<1>7. CASE sch[c] = "acquire"
  <2>1. pushcli(c) /\ panicked' = (holder["ptable"] = c) /\ s = "spin" /\ UNCHANGED holder
    BY <1>1, <1>7, Zenon DEF schedulerAcquire
  <2>2. /\ ifl' \in [CPUS -> BOOLEAN] /\ ncli' \in [CPUS -> Int]
        /\ intena' \in [CPUS -> BOOLEAN]
        /\ ~ifl'[c] /\ ncli'[c] = ncli[c] + 1
        /\ \A d \in CPUS : d # c => ifl'[d] = ifl[d] /\ ncli'[d] = ncli[d] /\ intena'[d] = intena[d]
    BY <2>1 DEF pushcli, Types
  <2>3. ~panicked'
    BY <1>3, <1>4, <1>7, <2>1, Zenon DEF Held, Ptable
  <2>4. Types'
    BY <1>3, <2>1, <2>2, <2>3, Zenon DEF Types, schedulerAcquire
  <2>5. Held(c)'
    BY <1>3, <1>4, <1>7, <2>1, Zenon DEF Held, Ptable, Lk
  <2>6. Depth(c)'
    BY <1>3, <1>4, <1>7, <2>1, <2>2 DEF Depth, Twice, Never, OpenLabels
  <2>7. Interrupts(c)'
    BY <1>3, <2>1, <2>2, Zenon DEF Interrupts, OpenLabels, schedulerAcquire
  <2>8. \A d \in CPUS : d # c => Held(d)' /\ Depth(d)' /\ Interrupts(d)'
    BY <1>3, <2>1, <2>2 DEF Cpu, Held, Depth, Interrupts, schedulerAcquire
  <2> QED
    BY <1>3, <2>4, <2>5, <2>6, <2>7, <2>8, Zenon DEF Cpu
<1>8. CASE sch[c] = "spin"
  <2>1. /\ holder["ptable"] = NoCpu /\ holder' = [holder EXCEPT !["ptable"] = c]
        /\ s = "scan" /\ UNCHANGED <<cpu, panicked>>
    BY <1>1, <1>8, Zenon DEF schedulerAcquire
  <2>2. /\ holder' \in [Spinlocks -> CPUS \cup {NoCpu}]
        /\ holder'["ptable"] = c /\ holder'["lk"] = holder["lk"]
    BY <2>1, Zenon DEF Types, Spinlocks
  <2>3. Types'
    BY <1>3, <2>1, <2>2, Zenon DEF Types, schedulerAcquire, cpu
  <2>4. Held(c)'
    BY <1>3, <1>4, <1>8, <2>1, <2>2, Zenon DEF Held, Ptable, Lk
  <2>5. Depth(c)' /\ Interrupts(c)'
    BY <1>3, <1>4, <1>8, <2>1, Zenon
    DEF Depth, Interrupts, Twice, Never, OpenLabels, schedulerAcquire, cpu
  <2>6. \A d \in CPUS : d # c => Held(d)' /\ Depth(d)' /\ Interrupts(d)'
    BY <1>3, <2>1, <2>2 DEF Cpu, Held, Depth, Interrupts, schedulerAcquire, cpu, LockConstants
  <2> QED
    BY <1>3, <2>3, <2>4, <2>5, <2>6, Zenon DEF Cpu
<1> QED
  BY <1>1, <1>6, <1>7, <1>8, Zenon

\* scheduler: the end of a pass releases ptable.lock.
LEMMA SchedulerReleaseHolds ==
  ASSUME LockConstants, IInv, NEW c \in CPUS, schedulerRelease(c)
  PROVE  IInv' /\ UNCHANGED Holders
<1> USE DEF IInv
<1>1. sch[c] = "scan" /\ "sti" \in SchLabels /\ sch' = [sch EXCEPT ![c] = "sti"]
  BY Zenon DEF schedulerRelease, SchLabels
<1>2. /\ cproc[c] = NoProc /\ At(c) = sch[c] /\ At(c)' = "sti"
      /\ \A d \in CPUS : d # c => At(d)' = At(d)
      /\ sch' \in [CPUS -> SchLabels]
      /\ Placed' /\ Resting' /\ Exclusive' /\ Awaited' /\ UNCHANGED Holders
  BY <1>1, SchedulerStep, Zenon DEF schedulerRelease
<1>3. Held(c) /\ Depth(c) /\ Interrupts(c)
  BY Zenon DEF Cpu
<1>4. holder["ptable"] = c
  BY <1>1, <1>2, <1>3, Zenon DEF Held, Ptable
<1>5. Released(c, "ptable")
  BY <1>4, ReleaseWorks, Zenon DEF schedulerRelease, Spinlocks
<1>6. Types'
  BY <1>2, <1>5, Zenon DEF Types, Released, schedulerRelease
<1>7. Held(c)'
  BY <1>1, <1>2, <1>3, <1>5, Zenon DEF Held, Released, Spinlocks, Ptable, Lk, LockConstants
<1>8. Depth(c)'
  BY <1>1, <1>2, <1>3, <1>5 DEF Depth, Released, Twice, Never, OpenLabels
<1>9. Interrupts(c)'
  BY <1>2, Zenon DEF Interrupts, Never, OpenLabels, schedulerRelease
<1>10. \A d \in CPUS : d # c => Held(d)' /\ Depth(d)' /\ Interrupts(d)'
  BY <1>2, <1>4, <1>5
  DEF Cpu, Held, Depth, Interrupts, Released, Spinlocks, LockConstants, schedulerRelease
<1> QED
  BY <1>2, <1>6, <1>7, <1>8, <1>9, <1>10, Zenon DEF Cpu

\* scheduler switches to a process that no CPU runs, which finds ptable.lock held, and its own
\* intena.
LEMMA DispatchHolds ==
  ASSUME LockConstants, IInv, NEW c \in CPUS, NEW p \in Procs, dispatch(c, p)
  PROVE  IInv' /\ UNCHANGED Holders
<1> USE DEF IInv
<1>1. cproc[c] = NoProc /\ At(c) = "scan" /\ p # NoProc
  BY Zenon DEF Placed, At, dispatch, LockConstants
<1>2. Held(c) /\ Depth(c) /\ Interrupts(c)
  BY Zenon DEF Cpu
<1>3. holder["ptable"] = c
  BY <1>1, <1>2, Zenon DEF Held, Ptable
<1>4. \A d \in CPUS : cproc[d] # p
  <2>1. SUFFICES ASSUME NEW d \in CPUS, cproc[d] = p PROVE FALSE
    BY Zenon
  <2>2. At(d) = pc[p] /\ d # c
    BY <1>1, <2>1, Zenon DEF At
  <2>3. pc[p] \in Stopped
    BY <1>1, <2>1, Zenon DEF Placed, dispatch
  <2>4. holder["ptable"] = d
    BY <2>2, <2>3, Zenon DEF Cpu, Held, Ptable, Stopped
  <2> QED
    BY <1>3, <2>2, <2>4, Zenon
<1>5. pc[p] \in Off
  BY <1>4, Zenon DEF Placed
<1>6. /\ cproc' \in [CPUS -> Procs \cup {NoProc}] /\ cproc'[c] = p
      /\ sch' \in [CPUS -> SchLabels] /\ sch'[c] = "swtch"
      /\ \A d \in CPUS : d # c => cproc'[d] = cproc[d] /\ sch'[d] = sch[d]
  BY Zenon DEF dispatch, Types, SchLabels
<1>7. /\ state' \in [Procs -> {"RUNNABLE", "RUNNING", "SLEEPING"}] /\ state'[p] = "RUNNING"
      /\ \A q \in Procs : q # p => state'[q] = state[q]
  BY Zenon DEF dispatch, Types
<1>8. /\ intena' \in [CPUS -> BOOLEAN]
      /\ pc[p] # "forkret" => intena'[c] = saved[p]
      /\ \A d \in CPUS : d # c => intena'[d] = intena[d]
  BY Zenon DEF dispatch, Types
<1>9. At(c)' = pc[p] /\ \A d \in CPUS : d # c => At(d)' = At(d)
  BY <1>1, <1>6, Zenon DEF At, dispatch
<1>10. Types'
  BY <1>6, <1>7, <1>8, Zenon DEF Types, dispatch
<1>11. Placed'
  <2>1. \A d, e \in CPUS : cproc'[d] = cproc'[e] /\ cproc'[d] # NoProc => d = e
    BY <1>4, <1>6 DEF Placed
  <2>2. \A d \in CPUS : sch'[d] = "swtch" <=> cproc'[d] # NoProc
    BY <1>1, <1>6 DEF Placed
  <2>3. \A q \in Procs : pc'[q] \in Off \/ \E d \in CPUS : cproc'[d] = q
    <3>1. ASSUME NEW q \in Procs, pc[q] \notin Off PROVE \E d \in CPUS : cproc'[d] = q
      <4>1. PICK d \in CPUS : cproc[d] = q
        BY <3>1, Zenon DEF Placed
      <4>2. d # c
        BY <1>1, <4>1, Zenon DEF LockConstants
      <4> QED
        BY <1>6, <4>1, <4>2, Zenon
    <3> QED
      BY <3>1, Zenon DEF dispatch
  <2>4. \A d \in CPUS : cproc'[d] # NoProc =>
          (state'[cproc'[d]] = "RUNNING" <=> pc'[cproc'[d]] \notin Stopped)
    <3>1. pc[p] \notin Stopped
      BY <1>5, Zenon DEF Off, Stopped
    <3>2. \A d \in CPUS : cproc[d] # NoProc => cproc[d] \in Procs
      BY Zenon DEF Types
    <3> QED
      BY <1>4, <1>6, <1>7, <3>1, <3>2 DEF Placed, dispatch
  <2> QED
    BY <2>1, <2>2, <2>3, <2>4, Zenon DEF Placed
<1>12. Resting'
  BY <1>7, Zenon DEF Resting, dispatch
<1>13. Exclusive' /\ UNCHANGED Holders
  BY StillExclusive, Zenon DEF dispatch
<1>14. Awaited'
  BY <1>7, Zenon DEF Awaited, dispatch
<1>15. Held(c)'
  BY <1>2, <1>3, <1>5, <1>9, <1>1, Zenon DEF Held, Ptable, Lk, Off, dispatch
<1>16. Depth(c)'
  BY <1>1, <1>2, <1>5, <1>9, Zenon DEF Depth, Off, Twice, Never, OpenLabels, dispatch
<1>17. Interrupts(c)'
  <2>1. ~ifl'[c]
    BY <1>1, <1>2, Zenon DEF Interrupts, OpenLabels, dispatch
  <2>2. pc[p] # "forkret" => (intena'[c] <=> pc[p] \notin Handler)
    BY <1>5, <1>8, Zenon DEF Resting, Off, Handler
  <2> QED
    BY <1>5, <1>9, <2>1, <2>2, Zenon DEF Interrupts, Off, OpenLabels
<1>18. \A d \in CPUS : d # c => Held(d)' /\ Depth(d)' /\ Interrupts(d)'
  BY <1>6, <1>8, <1>9 DEF Cpu, Held, Depth, Interrupts, dispatch
<1> QED
  BY <1>10, <1>11, <1>12, <1>13, <1>14, <1>15, <1>16, <1>17, <1>18, Zenon DEF Cpu

-----------------------------------------------------------------------------
\* Initially every process is in forkret and every CPU before sti.
LEMMA InitHolds ==
  ASSUME LockConstants, Init
  PROVE  IInv /\ Holders = {}
<1>1. Types
  <2>1. /\ ifl \in [CPUS -> BOOLEAN] /\ intena \in [CPUS -> BOOLEAN]
        /\ chan \in [Procs -> BOOLEAN] /\ saved \in [Procs -> BOOLEAN]
        /\ locked \in BOOLEAN /\ ~panicked
    BY Zenon DEF Init
  <2>2. /\ holder \in [Spinlocks -> CPUS \cup {NoCpu}] /\ ncli \in [CPUS -> Int]
        /\ cproc \in [CPUS -> Procs \cup {NoProc}] /\ sch \in [CPUS -> SchLabels]
    BY DEF Init, SchLabels
  <2>3. /\ state \in [Procs -> {"RUNNABLE", "RUNNING", "SLEEPING"}]
        /\ pc \in [Procs -> Labels] /\ back \in [Procs -> OpenLabels \cup {"trapret", None}]
    BY Zenon DEF Init, Labels
  <2> QED
    BY <2>1, <2>2, <2>3, Zenon DEF Types
<1>2. Placed
  BY Zenon DEF Init, Placed, Off
<1>3. Cpu
  <2>1. \A c \in CPUS : At(c) = "sti"
    BY Zenon DEF Init, At
  <2>2. \A c \in CPUS : Held(c)
    BY <2>1, Zenon DEF Init, Held, Spinlocks, Ptable, Lk, LockConstants
  <2>3. \A c \in CPUS : Depth(c)
    BY <2>1, Zenon DEF Init, Depth, Twice, Never
  <2>4. \A c \in CPUS : Interrupts(c)
    BY <2>1, Zenon DEF Init, Interrupts, OpenLabels, Never
  <2> QED
    BY <2>2, <2>3, <2>4, Zenon DEF Cpu
<1>4. Resting
  BY Zenon DEF Init, Resting, Off, Handler
<1>5. Holders = {}
  BY Zenon DEF Init, Holders, HoldLabels, None
<1>6. Exclusive
  BY <1>5, Zenon DEF Init, Exclusive
<1>7. Awaited
  BY Zenon DEF Init, Awaited
<1> QED
  BY <1>1, <1>2, <1>3, <1>4, <1>5, <1>6, <1>7, Zenon DEF IInv

\* Every step keeps the invariant, and is a step of the abstract lock or none.
LEMMA NextHolds ==
  ASSUME LockConstants, IInv, [Next]_vars
  PROVE  IInv' /\ (UNCHANGED Holders \/ \E p \in Procs : M!Acquire(p) \/ M!Release(p))
<1>1. CASE UNCHANGED vars
  <2>1. Exclusive' /\ UNCHANGED Holders
    BY <1>1, StillExclusive, Zenon DEF IInv, vars
  <2>2. \A c \in CPUS : At(c)' = At(c)
    BY <1>1, Zenon DEF At, vars
  <2>3. Cpu'
    BY <1>1, <2>2 DEF IInv, Cpu, Held, Depth, Interrupts, vars, cpu
  <2>4. Types' /\ Placed' /\ Resting' /\ Awaited'
    BY <1>1 DEF IInv, Types, Placed, Resting, Awaited, vars, cpu
  <2> QED
    BY <2>1, <2>3, <2>4, Zenon DEF IInv
<1>2. ASSUME NEW c \in CPUS, NEW p \in Procs, Run(c, p)
      PROVE  IInv' /\ (UNCHANGED Holders \/ \E q \in Procs : M!Acquire(q) \/ M!Release(q))
  <2>1. cproc[c] = p
    BY <1>2, Zenon DEF Run
  <2>2. CASE \/ acquire(c, p, "lk", "want", "spin", "test")
             \/ acquire(c, p, "lk", "leave", "leaveSpin", "unlock")
             \/ acquire(c, p, "ptable", "sleep", "sleepSpin", "sleepRelease")
             \/ acquire(c, p, "ptable", "wakeup", "wakeSpin", "wake")
             \/ acquire(c, p, "ptable", "yield", "yieldSpin", "yieldSet")
    <3>1. /\ <<"lk", "want", "spin", "test">> \in Acquires
          /\ <<"lk", "leave", "leaveSpin", "unlock">> \in Acquires
          /\ <<"ptable", "sleep", "sleepSpin", "sleepRelease">> \in Acquires
          /\ <<"ptable", "wakeup", "wakeSpin", "wake">> \in Acquires
          /\ <<"ptable", "yield", "yieldSpin", "yieldSet">> \in Acquires
      BY Zenon DEF Acquires
    <3>2. "lk" \in Spinlocks /\ "ptable" \in Spinlocks
      BY Zenon DEF Spinlocks
    <3> QED
      BY <2>1, <2>2, <3>1, <3>2, AcquireHolds, Zenon
  <2>3. CASE enter(c, p) \/ leave(c, p) \/ sleepRelease(c, p) \/ stop(c, p) \/ sched(c, p)
             \/ resumed(c, p) \/ wakeup(c, p) \/ iret(c, p)
    BY <2>1, <2>3, EnterHolds, ReleaseHolds, StopHolds, SchedHolds, ResumedHolds, WakeupHolds,
       IretHolds, Zenon
  <2>4. CASE test(c, p)
    BY <2>1, <2>4, TestHolds, Zenon
  <2>5. CASE unlock(c, p)
    BY <2>1, <2>5, UnlockHolds, Zenon
  <2> QED
    BY <1>2, <2>2, <2>3, <2>4, <2>5, Zenon DEF Run
<1>3. ASSUME NEW c \in CPUS, NEW p \in Procs, (cproc[c] = p /\ timer(c, p)) \/ dispatch(c, p)
      PROVE  IInv' /\ UNCHANGED Holders
  BY <1>3, TimerHolds, DispatchHolds, Zenon
<1>4. ASSUME NEW c \in CPUS, schedulerAcquire(c) \/ schedulerRelease(c)
      PROVE  IInv' /\ UNCHANGED Holders
  BY <1>4, SchedulerAcquireHolds, SchedulerReleaseHolds, Zenon
<1>5. ASSUME NEW p \in Procs, kill(p)
      PROVE  IInv' /\ UNCHANGED Holders
  BY <1>5, KillHolds, Zenon
<1> QED
  BY <1>1, <1>2, <1>3, <1>4, <1>5, Zenon DEF Next

\* The inductive invariant holds in every state.
LEMMA Always ==
  ASSUME LockConstants
  PROVE  Spec => []IInv
<1>1. Init => IInv
  BY InitHolds, Zenon
<1>2. IInv /\ [Next]_vars => IInv'
  BY NextHolds, Zenon
<1> QED
  BY <1>1, <1>2, PTL DEF Spec

\* acquire, release, popcli and sched, called by acquiresleep, releasesleep, sleep, wakeup, yield
\* and scheduler on any number of CPUs, never panic.
THEOREM LockNeverPanics ==
  ASSUME LockConstants
  PROVE  Spec => []NoPanic
<1>1. IInv => NoPanic
  BY Zenon DEF IInv, Types, NoPanic
<1> QED
  BY <1>1, Always, PTL

\* pushcli, popcli, sched and scheduler, which keep the interrupt flag for the process in a
\* variable of the CPU: a process runs with interrupts on exactly where it has no spin lock and is
\* in no handler, whatever CPU it comes back to.
THEOREM LockInterrupts ==
  ASSUME LockConstants
  PROVE  Spec => []InterruptsRestored
<1>1. IInv => InterruptsRestored
  <2> SUFFICES ASSUME IInv, NEW c \in CPUS, cproc[c] # NoProc, pc[cproc[c]] # "trapret"
               PROVE  ifl[c] <=> pc[cproc[c]] \in OpenLabels
    BY Zenon DEF InterruptsRestored
  <2>1. At(c) = pc[cproc[c]] /\ At(c) \in Labels
    BY Zenon DEF At, IInv, Types
  <2>2. Interrupts(c)
    BY Zenon DEF IInv, Cpu
  <2> QED
    BY <2>1, <2>2, Zenon DEF Interrupts, Labels, OpenLabels
<1> QED
  BY <1>1, Always, PTL

\* sleep, which takes ptable.lock before it lets go of lk, against releasesleep and wakeup: nobody
\* sleeps on a free lock without a wakeup on the way.
THEOREM LockWakeups ==
  ASSUME LockConstants
  PROVE  Spec => []NoLostWakeup
<1>1. IInv => NoLostWakeup
  BY Zenon DEF IInv, Awaited, NoLostWakeup, Waking
<1> QED
  BY <1>1, Always, PTL

\* acquiresleep and releasesleep, with timer interrupts, kills and any number of processes and
\* CPUs, implement a mutual exclusion lock.
ImplementsMutex == M!Spec

\* Every behaviour of the sleep lock is one of the abstract lock.
THEOREM LockImplementsMutex ==
  ASSUME LockConstants
  PROVE  Spec => ImplementsMutex
<1>1. Init => M!Init
  BY InitHolds, Zenon DEF M!Init
<1>2. IInv /\ [Next]_vars => [\E p \in Procs : M!Acquire(p) \/ M!Release(p)]_Holders
  BY NextHolds, Zenon
<1> QED
  BY <1>1, <1>2, Always, PTL DEF Spec, ImplementsMutex, M!Spec
=============================================================================
