--------------------------------- MODULE Io ---------------------------------
(***************************************************************************)
(* SleepLock, Pipe, BufCache and Console: every behaviour is one of a      *)
(* sleep lock, of a pipe, of the buffer cache over the disk or of the      *)
(* console.  Variables that two of the modules call the same are the same  *)
(* variables; those of the others are Idle.                                *)
(***************************************************************************)
EXTENDS Integers, Sequences, FiniteSets, TLC

CONSTANTS LockProcs, CPUS, NoProc, NoCpu,                       \* sleep lock
          Writers, Readers, PIPESIZE, UINT, Byte, Counts, MaxKills, \* pipe
          BufProcs, NBUF, Blocks, NoBlock, Data, Zero, MaxPinned,   \* buffer cache
          INPUT_BUF, Letters,                                       \* console, read by Readers
          Idle

VARIABLES part,
          holder, ifl, ncli, intena, cproc, sch, state, chan, back, saved, locked,
          nread, nwrite, open, lock, freed, ref, i,
          lru, blockno, refcnt, valid, dirty, idequeue, cmd, irq, disk, buf, want, reserve, failed,
          input, target, eof,
          pc, owner, data, panicked, n, killed

lockOnly == <<holder, ifl, ncli, intena, cproc, sch, state, chan, back, saved, locked>>
pipeOnly == <<nread, nwrite, open, lock, freed, ref, i>>
bufOnly == <<lru, blockno, refcnt, valid, dirty, idequeue, cmd, irq, disk, buf, want, reserve, failed>>
consOnly == <<input, target, eof>>
vars == <<part, lockOnly, pipeOnly, bufOnly, consOnly, pc, owner, data, panicked, n, killed>>

InitLock == holder = Idle /\ ifl = Idle /\ ncli = Idle /\ intena = Idle /\ cproc = Idle /\ sch = Idle
            /\ state = Idle /\ chan = Idle /\ back = Idle /\ saved = Idle /\ locked = Idle
InitPipe == nread = Idle /\ nwrite = Idle /\ open = Idle /\ lock = Idle /\ freed = Idle /\ ref = Idle
            /\ i = Idle
InitBuf == lru = Idle /\ blockno = Idle /\ refcnt = Idle /\ valid = Idle /\ dirty = Idle /\ idequeue = Idle
           /\ cmd = Idle /\ irq = Idle /\ disk = Idle /\ buf = Idle /\ want = Idle /\ reserve = Idle /\ failed = Idle
InitCons == input = Idle /\ target = Idle /\ eof = Idle
NoKills == n = Idle /\ killed = Idle

L == INSTANCE SleepLockProofs WITH Procs <- LockProcs
P == INSTANCE PipeProofs
B == INSTANCE BufCacheProofs WITH Procs <- BufProcs
C == INSTANCE ConsoleProofs WITH UINT <- 2 * INPUT_BUF

\* What the proofs about the parts take for granted of the constants.
ASSUME IoConstants ==
  /\ L!LockConstants
  /\ P!PipeConstants /\ P!RingConstants
  /\ B!BufConstants
  /\ C!ConsoleConstants

\* The processes, CPUs and blocks of a part are interchangeable.  A part never compares two kinds
\* of names, so that sets of the same size may be given the same names.
Symmetry == Permutations(LockProcs) \cup Permutations(CPUS) \cup Permutations(Readers)

Init ==
  \/ part = "lock" /\ L!Init /\ InitPipe /\ InitBuf /\ InitCons /\ data = Idle /\ NoKills
  \/ part = "pipe" /\ P!Init /\ InitLock /\ InitBuf /\ InitCons /\ owner = Idle /\ panicked = Idle
  \/ part = "buf" /\ B!Init /\ InitLock /\ InitPipe /\ InitCons /\ NoKills
  \/ part = "cons" /\ C!Init /\ InitLock /\ InitPipe /\ InitBuf
     /\ owner = Idle /\ data = Idle /\ panicked = Idle
Next ==
  \/ part = "lock" /\ L!Next /\ UNCHANGED <<part, pipeOnly, bufOnly, consOnly, data, n, killed>>
  \/ part = "pipe" /\ P!Next /\ UNCHANGED <<part, lockOnly, bufOnly, consOnly, owner, panicked>>
  \/ part = "buf" /\ B!Next /\ UNCHANGED <<part, lockOnly, pipeOnly, consOnly, n, killed>>
  \/ part = "cons" /\ C!Next /\ UNCHANGED <<part, lockOnly, pipeOnly, bufOnly, owner, data, panicked>>
  \/ part \in {"pipe", "buf"} /\ UNCHANGED vars
Spec == Init /\ [][Next]_vars

\* No panic of acquire, release, popcli and sched is reached from acquiresleep, and of those of
\* bio.c and ide.c only bget's for want of buffers.
NoPanic ==
  /\ part = "lock" => L!NoPanic
  /\ part = "buf" => B!OnlyOutOfBuffers
\* A running process has interrupts on exactly when it holds no spin lock (pushcli, popcli).
InterruptsRestored == part = "lock" => L!InterruptsRestored
\* sleep, wakeup and kill: nobody sleeps on a sleep lock that is free, in pipewrite or piperead
\* with room or bytes there, in consoleread with a line there, or in iderw for a request that is
\* not in the disk's queue.
NoLostWakeup ==
  /\ part = "lock" => L!NoLostWakeup
  /\ part = "pipe" => P!NoLostWakeup
  /\ part = "buf" => B!NoLostRequest
  /\ part = "cons" => C!NoLostWakeup
\* pipeclose frees the pipe once, and not while it is in use; bget and brelse keep a buffer with
\* its block while it is used, no block has two, and its reference count is that of its users.
StorageKept ==
  /\ part = "pipe" => P!FreedOnce
  /\ part = "buf" => B!BufferKept /\ B!RefsCounted

M == INSTANCE Mutex WITH Procs <- LockProcs, holders <- IF part = "lock" THEN L!Holders ELSE {}
\* acquiresleep and releasesleep implement a mutual exclusion lock.
ImplementsMutex == M!Spec

Fifo == INSTANCE BoundedFifo WITH Size <- PIPESIZE, q <- IF part = "pipe" THEN P!Inside ELSE <<>>
\* pipewrite and piperead implement a bounded queue, across the wrap of nread and nwrite.
ImplementsFifo == Fifo!Spec

ZeroDisk == [b \in Blocks |-> Zero]
BD == INSTANCE BlockDevice WITH
        Procs <- BufProcs,
        mem <- IF part = "buf" THEN B!Mem ELSE ZeroDisk,
        disk <- IF part = "buf" THEN disk ELSE ZeroDisk,
        held <- IF part = "buf" THEN B!Held ELSE [p \in BufProcs |-> NoBlock],
        bad <- IF part = "buf" THEN B!Bad ELSE {}
\* The cache over the driver is a block device: every holder of a block sees the last contents
\* given to it, the disk never gets older ones, and recycling a buffer loses nothing.
ImplementsBlockDevice == BD!Spec

LD == INSTANCE LineDevice WITH
        Size <- INPUT_BUF,
        ready <- IF part = "cons" THEN C!Ready ELSE <<>>,
        editing <- IF part = "cons" THEN C!Editing ELSE <<>>,
        eof <- IF part = "cons" THEN eof ELSE 0
\* consoleintr and consoleread implement a device that is read by the line: what is entered is
\* read in order and once, also when the ring is full or r, w and e wrap, and each control-D
\* is one read of no bytes.
ImplementsLineDevice == LD!Spec
=============================================================================
