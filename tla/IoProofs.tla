------------------------------ MODULE IoProofs ------------------------------
(***************************************************************************)
(* The properties of Io for every value of the constants, from those of    *)
(* its parts: a behaviour of Io is one of the part it begins with.         *)
(***************************************************************************)
EXTENDS Io, TLAPS

\* No step changes the part.
LEMMA PartStays == [Next]_vars => part' = part
  BY Zenon DEF Next, vars

\* A behaviour of Io is one of SleepLock from beginning to end, or never.
LEMMA LockPart == Spec => (part = "lock" /\ [](part = "lock") /\ L!Spec) \/ []~(part = "lock")
<1>1. Init /\ part = "lock" => L!Init
  BY Zenon DEF Init
<1>2. Next /\ part = "lock" => L!Next \/ UNCHANGED L!vars
  BY Zenon DEF Next, vars, L!vars, lockOnly, L!cpu
<1>3. UNCHANGED vars => UNCHANGED L!vars
  BY Zenon DEF vars, L!vars, lockOnly, L!cpu
<1>4. [Next]_vars => ((part = "lock")' <=> part = "lock")
  BY PartStays, Zenon
<1> QED
  BY <1>1, <1>2, <1>3, <1>4, PTL DEF Spec, L!Spec

\* A behaviour of Io is one of Pipe from beginning to end, or never.
LEMMA PipePart == Spec => (part = "pipe" /\ [](part = "pipe") /\ P!Spec) \/ []~(part = "pipe")
<1>1. Init /\ part = "pipe" => P!Init
  BY Zenon DEF Init
<1>2. Next /\ part = "pipe" => P!Next \/ UNCHANGED P!vars
  BY Zenon DEF Next, vars, P!vars, pipeOnly
<1>3. UNCHANGED vars => UNCHANGED P!vars
  BY Zenon DEF vars, P!vars, pipeOnly
<1>4. [Next]_vars => ((part = "pipe")' <=> part = "pipe")
  BY PartStays, Zenon
<1> QED
  BY <1>1, <1>2, <1>3, <1>4, PTL DEF Spec, P!Spec

\* A behaviour of Io is one of BufCache from beginning to end, or never.
LEMMA BufPart == Spec => (part = "buf" /\ [](part = "buf") /\ B!Spec) \/ []~(part = "buf")
<1>1. Init /\ part = "buf" => B!Init
  BY Zenon DEF Init
<1>2. Next /\ part = "buf" => B!Next \/ UNCHANGED B!vars
  BY Zenon DEF Next, vars, B!vars, bufOnly, B!bcache, B!ide, B!local
<1>3. UNCHANGED vars => UNCHANGED B!vars
  BY Zenon DEF vars, B!vars, bufOnly, B!bcache, B!ide, B!local
<1>4. [Next]_vars => ((part = "buf")' <=> part = "buf")
  BY PartStays, Zenon
<1> QED
  BY <1>1, <1>2, <1>3, <1>4, PTL DEF Spec, B!Spec

\* A behaviour of Io is one of Console from beginning to end, or never.
LEMMA ConsPart == Spec => (part = "cons" /\ [](part = "cons") /\ C!Spec) \/ []~(part = "cons")
<1>1. Init /\ part = "cons" => C!Init
  BY Zenon DEF Init
<1>2. Next /\ part = "cons" => C!Next \/ UNCHANGED C!vars
  BY Zenon DEF Next, vars, C!vars, consOnly
<1>3. UNCHANGED vars => UNCHANGED C!vars
  BY Zenon DEF vars, C!vars, consOnly
<1>4. [Next]_vars => ((part = "cons")' <=> part = "cons")
  BY PartStays, Zenon
<1> QED
  BY <1>1, <1>2, <1>3, <1>4, PTL DEF Spec, C!Spec

\* acquire, release, popcli and sched never panic under acquiresleep, and bio.c and ide.c only
\* for want of buffers.
THEOREM NeverPanics == Spec => []NoPanic
<1>1. L!Spec => []L!NoPanic
  BY L!LockNeverPanics, IoConstants, Zenon
<1>2. B!Spec => []B!OnlyOutOfBuffers
  BY B!CachePanics, IoConstants, Zenon
<1>3. (part = "lock" => L!NoPanic) /\ (part = "buf" => B!OnlyOutOfBuffers) => NoPanic
  BY Zenon DEF NoPanic
<1> QED
  BY <1>1, <1>2, <1>3, LockPart, BufPart, PTL

\* pushcli and popcli restore the interrupts of every process.
THEOREM Interrupts == Spec => []InterruptsRestored
<1>1. L!Spec => []L!InterruptsRestored
  BY L!LockInterrupts, IoConstants, Zenon
<1>2. (part = "lock" => L!InterruptsRestored) => InterruptsRestored
  BY Zenon DEF InterruptsRestored
<1> QED
  BY <1>1, <1>2, LockPart, PTL

\* sleep, wakeup and kill: nobody sleeps on what it could have, in any of the four parts.
THEOREM Wakeups == Spec => []NoLostWakeup
<1>1. L!Spec => []L!NoLostWakeup
  BY L!LockWakeups, IoConstants, Zenon
<1>2. P!Spec => []P!NoLostWakeup
  BY P!PipeWakeups, IoConstants, Zenon
<1>3. B!Spec => []B!NoLostRequest
  BY B!DriverWakeups, IoConstants, Zenon
<1>4. C!Spec => []C!NoLostWakeup
  BY C!ConsoleWakeups, IoConstants, Zenon
<1>5. (part = "lock" => L!NoLostWakeup) /\ (part = "pipe" => P!NoLostWakeup)
        /\ (part = "buf" => B!NoLostRequest) /\ (part = "cons" => C!NoLostWakeup) => NoLostWakeup
  BY Zenon DEF NoLostWakeup
<1> QED
  BY <1>1, <1>2, <1>3, <1>4, <1>5, LockPart, PipePart, BufPart, ConsPart, PTL

\* pipeclose frees the pipe once; bget and brelse keep a buffer with its block and count its users.
THEOREM Storage == Spec => []StorageKept
<1>1. P!Spec => []P!FreedOnce
  BY P!PipeFreed, IoConstants, Zenon
<1>2. B!Spec => []B!BufferKept
  BY B!CacheKeeps, IoConstants, Zenon
<1>3. B!Spec => []B!RefsCounted
  BY B!CacheCounts, IoConstants, Zenon
<1>4. (part = "pipe" => P!FreedOnce) /\ (part = "buf" => B!BufferKept)
        /\ (part = "buf" => B!RefsCounted) => StorageKept
  BY Zenon DEF StorageKept
<1> QED
  BY <1>1, <1>2, <1>3, <1>4, PipePart, BufPart, PTL

\* acquiresleep and releasesleep implement a mutual exclusion lock.
THEOREM LockIsMutex == Spec => ImplementsMutex
<1>1. L!Spec => L!ImplementsMutex
  BY L!LockImplementsMutex, IoConstants, Zenon
<1>2. (part = "lock" => L!M!Init) => M!Init
  BY IoConstants, Zenon DEF M!Init, L!M!Init
<1>3. part = "lock" /\ (part = "lock")' /\ [\E p \in LockProcs : L!M!Acquire(p) \/ L!M!Release(p)]_L!Holders
      => [\E p \in LockProcs : M!Acquire(p) \/ M!Release(p)]_(IF part = "lock" THEN L!Holders ELSE {})
  BY Zenon DEF M!Acquire, M!Release, L!M!Acquire, L!M!Release
<1>4. ~(part = "lock") /\ ~(part = "lock")' => UNCHANGED (IF part = "lock" THEN L!Holders ELSE {})
  BY Zenon
<1> QED
  BY <1>1, <1>2, <1>3, <1>4, LockPart, PTL DEF ImplementsMutex, L!ImplementsMutex, M!Spec, L!M!Spec

\* pipewrite and piperead implement a bounded queue, whatever their counters wrap at.
THEOREM PipeIsQueue == Spec => ImplementsFifo
<1>1. P!Spec => P!PipeIsFifo
  BY P!PipeImplementsFifo, IoConstants, Zenon
<1>2. (part = "pipe" => P!Fifo!Init) => Fifo!Init
  BY IoConstants, Zenon DEF Fifo!Init, P!Fifo!Init
<1>3. part = "pipe" /\ (part = "pipe")' /\ [P!Fifo!Put \/ P!Fifo!Get]_P!Inside
      => [Fifo!Put \/ Fifo!Get]_(IF part = "pipe" THEN P!Inside ELSE <<>>)
  BY Zenon DEF Fifo!Put, Fifo!Get, P!Fifo!Put, P!Fifo!Get
<1>4. ~(part = "pipe") /\ ~(part = "pipe")' => UNCHANGED (IF part = "pipe" THEN P!Inside ELSE <<>>)
  BY Zenon
<1> QED
  BY <1>1, <1>2, <1>3, <1>4, PipePart, PTL DEF ImplementsFifo, P!PipeIsFifo, Fifo!Spec, P!Fifo!Spec

\* The buffer cache over the driver implements a block device that loses nothing.
THEOREM CacheIsBlockDevice == Spec => ImplementsBlockDevice
<1>1. B!Spec => B!ImplementsBlockDevice
  BY B!CacheImplementsBlockDevice, IoConstants, Zenon
<1>2. (part = "buf" => B!BD!Init) => BD!Init
  BY IoConstants, Zenon DEF BD!Init, B!BD!Init, ZeroDisk, B!BufConstants
<1>3. part = "buf" /\ (part = "buf")' /\ [B!BD!Next]_<<B!Mem, disk, B!Held, B!Bad>>
      => [BD!Next]_<<IF part = "buf" THEN B!Mem ELSE ZeroDisk,
                     IF part = "buf" THEN disk ELSE ZeroDisk,
                     IF part = "buf" THEN B!Held ELSE [p \in BufProcs |-> NoBlock],
                     IF part = "buf" THEN B!Bad ELSE {}>>
  BY Zenon DEF BD!Next, BD!Hold, BD!Let, BD!Change, BD!Sync, BD!Fail, BD!Forget, B!BD!Next,
     B!BD!Hold, B!BD!Let, B!BD!Change, B!BD!Sync, B!BD!Fail, B!BD!Forget
<1>4. ~(part = "buf") /\ ~(part = "buf")'
      => UNCHANGED <<IF part = "buf" THEN B!Mem ELSE ZeroDisk,
                     IF part = "buf" THEN disk ELSE ZeroDisk,
                     IF part = "buf" THEN B!Held ELSE [p \in BufProcs |-> NoBlock],
                     IF part = "buf" THEN B!Bad ELSE {}>>
  BY Zenon DEF ZeroDisk
<1> QED
  BY <1>1, <1>2, <1>3, <1>4, BufPart, PTL DEF ImplementsBlockDevice, B!ImplementsBlockDevice,
     BD!Spec, B!BD!Spec

\* consoleintr and consoleread implement a device that is read by the line.
THEOREM ConsoleIsLineDevice == Spec => ImplementsLineDevice
<1>1. C!Spec => C!ConsoleIsLineDevice
  BY C!ConsoleImplementsLineDevice, IoConstants, Zenon
<1>2. (part = "cons" => C!LD!Init) => LD!Init
  BY IoConstants, Zenon DEF LD!Init, C!LD!Init
<1>3. part = "cons" /\ (part = "cons")' /\ [C!LD!Next]_C!LD!vars => [LD!Next]_LD!vars
  BY Zenon DEF LD!Next, LD!Type, LD!Erase, LD!Read, LD!EndOfFile, LD!vars, C!LD!Next, C!LD!Type,
     C!LD!Erase, C!LD!Read, C!LD!EndOfFile, C!LD!vars
<1>4. ~(part = "cons") /\ ~(part = "cons")' => UNCHANGED LD!vars
  BY Zenon DEF LD!vars
<1> QED
  BY <1>1, <1>2, <1>3, <1>4, ConsPart, PTL DEF ImplementsLineDevice, C!ConsoleIsLineDevice,
     LD!Spec, C!LD!Spec
=============================================================================
