------------------------------ MODULE BufCache ------------------------------
(***************************************************************************)
(* The buffer cache (src/lab6/lab6/bio.c) over the IDE driver (ide.c):     *)
(* bread, bwrite and brelse with the LRU list, the reference counts and    *)
(* the sleep lock of each buffer; the driver's queue, its interrupt, and a *)
(* disk that executes one command at a time.                               *)
(*                                                                         *)
(* A critical section of bcache.lock or of idelock is one action.  The     *)
(* sleep lock of a buffer is its owner (SleepLock shows that it excludes). *)
(* The block numbers of one device stand for dev and blockno.              *)
(***************************************************************************)
EXTENDS Integers, Sequences, FiniteSets

CONSTANTS Procs, NoProc,
          NBUF,
          Blocks, NoBlock,   \* NoBlock: what binit leaves in a buffer
          Data, Zero,        \* the contents of a block; memory and a new disk hold Zero
          MaxPinned          \* bound: the most blocks the log keeps B_DIRTY

Bufs == 1..NBUF
NoBuf == 0

VARIABLES
  lru,                      \* the list from bcache.head.next on
  blockno, refcnt, data,    \* struct buf
  valid, dirty,             \* struct buf: flags, as sets of buffers
  owner,                    \* struct buf: lock
  idequeue,
  cmd, irq, disk,           \* the disk: its command, its interrupt line, its blocks
  pc, buf, want,            \* per process: label, b, blockno
  reserve,                  \* how many blocks this log may keep B_DIRTY
  failed,                   \* history: buffers filled by a read that failed
  panicked                  \* the function that panicked

bcache == <<lru, blockno, refcnt>>
ide == <<idequeue, cmd, irq, disk>>
local == <<pc, buf, want>>
vars == <<bcache, data, valid, dirty, owner, ide, local, reserve, failed, panicked>>

NoCmd == [op |-> "none"]

\* binit pushes the buffers to the front of the list one by one.
Init ==
  /\ lru = [i \in Bufs |-> NBUF + 1 - i]
  /\ blockno = [i \in Bufs |-> NoBlock]
  /\ refcnt = [i \in Bufs |-> 0]
  /\ data = [i \in Bufs |-> Zero]
  /\ valid = {} /\ dirty = {}
  /\ owner = [i \in Bufs |-> NoProc]
  /\ idequeue = <<>> /\ cmd = NoCmd /\ irq = FALSE
  /\ disk = [b \in Blocks |-> Zero]
  /\ pc = [p \in Procs |-> "idle"]
  /\ buf = [p \in Procs |-> NoBuf]
  /\ want = [p \in Procs |-> NoBlock]
  /\ reserve \in 0..MaxPinned
  /\ failed = {} /\ panicked = "no"

-----------------------------------------------------------------------------
Goto(p, l) == pc' = [pc EXCEPT ![p] = l]

\* Mutant: bget recycles a buffer that the log has pinned.
Free_Dirty == {i \in Bufs : refcnt[i] = 0}

\* Mutant: bget recycles a buffer somebody holds or waits for.
Free_Used == {i \in Bufs : i \notin dirty}

\* The buffers bget may recycle.
Free == {i \in Bufs : refcnt[i] = 0 /\ i \notin dirty}

\* The last of S in the list, where bget's second loop starts.
LeastRecent(S) == LET k == CHOOSE k \in Bufs : lru[k] \in S /\ \A j \in k + 1..NBUF : lru[j] \notin S
                  IN lru[k]

\* bget, with bcache.lock: find the block or recycle a buffer.
bget(p, b) ==
  /\ pc[p] = "idle"
  /\ LET cached == {i \in Bufs : blockno[i] = b} IN
     IF cached # {}
     THEN LET i == CHOOSE i \in cached : TRUE IN
          /\ refcnt' = [refcnt EXCEPT ![i] = @ + 1]
          /\ buf' = [buf EXCEPT ![p] = i]
          /\ UNCHANGED <<blockno, valid, dirty, failed, panicked>>
     ELSE IF Free # {}
     THEN LET i == LeastRecent(Free) IN
          /\ blockno' = [blockno EXCEPT ![i] = b]
          /\ valid' = valid \ {i} /\ dirty' = dirty \ {i}
          /\ refcnt' = [refcnt EXCEPT ![i] = 1]
          /\ buf' = [buf EXCEPT ![p] = i]
          /\ failed' = failed \ {i}
          /\ UNCHANGED panicked
     ELSE panicked' = "bget" /\ UNCHANGED <<refcnt, blockno, buf, valid, dirty, failed>>
  /\ want' = [want EXCEPT ![p] = b]
  /\ Goto(p, "lock")
  /\ UNCHANGED <<lru, data, owner, ide>>

\* acquiresleep(&b->lock), at the end of bget.
acquiresleep(p) ==
  /\ pc[p] = "lock"
  /\ owner[buf[p]] = NoProc
  /\ owner' = [owner EXCEPT ![buf[p]] = p]
  /\ Goto(p, "bread")
  /\ UNCHANGED <<bcache, data, valid, dirty, ide, buf, want, failed, panicked>>

\* Mutant: bread reads a block that is B_VALID.
bread_Always(p) ==
  /\ pc[p] = "bread"
  /\ Goto(p, "iderw")
  /\ UNCHANGED <<bcache, data, valid, dirty, owner, ide, buf, want, failed, panicked>>

\* bread's test of B_VALID.
bread(p) ==
  /\ pc[p] = "bread"
  /\ Goto(p, IF buf[p] \in valid THEN "have" ELSE "iderw")
  /\ UNCHANGED <<bcache, data, valid, dirty, owner, ide, buf, want, failed, panicked>>

\* The process that holds the buffer changes it and calls bwrite.
bwrite(p) ==
  /\ pc[p] = "have"
  /\ IF owner[buf[p]] # p
     THEN panicked' = "bwrite" /\ UNCHANGED <<data, dirty, failed, pc>>
     ELSE /\ \E d \in Data : data' = [data EXCEPT ![buf[p]] = d]
          /\ dirty' = dirty \cup {buf[p]}
          /\ failed' = failed \ {buf[p]}
          /\ Goto(p, "iderw")
          /\ UNCHANGED panicked
  /\ UNCHANGED <<bcache, valid, owner, ide, buf, want>>

\* The buffers that are B_DIRTY because of log_write, not of a bwrite in progress.
Pinned == dirty \ {buf[p] : p \in {q \in Procs : pc[q] \in {"iderw", "asleep"}}}

\* It changes the buffer and passes it to log_write, which pins it.
log_write(p) ==
  /\ pc[p] = "have"
  /\ Cardinality(Pinned \cup {buf[p]}) <= reserve
  /\ \E d \in Data : data' = [data EXCEPT ![buf[p]] = d]
  /\ dirty' = dirty \cup {buf[p]}
  /\ failed' = failed \ {buf[p]}
  /\ UNCHANGED <<bcache, valid, owner, ide, local, panicked>>

\* brelse: the sleep lock first.
brelse(p) ==
  /\ pc[p] = "have"
  /\ IF owner[buf[p]] # p
     THEN panicked' = "brelse" /\ UNCHANGED <<owner, pc>>
     ELSE owner' = [owner EXCEPT ![buf[p]] = NoProc] /\ Goto(p, "put") /\ UNCHANGED panicked
  /\ UNCHANGED <<bcache, data, valid, dirty, ide, buf, want, failed>>

\* Mutant: brelse forgets the others who wait for the buffer.
Put_Zero(i) == [refcnt EXCEPT ![i] = 0]

\* b->refcnt--.
Put(i) == [refcnt EXCEPT ![i] = @ - 1]

\* The list after buffer i was taken out of it and put in front.
ToFront(i) ==
  LET k == CHOOSE k \in Bufs : lru[k] = i
  IN [j \in Bufs |-> IF j = 1 THEN i ELSE IF j <= k THEN lru[j - 1] ELSE lru[j]]

\* brelse, with bcache.lock: drop the reference; the last one moves the buffer to
\* the front of the list.
bput(p) ==
  /\ pc[p] = "put"
  /\ LET i == buf[p] IN
     /\ refcnt' = Put(i)
     /\ lru' = IF Put(i)[i] = 0 THEN ToFront(i) ELSE lru
  /\ buf' = [buf EXCEPT ![p] = NoBuf]
  /\ want' = [want EXCEPT ![p] = NoBlock]
  /\ Goto(p, "idle")
  /\ UNCHANGED <<blockno, data, valid, dirty, owner, ide, failed, panicked>>
-----------------------------------------------------------------------------
\* idestart(b): the command, with the data of a write.
Command(i) ==
  IF i \in dirty THEN [op |-> "write", blk |-> blockno[i], data |-> data[i]]
  ELSE [op |-> "read", blk |-> blockno[i]]

\* The request for buffer i is done.
Done(i) == i \in valid /\ i \notin dirty

\* iderw's call of idestart for a request that is the first of the queue.
Start(i) == cmd' = IF idequeue = <<>> THEN Command(i) ELSE cmd

\* iderw, with idelock: queue the buffer, start the disk if it is idle, sleep.
iderw(p) ==
  /\ pc[p] = "iderw"
  /\ LET i == buf[p] IN
     IF owner[i] # p \/ Done(i)
     THEN panicked' = "iderw" /\ UNCHANGED <<idequeue, cmd, pc>>
     ELSE /\ idequeue' = Append(idequeue, i)
          /\ Start(i)
          /\ Goto(p, "asleep")
          /\ UNCHANGED panicked
  /\ UNCHANGED <<bcache, data, valid, dirty, owner, irq, disk, buf, want, failed>>

\* iderw, woken and with idelock again.
iderwAgain(p) ==
  /\ pc[p] = "woken"
  /\ Goto(p, IF Done(buf[p]) THEN "have" ELSE "asleep")
  /\ UNCHANGED <<bcache, data, valid, dirty, owner, ide, buf, want, failed, panicked>>

\* The disk executes its command and raises the interrupt.
diskDone ==
  /\ cmd # NoCmd /\ ~irq
  /\ irq' = TRUE
  /\ disk' = IF cmd.op = "write" THEN [disk EXCEPT ![cmd.blk] = cmd.data] ELSE disk
  /\ UNCHANGED <<bcache, data, valid, dirty, owner, idequeue, cmd, local, failed, panicked>>

\* Mutant: ideintr does not start the next request.
StartNext_Not(rest) == NoCmd

\* ideintr's call of idestart for the rest of the queue.
StartNext(rest) == IF rest = <<>> THEN NoCmd ELSE Command(Head(rest))

\* wakeup(b).
Wake(i) == [p \in Procs |-> IF pc[p] = "asleep" /\ buf[p] = i THEN "woken" ELSE pc[p]]

\* ideintr: the first buffer of the queue is done.  A read whose status is an
\* error leaves the data as it is, and the buffer becomes B_VALID all the same.
ideintr ==
  /\ irq /\ idequeue # <<>>
  /\ LET i == Head(idequeue) IN
     /\ \/ /\ i \notin dirty
           /\ data' = [data EXCEPT ![i] = disk[cmd.blk]]
           /\ UNCHANGED failed
        \/ /\ i \notin dirty
           /\ failed' = failed \cup {i}
           /\ UNCHANGED data
        \/ i \in dirty /\ UNCHANGED <<data, failed>>
     /\ valid' = valid \cup {i} /\ dirty' = dirty \ {i}
     /\ pc' = Wake(i)
     /\ idequeue' = Tail(idequeue)
     /\ cmd' = StartNext(Tail(idequeue))
  /\ irq' = FALSE
  /\ UNCHANGED <<bcache, owner, disk, buf, want, panicked>>

-----------------------------------------------------------------------------
Step(p) ==
  \/ \E b \in Blocks : bget(p, b)
  \/ acquiresleep(p) \/ bread(p) \/ bwrite(p) \/ log_write(p) \/ brelse(p) \/ bput(p)
  \/ iderw(p) \/ iderwAgain(p)

Next ==
  /\ panicked = "no"
  /\ diskDone \/ ideintr \/ \E p \in Procs : Step(p)
  /\ UNCHANGED reserve

Spec == Init /\ [][Next]_vars

-----------------------------------------------------------------------------
\* The only panic of bio.c and ide.c that can be reached is bget's, and that one
\* only if the buffers do not suffice for the processes and the pinned blocks.
OnlyOutOfBuffers ==
  panicked # "no" => panicked = "bget" /\ NBUF < Cardinality(Procs) + reserve

\* From bget to brelse a buffer stays with its block, though others recycle
\* buffers meanwhile; no block has two buffers; and whoever bread has returned to
\* holds the lock of a buffer with contents.
BufferKept ==
  /\ \A p \in Procs : buf[p] # NoBuf => blockno[buf[p]] = want[p]
  /\ \A i, j \in Bufs : blockno[i] = blockno[j] /\ blockno[i] # NoBlock => i = j
  /\ \A p \in Procs : pc[p] = "have" => owner[buf[p]] = p /\ buf[p] \in valid

\* The reference count of a buffer is the number of processes between its bget
\* and the end of brelse.
RefsCounted ==
  \A i \in Bufs : refcnt[i] = Cardinality({p \in Procs : buf[p] = i})

\* The disk works on the first request of the queue, and a process asleep in iderw
\* has its buffer in the queue: no interrupt is missed between its test and sleep.
NoLostRequest ==
  /\ idequeue # <<>> => cmd # NoCmd /\ cmd.blk = blockno[Head(idequeue)]
  /\ \A p \in Procs : pc[p] = "asleep" => \E k \in 1..Len(idequeue) : idequeue[k] = buf[p]

\* The contents of block b that the next holder sees.
Current(b) ==
  LET cached == {i \in Bufs : blockno[i] = b /\ i \in valid}
  IN IF cached = {} THEN disk[b] ELSE data[CHOOSE i \in cached : TRUE]

\* mem, held and bad of module BlockDevice, which the cache over the driver implements.
Mem == [b \in Blocks |-> Current(b)]
Held == [p \in Procs |-> IF buf[p] # NoBuf /\ owner[buf[p]] = p THEN blockno[buf[p]] ELSE NoBlock]
Bad == {blockno[i] : i \in failed}
=============================================================================
