--------------------------- MODULE BufCacheProofs ---------------------------
(***************************************************************************)
(* The buffer cache over the IDE driver, for any number of processes,      *)
(* buffers and blocks: it implements the block device, keeps a buffer with *)
(* its block while it is used, counts its users, loses no request, and     *)
(* panics only for want of buffers.                                        *)
(***************************************************************************)
EXTENDS BufCache, FiniteSetTheorems, WellFoundedInduction, TLAPS

\* Finitely many processes; NoProc is no process, NoBlock no block; a new disk has contents.
BufConstants ==
  /\ IsFiniteSet(Procs) /\ NoProc \notin Procs
  /\ NBUF \in Nat /\ MaxPinned \in Nat
  /\ NoBlock \notin Blocks
  /\ Zero \in Data

Labels == {"idle", "lock", "bread", "have", "iderw", "asleep", "woken", "put"}
\* Where a process holds the sleep lock of its buffer.
Holding == {"bread", "have", "iderw", "asleep", "woken"}

Types ==
  /\ lru \in [Bufs -> Bufs] /\ \A i \in Bufs : \E k \in Bufs : lru[k] = i
  /\ blockno \in [Bufs -> Blocks \cup {NoBlock}]
  /\ refcnt \in [Bufs -> Int]
  /\ data \in [Bufs -> Data] /\ disk \in [Blocks -> Data]
  /\ valid \subseteq Bufs /\ dirty \subseteq valid /\ failed \subseteq valid \ dirty
  /\ owner \in [Bufs -> Procs \cup {NoProc}]
  /\ pc \in [Procs -> Labels] /\ buf \in [Procs -> Bufs \cup {NoBuf}]
  /\ want \in [Procs -> Blocks \cup {NoBlock}]
  /\ idequeue \in Seq(Bufs) /\ irq \in BOOLEAN
  /\ reserve \in Nat

\* Who has a buffer, and of which block; only a panic of bget leaves a process without one.
Using ==
  /\ \A p \in Procs : /\ pc[p] = "idle" => buf[p] = NoBuf
                      /\ pc[p] \notin {"idle", "lock"} => buf[p] # NoBuf
                      /\ pc[p] = "lock" /\ panicked = "no" => buf[p] # NoBuf
                      /\ buf[p] # NoBuf => want[p] \in Blocks /\ blockno[buf[p]] = want[p]
  /\ \A i, j \in Bufs : blockno[i] = blockno[j] /\ blockno[i] # NoBlock => i = j
  /\ \A i \in valid : blockno[i] \in Blocks

\* The sleep lock of a buffer is held by one of those who have it.
Owned == \A p \in Procs, i \in Bufs : owner[i] = p <=> buf[p] = i /\ pc[p] \in Holding

\* What is known of the flags of the buffer at a label.
Flagged ==
  \A p \in Procs : /\ pc[p] = "have" => buf[p] \in valid
                   /\ pc[p] = "woken" => Done(buf[p])
                   /\ pc[p] \in {"iderw", "asleep"} => ~Done(buf[p])

\* The queue has the buffers of those asleep in iderw, each once.
Queue == {idequeue[k] : k \in 1..Len(idequeue)}
Queued ==
  /\ \A p \in Procs : pc[p] = "asleep" => buf[p] \in Queue
  /\ \A i \in Queue : \E p \in Procs : pc[p] = "asleep" /\ buf[p] = i
  /\ \A k, l \in 1..Len(idequeue) : idequeue[k] = idequeue[l] => k = l

\* The disk has the command of the first of the queue, and before the interrupt has executed it.
Device ==
  /\ idequeue = <<>> => cmd = NoCmd /\ ~irq
  /\ idequeue # <<>> => cmd = Command(Head(idequeue))
  /\ irq /\ idequeue # <<>> /\ Head(idequeue) \in dirty =>
       disk[blockno[Head(idequeue)]] = data[Head(idequeue)]

\* A buffer that is neither waiting to be written nor the victim of a failed read is as the disk.
Coherent == \A i \in valid : i \notin dirty /\ i \notin failed => data[i] = disk[blockno[i]]

PinnedFit == Cardinality(Pinned) <= reserve

IInv ==
  /\ Types /\ Using /\ RefsCounted /\ Owned /\ Flagged /\ Queued /\ Device /\ Coherent /\ PinnedFit
  /\ OnlyOutOfBuffers

BD == INSTANCE BlockDevice WITH mem <- Mem, held <- Held, bad <- Bad
-----------------------------------------------------------------------------
Less == {ss \in Nat \X Nat : ss[1] < ss[2]}

\* The backward loop over the list, in bget, finds a buffer of S if there is one: every buffer is in
\* the list.
LEMMA LeastRecentFound ==
  ASSUME BufConstants, Types, NEW S \in SUBSET Bufs, S # {}
  PROVE  LeastRecent(S) \in S
<1> DEFINE T == {NBUF - k : k \in {k \in Bufs : lru[k] \in S}}
<1>1. NBUF \in Nat /\ \A k \in Bufs : k \in Nat /\ NBUF - k \in Nat
  BY DEF BufConstants, Bufs
<1>2. T \in SUBSET Nat
  BY <1>1, Zenon
<1>3. T # {}
  <2>1. PICK i \in S : TRUE
    BY Zenon
  <2>2. PICK k \in Bufs : lru[k] = i
    BY Zenon DEF Types
  <2>3. NBUF - k \in T
    BY <2>2, Zenon
  <2> QED
    BY <2>3, Zenon
<1>4. IsWellFoundedOn(Less, Nat)
  BY NatLessThanWellFounded, Zenon DEF OpToRel, Less
<1>5. PICK x \in T : \A y \in T : ~(<<y, x>> \in Less)
  BY <1>2, <1>3, <1>4, WFMin, Zenon
<1>6. PICK k \in Bufs : lru[k] \in S /\ x = NBUF - k
  BY <1>5, Zenon
<1>7. ASSUME NEW j \in k + 1..NBUF, lru[j] \in S PROVE FALSE
  <2>1. j \in Bufs /\ NBUF - j < NBUF - k
    BY <1>1, <1>7 DEF Bufs
  <2>2. NBUF - j \in T
    BY <2>1, <1>7, Zenon
  <2>3. <<NBUF - j, NBUF - k>> \in Less
    BY <2>1, <1>1, Zenon DEF Less
  <2> QED
    BY <2>2, <2>3, <1>5, <1>6, Zenon
<1> QED
  BY <1>6, <1>7, Zenon DEF LeastRecent

\* brelse's move to the front keeps every buffer in the list.
LEMMA ListKept ==
  ASSUME BufConstants, Types, NEW i \in Bufs
  PROVE  /\ ToFront(i) \in [Bufs -> Bufs]
         /\ \A v \in Bufs : \E j \in Bufs : ToFront(i)[j] = v
<1> DEFINE k == CHOOSE k \in Bufs : lru[k] = i
<1>1. k \in Bufs /\ lru[k] = i
  BY Zenon DEF Types
<1>2. ToFront(i) = [j \in Bufs |-> IF j = 1 THEN i ELSE IF j <= k THEN lru[j - 1] ELSE lru[j]]
  BY Zenon DEF ToFront
<1> HIDE DEF k
<1>3. NBUF \in Nat /\ lru \in [Bufs -> Bufs]
  BY Zenon DEF Types, BufConstants
<1>4. ToFront(i) \in [Bufs -> Bufs]
  <2>1. ASSUME NEW j \in Bufs, j # 1, j <= k PROVE j - 1 \in Bufs
    BY <2>1, <1>1, <1>3 DEF Bufs
  <2>2. \A j \in Bufs : (IF j = 1 THEN i ELSE IF j <= k THEN lru[j - 1] ELSE lru[j]) \in Bufs
    BY <2>1, <1>3, Zenon
  <2> QED
    BY <1>2, <2>2, Zenon
<1>5. ASSUME NEW v \in Bufs PROVE \E j \in Bufs : ToFront(i)[j] = v
  <2>1. PICK m \in Bufs : lru[m] = v
    BY Zenon DEF Types
  <2>0. k \in Int /\ m \in Int
    BY <1>1, <1>3 DEF Bufs
  <2>2. CASE m < k
    <3>1. m + 1 \in Bufs /\ m + 1 # 1 /\ m + 1 <= k /\ m + 1 - 1 = m
      BY <1>1, <2>2, <1>3 DEF Bufs
    <3>2. PICK j \in Bufs : j = m + 1 /\ j # 1 /\ j <= k /\ j - 1 = m
      BY <3>1, <2>0
    <3> QED
      BY <3>2, <2>1, <1>2, Zenon
  <2>3. CASE m = k
    <3>1. 1 \in Bufs
      BY <1>1, <1>3 DEF Bufs
    <3> QED
      BY <3>1, <2>1, <2>3, <1>1, <1>2, Zenon
  <2>4. CASE m > k
    <3>1. m # 1 /\ ~(m <= k)
      BY <1>1, <2>4, <1>3 DEF Bufs
    <3> QED
      BY <3>1, <2>1, <1>2, Zenon
  <2> QED
    BY <2>0, <2>2, <2>3, <2>4
<1> QED
  BY <1>4, <1>5, Zenon

\* No buffer is NoBuf.
LEMMA NoBufIsNone ==
  ASSUME BufConstants
  PROVE  NoBuf \notin Bufs
<1> QED
  BY DEF NoBuf, Bufs, BufConstants

Users(i) == {p \in Procs : buf[p] = i}

\* A buffer without references is nobody's.
LEMMA Unused ==
  ASSUME BufConstants, RefsCounted, NEW i \in Bufs
  PROVE  IsFiniteSet(Users(i)) /\ (refcnt[i] = 0 <=> \A p \in Procs : buf[p] # i)
<1>1. IsFiniteSet(Users(i))
  BY FS_Subset, Zenon DEF Users, BufConstants
<1>2. refcnt[i] = Cardinality(Users(i))
  BY Zenon DEF RefsCounted, Users
<1>3. refcnt[i] = 0 <=> Users(i) = {}
  BY <1>1, <1>2, FS_EmptySet, Zenon
<1> QED
  BY <1>1, <1>3, Zenon DEF Users

\* b->refcnt++ and b->refcnt = 1 of bget, for the process that gets the buffer.
LEMMA RefsUp ==
  ASSUME BufConstants, Types, RefsCounted, NEW p \in Procs, buf[p] = NoBuf, NEW i \in Bufs,
         buf' = [buf EXCEPT ![p] = i], refcnt' = [refcnt EXCEPT ![i] = refcnt[i] + 1]
  PROVE  RefsCounted'
<1>1. NoBuf \notin Bufs
  BY NoBufIsNone, Zenon
<1>2. refcnt'[i] = refcnt[i] + 1 /\ \A j \in Bufs : j # i => refcnt'[j] = refcnt[j]
  BY Zenon DEF Types
<1>3. \A j \in Bufs : refcnt[j] = Cardinality(Users(j))
  BY Zenon DEF RefsCounted, Users
<1>4. Users(i)' = Users(i) \cup {p} /\ p \notin Users(i)
  <2>1. \A q \in Procs : buf'[q] = i <=> buf[q] = i \/ q = p
    BY <1>1, Zenon DEF Types
  <2>2. {q \in Procs : buf'[q] = i} = {q \in Procs : buf[q] = i} \cup {p}
    BY <2>1, Zenon
  <2> QED
    BY <1>1, <2>2, Zenon DEF Users
<1>5. Cardinality(Users(i)') = Cardinality(Users(i)) + 1
  BY <1>4, Unused, FS_AddElement, Zenon
<1>6. \A j \in Bufs : j # i => Users(j)' = Users(j)
  BY <1>1, Zenon DEF Types, Users
<1>7. \A j \in Bufs : refcnt'[j] = Cardinality(Users(j)')
  BY <1>2, <1>3, <1>5, <1>6, Zenon
<1> QED
  BY <1>7, Zenon DEF RefsCounted, Users

\* b->refcnt-- of brelse.
LEMMA RefsDown ==
  ASSUME BufConstants, Types, RefsCounted, NEW p \in Procs, NEW i \in Bufs, buf[p] = i,
         buf' = [buf EXCEPT ![p] = NoBuf], refcnt' = Put(i)
  PROVE  RefsCounted' /\ refcnt' \in [Bufs -> Int]
<1>1. NoBuf \notin Bufs
  BY NoBufIsNone, Zenon
<1>2. refcnt'[i] = refcnt[i] - 1 /\ (\A j \in Bufs : j # i => refcnt'[j] = refcnt[j])
      /\ refcnt' \in [Bufs -> Int]
  BY DEF Types, Put
<1>3. \A j \in Bufs : refcnt[j] = Cardinality(Users(j))
  BY Zenon DEF RefsCounted, Users
<1>4. Users(i)' = Users(i) \ {p} /\ p \in Users(i)
  <2>1. p \in Users(i)
    BY Zenon DEF Users
  <2>2. \A q \in Procs : buf'[q] = i <=> buf[q] = i /\ q # p
    BY <1>1, Zenon DEF Types
  <2>3. {q \in Procs : buf'[q] = i} = {q \in Procs : buf[q] = i} \ {p}
    BY <2>2, Zenon
  <2> QED
    BY <2>1, <2>3, Zenon DEF Users
<1>5. Cardinality(Users(i) \ {p}) = Cardinality(Users(i)) - 1
  BY <1>1, <1>4, Unused, FS_RemoveElement, Zenon
<1>6. \A j \in Bufs : j # i => Users(j)' = Users(j)
  BY <1>1, Zenon DEF Types, Users
<1>7. \A j \in Bufs : refcnt'[j] = Cardinality(Users(j)')
  BY <1>2, <1>3, <1>4, <1>5, <1>6, Zenon
<1> QED
  BY <1>2, <1>7, Zenon DEF RefsCounted, Users
-----------------------------------------------------------------------------
\* The queue holds buffers.
LEMMA QueueOfBufs ==
  ASSUME Types
  PROVE  Queue \subseteq Bufs
<1> QED
  BY DEF Queue, Types

\* Whoever is past bget has a buffer, and of a block.
LEMMA HasBuffer ==
  ASSUME Types, Using, NEW p \in Procs,
         pc[p] \in Holding \cup {"put"} \/ (pc[p] = "lock" /\ panicked = "no")
  PROVE  buf[p] # NoBuf /\ buf[p] \in Bufs /\ blockno[buf[p]] \in Blocks
<1>1. buf[p] # NoBuf
  <2>1. pc[p] \in Holding \cup {"put"} => pc[p] \notin {"idle", "lock"}
    BY Zenon DEF Holding
  <2> QED
    BY <2>1, Zenon DEF Using
<1>2. buf[p] \in Bufs
  BY <1>1, Zenon DEF Types
<1> QED
  BY <1>1, <1>2, Zenon DEF Using

\* Whoever is between acquiresleep and brelse has the lock of its buffer, alone.
LEMMA Owner ==
  ASSUME Types, Using, Owned, NEW p \in Procs, pc[p] \in Holding
  PROVE  owner[buf[p]] = p /\ \A q \in Procs : q # p /\ buf[q] = buf[p] => pc[q] \notin Holding
<1>1. PICK i \in Bufs : buf[p] = i
  BY HasBuffer, Zenon
<1>2. owner[i] = p
  BY <1>1, Zenon DEF Owned
<1>3. ASSUME NEW q \in Procs, q # p, buf[q] = i, pc[q] \in Holding PROVE FALSE
  BY <1>2, <1>3, Zenon DEF Owned
<1> QED
  BY <1>1, <1>2, <1>3, Zenon

\* A step that only moves processes that have a buffer keeps Using.
LEMMA UsingKept ==
  ASSUME Using, UNCHANGED <<blockno, buf, want, panicked>>, \A i \in valid' : i \in valid \/ blockno[i] \in Blocks,
         \A q \in Procs : pc'[q] = pc[q] \/ (buf[q] # NoBuf /\ pc'[q] # "idle")
  PROVE  Using'
<1>1. ASSUME NEW q \in Procs
      PROVE  /\ pc'[q] = "idle" => buf[q] = NoBuf
             /\ pc'[q] \notin {"idle", "lock"} => buf[q] # NoBuf
             /\ pc'[q] = "lock" /\ panicked = "no" => buf[q] # NoBuf
             /\ buf[q] # NoBuf => want[q] \in Blocks /\ blockno[buf[q]] = want[q]
  <2>1. CASE pc'[q] = pc[q]
    BY <2>1, Zenon DEF Using
  <2>2. CASE buf[q] # NoBuf /\ pc'[q] # "idle"
    BY <2>2, Zenon DEF Using
  <2> QED
    BY <2>1, <2>2, Zenon
<1>2. UNCHANGED blockno /\ UNCHANGED buf /\ UNCHANGED want /\ UNCHANGED panicked
  BY Zenon
<1>3. \A i, j \in Bufs : blockno'[i] = blockno'[j] /\ blockno'[i] # NoBlock => i = j
  BY <1>2, Zenon DEF Using
<1>4. \A i \in valid' : blockno'[i] \in Blocks
  BY <1>2, Zenon DEF Using
<1> QED
  BY <1>1, <1>2, <1>3, <1>4, Zenon DEF Using

\* A step that moves nobody into Holding or out of it keeps Owned.
LEMMA OwnedKept ==
  ASSUME Owned, UNCHANGED owner,
         \A q \in Procs : pc'[q] \in Holding <=> pc[q] \in Holding,
         \A q \in Procs : pc[q] \in Holding => buf'[q] = buf[q]
  PROVE  Owned'
<1> SUFFICES ASSUME NEW q \in Procs, NEW i \in Bufs
             PROVE  owner'[i] = q <=> buf'[q] = i /\ pc'[q] \in Holding
  BY Zenon DEF Owned
<1>1. owner[i] = q <=> buf[q] = i /\ pc[q] \in Holding
  BY Zenon DEF Owned
<1>2. pc'[q] \in Holding <=> pc[q] \in Holding
  BY Zenon
<1>3. CASE pc[q] \in Holding
  BY <1>1, <1>2, <1>3, Zenon
<1>4. CASE pc[q] \notin Holding
  BY <1>1, <1>2, <1>4, Zenon
<1> QED
  BY <1>3, <1>4, Zenon

\* A step that leaves the driver and the disk alone, and the buffers in the queue with those
\* asleep for them, keeps the queue and the command of the disk right.
LEMMA QueueKept ==
  ASSUME Types, Queued, Device, UNCHANGED ide,
         \A q \in Procs : pc[q] = "asleep" \/ pc'[q] = "asleep" => pc'[q] = pc[q] /\ buf'[q] = buf[q],
         \A i \in Queue : blockno'[i] = blockno[i] /\ data'[i] = data[i] /\ (i \in dirty' <=> i \in dirty)
  PROVE  Queued' /\ Device'
<1>1. Queue' = Queue /\ UNCHANGED <<idequeue, cmd, irq, disk>>
  BY Zenon DEF Queue, ide
<1>2. Queued'
  <2>1. ASSUME NEW q \in Procs PROVE (pc'[q] = "asleep" <=> pc[q] = "asleep") /\ (pc[q] = "asleep" => buf'[q] = buf[q])
    BY Zenon
  <2>2. \A q \in Procs : pc'[q] = "asleep" => buf'[q] \in Queue'
    BY <1>1, <2>1, Zenon DEF Queued
  <2>3. \A i \in Queue' : \E q \in Procs : pc'[q] = "asleep" /\ buf'[q] = i
    BY <1>1, <2>1 DEF Queued
  <2>4. \A k, l \in 1..Len(idequeue') : idequeue'[k] = idequeue'[l] => k = l
    BY <1>1, Zenon DEF Queued
  <2> QED
    BY <2>2, <2>3, <2>4, Zenon DEF Queued
<1>3. idequeue # <<>> => Head(idequeue) \in Queue
  BY DEF Types, Queue
<1>4. ASSUME idequeue # <<>> PROVE Command(Head(idequeue))' = Command(Head(idequeue))
  BY <1>1, <1>3, <1>4, Zenon DEF Command
<1>5. Device'
  BY <1>1, <1>3, <1>4, Zenon DEF Device
<1> QED
  BY <1>2, <1>5, Zenon

\* The buffer that a process has locked is nobody else's to wait for, so it is not in the queue
\* unless that process sleeps.
LEMMA NotQueued ==
  ASSUME BufConstants, Types, Owned, Queued, NEW p \in Procs, pc[p] \in Holding, pc[p] # "asleep"
  PROVE  buf[p] \notin Queue
<1>1. ASSUME NEW i \in Bufs, buf[p] = i, NEW q \in Procs, pc[q] = "asleep", buf[q] = i PROVE FALSE
  <2>1. pc[q] \in Holding /\ p # q
    BY <1>1, Zenon DEF Holding
  <2>2. owner[i] = p /\ owner[i] = q
    BY <1>1, <2>1, Zenon DEF Owned
  <2> QED
    BY <2>1, <2>2, Zenon
<1>2. Queue \subseteq Bufs
  BY QueueOfBufs, Zenon
<1> QED
  BY <1>1, <1>2, Zenon DEF Queued

\* A buffer nobody has is not in the queue and has no owner.
LEMMA FreeIsFree ==
  ASSUME BufConstants, Types, Owned, Queued, NEW i \in Bufs, \A p \in Procs : buf[p] # i
  PROVE  i \notin Queue /\ owner[i] = NoProc
<1>1. i \notin Queue
  BY Zenon DEF Queued
<1>2. \A p \in Procs : owner[i] # p
  BY Zenon DEF Owned
<1> QED
  BY <1>1, <1>2, Zenon DEF Types

\* The bound on the pinned buffers holds when there are fewer of them.
LEMMA PinnedLess ==
  ASSUME BufConstants, Types, PinnedFit, Pinned' \subseteq Pinned, UNCHANGED reserve
  PROVE  PinnedFit'
<1>1. IsFiniteSet(Bufs)
  BY FS_Interval DEF Bufs, BufConstants
<1>2. Pinned \subseteq Bufs
  BY Zenon DEF Pinned, Types
<1>3. IsFiniteSet(Pinned)
  BY <1>1, <1>2, FS_Subset, Zenon
<1>4. IsFiniteSet(Pinned') /\ Cardinality(Pinned') <= Cardinality(Pinned)
  BY <1>3, FS_Subset, Zenon
<1>5. Cardinality(Pinned) \in Int /\ Cardinality(Pinned') \in Int /\ reserve \in Int
  BY <1>3, <1>4, FS_CardinalityType DEF Types
<1>6. Cardinality(Pinned) <= reserve
  BY Zenon DEF PinnedFit
<1> HIDE DEF Pinned
<1>7. Cardinality(Pinned') <= reserve'
  BY <1>4, <1>5, <1>6
<1> QED
  BY <1>7, Zenon DEF PinnedFit

Busy == {"iderw", "asleep"}

\* A step that marks no buffer B_DIRTY and lets nobody out of iderw whose buffer is pins none.
LEMMA PinnedKept ==
  ASSUME BufConstants, Types, PinnedFit, UNCHANGED reserve, dirty' \subseteq dirty,
         \A q \in Procs : pc[q] \in Busy /\ buf[q] \in dirty' => pc'[q] \in Busy /\ buf'[q] = buf[q]
  PROVE  PinnedFit'
<1> DEFINE B == {buf[q] : q \in {q \in Procs : pc[q] \in Busy}}
           C == {buf'[q] : q \in {q \in Procs : pc'[q] \in Busy}}
<1>1. Pinned = dirty \ B /\ Pinned' = dirty' \ C
  BY Zenon DEF Pinned, Busy
<1>2. \A i \in B : i \in dirty' => i \in C
  BY Zenon
<1>3. Pinned' \subseteq Pinned
  BY <1>1, <1>2, Zenon
<1> QED
  BY <1>3, PinnedLess, Zenon

\* binit makes the invariant true.
LEMMA InitHolds ==
  ASSUME BufConstants, Init
  PROVE  IInv
<1>1. Types
  <2>1. lru \in [Bufs -> Bufs]
    BY DEF Init, Bufs, BufConstants
  <2>2. ASSUME NEW i \in Bufs PROVE \E k \in Bufs : lru[k] = i
    <3>1. NBUF + 1 - i \in Bufs /\ lru[NBUF + 1 - i] = i
      BY DEF Init, Bufs, BufConstants
    <3> QED
      BY <3>1, Zenon
  <2>3. refcnt \in [Bufs -> Int] /\ reserve \in Nat /\ idequeue \in Seq(Bufs)
    BY DEF Init, BufConstants
  <2>4. /\ blockno \in [Bufs -> Blocks \cup {NoBlock}]
        /\ data \in [Bufs -> Data] /\ disk \in [Blocks -> Data]
        /\ owner \in [Bufs -> Procs \cup {NoProc}]
    BY Zenon DEF Init, BufConstants
  <2>5. valid = {} /\ dirty = {} /\ failed = {} /\ irq \in BOOLEAN
    BY Zenon DEF Init
  <2>6. /\ pc \in [Procs -> Labels] /\ buf \in [Procs -> Bufs \cup {NoBuf}]
        /\ want \in [Procs -> Blocks \cup {NoBlock}]
    BY Zenon DEF Init, Labels
  <2> QED
    BY <2>1, <2>2, <2>3, <2>4, <2>5, <2>6, Zenon DEF Types
<1>2. Using
  BY Zenon DEF Init, Using
<1>3. NoBuf \notin Bufs
  BY NoBufIsNone, Zenon
<1>4. RefsCounted
  <2>1. ASSUME NEW i \in Bufs PROVE {p \in Procs : buf[p] = i} = {}
    BY <1>3, Zenon DEF Init
  <2> QED
    BY <2>1, FS_EmptySet, Zenon DEF RefsCounted, Init
<1>5. Owned /\ Flagged
  BY <1>3, Zenon DEF Init, Owned, Flagged, Holding, BufConstants
<1>6. Queued /\ Device
  <2>1. idequeue = <<>> /\ Queue = {} /\ Len(idequeue) = 0
    BY DEF Init, Queue
  <2>2. Queued
    BY <2>1 DEF Init, Queued
  <2> QED
    BY <2>1, <2>2, Zenon DEF Init, Device
<1>7. Pinned = {}
  BY Zenon DEF Init, Pinned
<1>8. PinnedFit
  BY <1>1, <1>7, FS_EmptySet DEF PinnedFit, Types
<1>9. Coherent /\ OnlyOutOfBuffers
  BY Zenon DEF Init, Coherent, OnlyOutOfBuffers
<1> QED
  BY <1>1, <1>2, <1>4, <1>5, <1>6, <1>8, <1>9, Zenon DEF IInv
-----------------------------------------------------------------------------
\* acquiresleep: the process takes the lock of its buffer, which was free.
LEMMA AcquireHolds ==
  ASSUME BufConstants, IInv, panicked = "no", UNCHANGED reserve, NEW p \in Procs, acquiresleep(p)
  PROVE  IInv'
<1> USE DEF IInv
<1> DEFINE i == buf[p]
<1>1. /\ pc[p] = "lock" /\ i \in Bufs /\ owner[i] = NoProc /\ "bread" \in Labels
      /\ owner' = [owner EXCEPT ![i] = p] /\ pc' = [pc EXCEPT ![p] = "bread"]
      /\ UNCHANGED <<bcache, data, valid, dirty, ide, buf, want, failed, panicked>>
  BY Zenon DEF acquiresleep, Goto, Using, Types, Labels
<1>2. /\ pc'[p] = "bread" /\ \A q \in Procs : q # p => pc'[q] = pc[q]
      /\ owner'[i] = p /\ \A j \in Bufs : j # i => owner'[j] = owner[j]
      /\ UNCHANGED <<lru, blockno, refcnt, data, valid, dirty, idequeue, cmd, irq, disk, buf, want, failed, panicked>>
  BY <1>1, Zenon DEF Types, bcache, ide
<1>3. Types'
  BY <1>1, <1>2, Zenon DEF Types
<1>4. Using'
  <2>1. buf[p] # NoBuf
    BY <1>1, HasBuffer, Zenon
  <2> QED
    BY <1>2, <2>1, UsingKept, Zenon
<1>5. RefsCounted'
  BY <1>2, Zenon DEF RefsCounted
<1>6. Owned'
  <2>1. \A q \in Procs : owner[i] # q /\ (q # p /\ buf[q] = i => pc[q] \notin Holding)
    BY <1>1, Zenon DEF Owned, BufConstants
  <2> QED
    <3> SUFFICES ASSUME NEW q \in Procs, NEW j \in Bufs
                 PROVE  owner'[j] = q <=> buf'[q] = j /\ pc'[q] \in Holding
      BY Zenon DEF Owned
    <3>1. owner[j] = q <=> buf[q] = j /\ pc[q] \in Holding
      BY Zenon DEF Owned
    <3>2. pc[p] \notin Holding /\ pc'[p] \in Holding /\ buf' = buf
      BY <1>1, <1>2, Zenon DEF Holding
    <3>3. CASE q = p
      BY <1>1, <1>2, <3>1, <3>2, <3>3, Zenon
    <3>4. CASE q # p
      BY <1>1, <1>2, <2>1, <3>1, <3>2, <3>4, Zenon
    <3> QED
      BY <3>3, <3>4, Zenon
<1>7. Flagged'
  BY <1>1, <1>2, Zenon DEF Flagged, Done
<1>8. Queued' /\ Device'
  BY <1>1, <1>2, QueueKept, Zenon DEF ide
<1>9. Coherent' /\ OnlyOutOfBuffers'
  BY <1>2, Zenon DEF Coherent, OnlyOutOfBuffers
<1>10. PinnedFit'
  BY <1>1, <1>2, PinnedKept, Zenon DEF Busy
<1> QED
  BY <1>3, <1>4, <1>5, <1>6, <1>7, <1>8, <1>9, <1>10, Zenon

\* bread's test: a buffer that is not B_VALID is not B_DIRTY, so the request will be to read it.
LEMMA BreadHolds ==
  ASSUME BufConstants, IInv, panicked = "no", UNCHANGED reserve, NEW p \in Procs, bread(p)
  PROVE  IInv'
<1> USE DEF IInv
<1> DEFINE i == buf[p]
           l == IF i \in valid THEN "have" ELSE "iderw"
<1>1. /\ pc[p] = "bread" /\ i \in Bufs /\ pc' = [pc EXCEPT ![p] = l] /\ l \in Labels
      /\ UNCHANGED <<bcache, data, valid, dirty, owner, ide, buf, want, failed, panicked>>
  <2>1. pc[p] = "bread" /\ pc' = [pc EXCEPT ![p] = l]
        /\ UNCHANGED <<bcache, data, valid, dirty, owner, ide, buf, want, failed, panicked>>
    BY Zenon DEF bread, Goto
  <2>2. i \in Bufs
    BY <2>1, HasBuffer, Zenon DEF Holding
  <2>3. l \in Labels
    BY Zenon DEF Labels
  <2> QED
    BY <2>1, <2>2, <2>3, Zenon
<1>2. /\ pc'[p] = l /\ \A q \in Procs : q # p => pc'[q] = pc[q]
      /\ UNCHANGED <<lru, blockno, refcnt, data, valid, dirty, owner, idequeue, cmd, irq, disk,
                     buf, want, failed, panicked>>
  BY <1>1, Zenon DEF Types, bcache, ide
<1>3. Types'
  BY <1>1, <1>2, Zenon DEF Types
<1>4. Using'
  <2>1. buf[p] # NoBuf
    BY <1>1, <1>2, HasBuffer, Zenon DEF Holding
  <2>2. l # "idle"
    BY Zenon
  <2> QED
    BY <1>1, <1>2, <2>1, <2>2, UsingKept, Zenon
<1>5. RefsCounted'
  BY <1>2, Zenon DEF RefsCounted
<1>6. Owned'
  <2>1. \A q \in Procs : pc'[q] \in Holding <=> pc[q] \in Holding
    BY <1>1, <1>2, Zenon DEF Holding
  <2> QED
    BY <1>1, <1>2, <2>1, OwnedKept, Zenon
<1>7. Flagged'
  BY <1>1, <1>2, Zenon DEF Flagged, Done, Types
<1>8. Queued' /\ Device'
  <2>1. l # "asleep"
    BY Zenon
  <2> QED
    BY <1>1, <1>2, <2>1, QueueKept, Zenon DEF ide
<1>9. Coherent' /\ OnlyOutOfBuffers'
  BY <1>2, Zenon DEF Coherent, OnlyOutOfBuffers
<1>10. PinnedFit'
  BY <1>1, <1>2, PinnedKept, Zenon DEF Busy
<1> QED
  BY <1>3, <1>4, <1>5, <1>6, <1>7, <1>8, <1>9, <1>10, Zenon

\* What bwrite and log_write do to the buffer of p before pc changes.
Written(p) ==
  /\ pc[p] = "have"
  /\ \E d \in Data : data' = [data EXCEPT ![buf[p]] = d]
  /\ dirty' = dirty \cup {buf[p]} /\ failed' = failed \ {buf[p]}
  /\ UNCHANGED <<lru, blockno, refcnt, valid, owner, idequeue, cmd, irq, disk, buf, want, panicked>>

\* Whoever holds a buffer with contents may change it: nobody else reads or queues it.
LEMMA WriteHolds ==
  ASSUME BufConstants, IInv, panicked = "no", UNCHANGED reserve, NEW p \in Procs, Written(p), PinnedFit',
         NEW l \in {"have", "iderw"}, pc' = [pc EXCEPT ![p] = l]
  PROVE  IInv'
<1> USE DEF IInv
<1> DEFINE i == buf[p]
<1>1. /\ pc[p] = "have" /\ i \in Bufs /\ i \in valid /\ l \in Labels
      /\ pc'[p] = l /\ \A q \in Procs : q # p => pc'[q] = pc[q]
      /\ dirty' = dirty \cup {i} /\ failed' = failed \ {i}
      /\ data' \in [Bufs -> Data] /\ \A j \in Bufs : j # i => data'[j] = data[j]
      /\ UNCHANGED <<lru, blockno, refcnt, valid, owner, idequeue, cmd, irq, disk, buf, want, panicked>>
  <2>1. /\ pc[p] = "have" /\ i \in valid /\ l \in Labels
        /\ dirty' = dirty \cup {i} /\ failed' = failed \ {i}
        /\ UNCHANGED <<lru, blockno, refcnt, valid, owner, idequeue, cmd, irq, disk, buf, want, panicked>>
    BY Zenon DEF Written, Labels, Flagged
  <2>2. i \in Bufs
    BY <2>1, HasBuffer, Zenon DEF Holding
  <2>3. pc'[p] = l /\ \A q \in Procs : q # p => pc'[q] = pc[q]
    BY Zenon DEF Types
  <2>4. PICK d \in Data : data' = [data EXCEPT ![i] = d]
    BY Zenon DEF Written
  <2>5. data' \in [Bufs -> Data] /\ \A j \in Bufs : j # i => data'[j] = data[j]
    BY <2>2, <2>4, Zenon DEF Types
  <2> QED
    BY <2>1, <2>2, <2>3, <2>5, Zenon
<1>3. Types'
  BY <1>1, Zenon DEF Types
<1>4. Using'
  <2>1. buf[p] # NoBuf
    BY <1>1, HasBuffer, Zenon DEF Holding
  <2> QED
    BY <1>1, <2>1, UsingKept, Zenon
<1>5. RefsCounted'
  BY <1>1, Zenon DEF RefsCounted
<1>6. Owned'
  <2>1. \A q \in Procs : pc'[q] \in Holding <=> pc[q] \in Holding
    BY <1>1, Zenon DEF Holding
  <2> QED
    BY <1>1, <2>1, OwnedKept, Zenon
<1>7. Flagged'
  <2>1. ASSUME NEW q \in Procs, q # p, pc[q] \in Holding PROVE buf[q] # i
    BY <1>1, <2>1, Owner, Zenon DEF Holding
  <2> QED
    BY <1>1, <2>1, Zenon DEF Flagged, Done, Holding
<1>8. Queued' /\ Device'
  <2>1. i \notin Queue /\ Queue \subseteq Bufs
    <3>1. pc[p] \in Holding /\ pc[p] # "asleep"
      BY <1>1, Zenon DEF Holding
    <3>2. Queue \subseteq Bufs
      BY QueueOfBufs, Zenon
    <3> QED
      BY <3>1, <3>2, NotQueued, Zenon
  <2> QED
    BY <1>1, <2>1, QueueKept, Zenon DEF ide
<1>9. Coherent' /\ OnlyOutOfBuffers'
  BY <1>1, Zenon DEF Coherent, OnlyOutOfBuffers, Types
<1> QED
  BY <1>3, <1>4, <1>5, <1>6, <1>7, <1>8, <1>9, Zenon

\* bwrite: its panic is not reached, and the buffer will be written, so it stops being pinned.
LEMMA BwriteHolds ==
  ASSUME BufConstants, IInv, panicked = "no", UNCHANGED reserve, NEW p \in Procs, bwrite(p)
  PROVE  IInv' /\ Written(p)
<1>1. owner[buf[p]] = p /\ pc[p] = "have"
  BY Owner, Zenon DEF bwrite, IInv, Holding
<1>2. Written(p) /\ pc' = [pc EXCEPT ![p] = "iderw"]
  BY <1>1, Zenon DEF bwrite, Written, Goto, bcache, ide
<1>3. Pinned' \subseteq Pinned
  <2>1. pc'[p] = "iderw" /\ \A q \in Procs : q # p => pc'[q] = pc[q]
    BY <1>2, Zenon DEF IInv, Types
  <2> QED
    BY <1>1, <1>2, <2>1, Zenon DEF Pinned, Written
<1>4. PinnedFit'
  BY <1>3, PinnedLess, Zenon DEF IInv
<1> QED
  BY <1>2, <1>4, WriteHolds, Zenon

\* log_write pins the buffer, if the log may pin so many.
LEMMA LogWriteHolds ==
  ASSUME BufConstants, IInv, panicked = "no", UNCHANGED reserve, NEW p \in Procs, log_write(p)
  PROVE  IInv' /\ Written(p)
<1>1. Written(p) /\ UNCHANGED pc /\ Cardinality(Pinned \cup {buf[p]}) <= reserve
  BY Zenon DEF log_write, Written, Goto, bcache, ide, local
<1>2. pc' = [pc EXCEPT ![p] = "have"]
  BY <1>1, Zenon DEF IInv, Types, Written
<1>3. Pinned' = Pinned \cup {buf[p]}
  <2>1. ASSUME NEW q \in Procs, pc[q] \in {"iderw", "asleep"} PROVE buf[q] # buf[p]
    <3>1. pc[p] \in Holding /\ pc[q] \in Holding /\ q # p
      BY <1>1, <2>1, Zenon DEF Written, Holding
    <3> QED
      BY <3>1, Owner, Zenon DEF IInv
  <2> QED
    BY <1>1, <2>1, Zenon DEF Pinned, Written
<1>4. PinnedFit'
  BY <1>1, <1>3, Zenon DEF PinnedFit
<1> QED
  BY <1>1, <1>2, <1>4, WriteHolds, Zenon

\* brelse gives the lock back; its panic is not reached.
LEMMA BrelseHolds ==
  ASSUME BufConstants, IInv, panicked = "no", UNCHANGED reserve, NEW p \in Procs, brelse(p)
  PROVE  /\ IInv'
         /\ owner[buf[p]] = p /\ owner' = [owner EXCEPT ![buf[p]] = NoProc]
<1> USE DEF IInv
<1> DEFINE i == buf[p]
<1>0. owner[i] = p
  BY Owner, Zenon DEF brelse, Holding
<1>1. /\ pc[p] = "have" /\ i \in Bufs /\ "put" \in Labels
      /\ owner' = [owner EXCEPT ![i] = NoProc] /\ pc' = [pc EXCEPT ![p] = "put"]
      /\ UNCHANGED <<bcache, data, valid, dirty, ide, buf, want, failed, panicked>>
  <2>1. /\ pc[p] = "have" /\ "put" \in Labels
        /\ owner' = [owner EXCEPT ![i] = NoProc] /\ pc' = [pc EXCEPT ![p] = "put"]
        /\ UNCHANGED <<bcache, data, valid, dirty, ide, buf, want, failed, panicked>>
    BY <1>0, Zenon DEF brelse, Goto, Labels
  <2> QED
    BY <2>1, HasBuffer, Zenon DEF Holding
<1>2. /\ pc'[p] = "put" /\ \A q \in Procs : q # p => pc'[q] = pc[q]
      /\ owner'[i] = NoProc /\ \A j \in Bufs : j # i => owner'[j] = owner[j]
      /\ UNCHANGED <<lru, blockno, refcnt, data, valid, dirty, idequeue, cmd, irq, disk, buf, want, failed, panicked>>
  BY <1>1, Zenon DEF Types, bcache, ide
<1>3. Types'
  BY <1>1, <1>2, Zenon DEF Types
<1>4. Using'
  <2>1. buf[p] # NoBuf
    BY <1>1, <1>2, HasBuffer, Zenon DEF Holding
  <2> QED
    BY <1>1, <1>2, <2>1, UsingKept, Zenon
<1>5. RefsCounted'
  BY <1>2, Zenon DEF RefsCounted
<1>6. Owned'
  <2>1. \A q \in Procs : q # p /\ buf[q] = i => pc[q] \notin Holding
    BY <1>0, <1>1, Zenon DEF Owned
  <2> QED
    <3> SUFFICES ASSUME NEW q \in Procs, NEW j \in Bufs
                 PROVE  owner'[j] = q <=> buf'[q] = j /\ pc'[q] \in Holding
      BY Zenon DEF Owned
    <3>1. owner[j] = q <=> buf[q] = j /\ pc[q] \in Holding
      BY Zenon DEF Owned
    <3>2. pc[p] \in Holding /\ pc'[p] \notin Holding /\ buf' = buf /\ NoProc \notin Procs
      BY <1>1, <1>2, Zenon DEF Holding, BufConstants
    <3>3. CASE q = p
      <4>1. owner'[j] # q
        <5>1. CASE j = i
          BY <1>2, <3>2, <5>1, Zenon
        <5>2. CASE j # i
          BY <1>2, <3>1, <3>3, <5>2, Zenon
        <5> QED
          BY <5>1, <5>2, Zenon
      <4>2. pc'[q] \notin Holding
        BY <3>2, <3>3, Zenon
      <4> QED
        BY ONLY <4>1, <4>2, Zenon
    <3>4. CASE q # p
      BY <1>1, <1>2, <2>1, <3>1, <3>2, <3>4, Zenon
    <3> QED
      BY <3>3, <3>4, Zenon
<1>7. Flagged'
  BY <1>1, <1>2, Zenon DEF Flagged, Done
<1>8. Queued' /\ Device'
  BY <1>1, <1>2, QueueKept, Zenon DEF ide
<1>9. Coherent' /\ OnlyOutOfBuffers'
  BY <1>2, Zenon DEF Coherent, OnlyOutOfBuffers
<1>10. PinnedFit'
  BY <1>1, <1>2, PinnedKept, Zenon DEF Busy
<1> QED
  BY <1>0, <1>1, <1>3, <1>4, <1>5, <1>6, <1>7, <1>8, <1>9, <1>10, Zenon

\* The end of brelse: one reference less, and a buffer without any goes to the front of the list.
LEMMA BputHolds ==
  ASSUME BufConstants, IInv, panicked = "no", UNCHANGED reserve, NEW p \in Procs, bput(p)
  PROVE  IInv'
<1> USE DEF IInv
<1>1. PICK i \in Bufs : buf[p] = i
  BY HasBuffer, Zenon DEF bput
<1>2. /\ pc[p] = "put" /\ "idle" \in Labels
      /\ refcnt' = Put(i) /\ (lru' = ToFront(i) \/ lru' = lru)
      /\ buf' = [buf EXCEPT ![p] = NoBuf] /\ want' = [want EXCEPT ![p] = NoBlock]
      /\ pc' = [pc EXCEPT ![p] = "idle"]
      /\ UNCHANGED <<blockno, data, valid, dirty, owner, idequeue, cmd, irq, disk, failed, panicked>>
      /\ UNCHANGED ide
  BY <1>1, Zenon DEF bput, Goto, Labels, ide
<1>3. /\ pc'[p] = "idle" /\ \A q \in Procs : q # p => pc'[q] = pc[q]
      /\ buf'[p] = NoBuf /\ \A q \in Procs : q # p => buf'[q] = buf[q]
      /\ want'[p] = NoBlock /\ \A q \in Procs : q # p => want'[q] = want[q]
  BY <1>2, Zenon DEF Types
<1>4. RefsCounted' /\ refcnt' \in [Bufs -> Int]
  BY <1>1, <1>2, RefsDown, Zenon
<1>5. lru' \in [Bufs -> Bufs] /\ \A v \in Bufs : \E k \in Bufs : lru'[k] = v
  <2>1. CASE lru' = ToFront(i)
    BY <2>1, ListKept, Zenon
  <2>2. CASE lru' = lru
    BY <2>2, Zenon DEF Types
  <2> QED
    BY <1>2, <2>1, <2>2, Zenon
<1>6. Types'
  BY <1>2, <1>3, <1>4, <1>5, Zenon DEF Types
<1>7. Using'
  <2>1. ASSUME NEW q \in Procs
        PROVE  /\ pc'[q] = "idle" => buf'[q] = NoBuf
               /\ pc'[q] \notin {"idle", "lock"} => buf'[q] # NoBuf
               /\ pc'[q] = "lock" /\ panicked' = "no" => buf'[q] # NoBuf
               /\ buf'[q] # NoBuf => want'[q] \in Blocks /\ blockno'[buf'[q]] = want'[q]
    <3>1. CASE q = p
      BY <1>3, <3>1, Zenon
    <3>2. CASE q # p
      <4>1. /\ pc'[q] = pc[q] /\ buf'[q] = buf[q] /\ want'[q] = want[q]
            /\ blockno' = blockno /\ panicked' = panicked
        BY <1>2, <1>3, <3>2, Zenon
      <4> QED
        BY <4>1, Zenon DEF Using
    <3> QED
      BY <3>1, <3>2, Zenon
  <2>2. (\A i1, j \in Bufs : blockno'[i1] = blockno'[j] /\ blockno'[i1] # NoBlock => i1 = j)
        /\ \A j \in valid' : blockno'[j] \in Blocks
    BY <1>2, Zenon DEF Using
  <2> QED
    BY <2>1, <2>2, Zenon DEF Using
<1>8. NoBuf \notin Bufs
  BY NoBufIsNone, Zenon
<1>9. Owned'
  <2>1. \A q \in Procs : pc'[q] \in Holding <=> pc[q] \in Holding
    BY <1>2, <1>3, Zenon DEF Holding
  <2>2. \A q \in Procs : pc[q] \in Holding => buf'[q] = buf[q]
    BY <1>2, <1>3, Zenon DEF Holding
  <2> QED
    BY <1>2, <1>3, <2>1, <2>2, OwnedKept, Zenon
<1>10. Flagged'
  <2>1. ASSUME NEW q \in Procs, q # p
        PROVE  /\ pc'[q] = "have" => buf'[q] \in valid'
               /\ pc'[q] = "woken" => Done(buf[q])'
               /\ pc'[q] \in {"iderw", "asleep"} => ~Done(buf[q])'
    <3>1. pc'[q] = pc[q] /\ buf'[q] = buf[q] /\ valid' = valid /\ dirty' = dirty
      BY <1>2, <1>3, <2>1, Zenon
    <3> QED
      BY <3>1, Zenon DEF Flagged, Done
  <2> QED
    BY <1>3, <2>1, Zenon DEF Flagged
<1>11. Queued' /\ Device'
  BY <1>2, <1>3, QueueKept, Zenon
<1>12. Coherent' /\ OnlyOutOfBuffers'
  BY <1>2, Zenon DEF Coherent, OnlyOutOfBuffers
<1>13. PinnedFit'
  BY <1>2, <1>3, PinnedKept, Zenon DEF Busy
<1> QED
  BY <1>4, <1>6, <1>7, <1>9, <1>10, <1>11, <1>12, <1>13, Zenon

\* iderw, woken: the request is done.
LEMMA AgainHolds ==
  ASSUME BufConstants, IInv, panicked = "no", UNCHANGED reserve, NEW p \in Procs, iderwAgain(p)
  PROVE  IInv'
<1> USE DEF IInv
<1> DEFINE i == buf[p]
<1>1. /\ pc[p] = "woken" /\ i \in Bufs /\ Done(i) /\ pc' = [pc EXCEPT ![p] = "have"] /\ "have" \in Labels
      /\ UNCHANGED <<bcache, data, valid, dirty, owner, ide, buf, want, failed, panicked>>
  <2>1. pc[p] = "woken" /\ Done(i) /\ "have" \in Labels
    BY Zenon DEF iderwAgain, Flagged, Labels
  <2>2. /\ pc' = [pc EXCEPT ![p] = "have"]
        /\ UNCHANGED <<bcache, data, valid, dirty, owner, ide, buf, want, failed, panicked>>
    BY <2>1, Zenon DEF iderwAgain, Goto
  <2> QED
    BY <2>1, <2>2, HasBuffer, Zenon DEF Holding
<1>2. /\ pc'[p] = "have" /\ \A q \in Procs : q # p => pc'[q] = pc[q]
      /\ UNCHANGED <<lru, blockno, refcnt, data, valid, dirty, owner, idequeue, cmd, irq, disk,
                     buf, want, failed, panicked>>
  BY <1>1, Zenon DEF Types, bcache, ide
<1>3. Types'
  BY <1>1, <1>2, Zenon DEF Types
<1>4. Using'
  <2>1. buf[p] # NoBuf
    BY <1>1, <1>2, HasBuffer, Zenon DEF Holding
  <2> QED
    BY <1>1, <1>2, <2>1, UsingKept, Zenon
<1>5. RefsCounted'
  BY <1>2, Zenon DEF RefsCounted
<1>6. Owned'
  <2>1. \A q \in Procs : pc'[q] \in Holding <=> pc[q] \in Holding
    BY <1>1, <1>2, Zenon DEF Holding
  <2> QED
    BY <1>1, <1>2, <2>1, OwnedKept, Zenon
<1>7. Flagged'
  BY <1>1, <1>2, Zenon DEF Flagged, Done
<1>8. Queued' /\ Device'
  BY <1>1, <1>2, QueueKept, Zenon DEF ide
<1>9. Coherent' /\ OnlyOutOfBuffers'
  BY <1>2, Zenon DEF Coherent, OnlyOutOfBuffers
<1>10. PinnedFit'
  BY <1>1, <1>2, PinnedKept, Zenon DEF Busy
<1> QED
  BY <1>3, <1>4, <1>5, <1>6, <1>7, <1>8, <1>9, <1>10, Zenon

\* iderw queues the request; its panics are not reached, and an idle disk gets the command.
LEMMA IderwHolds ==
  ASSUME BufConstants, IInv, panicked = "no", UNCHANGED reserve, NEW p \in Procs, iderw(p)
  PROVE  IInv' /\ UNCHANGED <<data, valid, blockno, owner, buf, disk, failed>>
<1> USE DEF IInv
<1>0. PICK i \in Bufs : buf[p] = i
  BY HasBuffer, Zenon DEF iderw, Holding
<1>1. pc[p] = "iderw" /\ owner[i] = p /\ ~Done(i)
  BY <1>0, Zenon DEF iderw, Owned, Flagged, Holding
<1>2. /\ idequeue' = Append(idequeue, i)
      /\ cmd' = IF idequeue = <<>> THEN Command(i) ELSE cmd
      /\ pc' = [pc EXCEPT ![p] = "asleep"] /\ "asleep" \in Labels
      /\ UNCHANGED <<lru, blockno, refcnt, data, valid, dirty, owner, irq, disk, buf, want, failed, panicked>>
  BY <1>0, <1>1, Zenon DEF iderw, Start, Goto, bcache, Labels
<1>3. pc'[p] = "asleep" /\ \A q \in Procs : q # p => pc'[q] = pc[q]
  BY <1>2, Zenon DEF Types
<1>4. Types'
  <2>1. idequeue' \in Seq(Bufs)
    BY <1>2 DEF Types
  <2> QED
    BY <1>2, <2>1, Zenon DEF Types
<1>5. Using'
  <2>1. buf[p] # NoBuf
    BY <1>1, <1>2, <1>3, HasBuffer, Zenon DEF Holding
  <2> QED
    BY <1>1, <1>2, <1>3, <2>1, UsingKept, Zenon
<1>6. RefsCounted'
  BY <1>2, Zenon DEF RefsCounted
<1>7. Owned'
  <2>1. \A q \in Procs : pc'[q] \in Holding <=> pc[q] \in Holding
    BY <1>1, <1>2, <1>3, Zenon DEF Holding
  <2> QED
    BY <1>1, <1>2, <1>3, <2>1, OwnedKept, Zenon
<1>8. Flagged'
  BY <1>0, <1>1, <1>2, <1>3, Zenon DEF Flagged, Done
<1>9. i \notin Queue
  BY <1>0, <1>1, NotQueued, Zenon DEF Holding
<1>10. /\ Queue' = Queue \cup {i}
       /\ idequeue' # <<>>
       /\ Head(idequeue') = IF idequeue = <<>> THEN i ELSE Head(idequeue)
       /\ \A k, l \in 1..Len(idequeue') : idequeue'[k] = idequeue'[l] => k = l
  <2>1. /\ idequeue \in Seq(Bufs) /\ Len(idequeue) \in Nat /\ Len(idequeue') = Len(idequeue) + 1
        /\ \A k \in 1..Len(idequeue) : idequeue'[k] = idequeue[k]
        /\ idequeue'[Len(idequeue) + 1] = i
    <3>1. idequeue \in Seq(Bufs) /\ idequeue' = Append(idequeue, i)
      BY <1>2, Zenon DEF Types
    <3> QED
      BY ONLY <3>1, i \in Bufs
  <2>2. Queue' = Queue \cup {i}
    BY <2>1 DEF Queue
  <2>3. \A k \in 1..Len(idequeue) : idequeue[k] # i
    BY <1>9, Zenon DEF Queue
  <2>4. \A k, l \in 1..Len(idequeue') : idequeue'[k] = idequeue'[l] => k = l
    BY <2>1, <2>3 DEF Queued
  <2>5. idequeue' # <<>> /\ Head(idequeue') = IF idequeue = <<>> THEN i ELSE Head(idequeue)
    BY <1>2, <2>1
  <2> QED
    BY <2>2, <2>4, <2>5, Zenon
<1>11. Queued'
  <2>1. \A q \in Procs : pc'[q] = "asleep" => buf'[q] \in Queue'
    BY <1>0, <1>2, <1>3, <1>10, Zenon DEF Queued
  <2>2. \A j \in Queue' : \E q \in Procs : pc'[q] = "asleep" /\ buf'[q] = j
    <3> SUFFICES ASSUME NEW j \in Queue' PROVE \E q \in Procs : pc'[q] = "asleep" /\ buf'[q] = j
      BY Zenon
    <3>1. CASE j = i
      BY <1>0, <1>1, <1>2, <1>3, <3>1, Zenon
    <3>2. CASE j # i
      <4>1. PICK q \in Procs : pc[q] = "asleep" /\ buf[q] = j
        BY <1>10, <3>2, Zenon DEF Queued
      <4> QED
        BY <1>1, <1>2, <1>3, <4>1, Zenon
    <3> QED
      BY <3>1, <3>2, Zenon
  <2> QED
    BY <1>10, <2>1, <2>2, Zenon DEF Queued
<1>12. Device'
  <2>1. \A j : Command(j)' = Command(j)
    BY <1>2, Zenon DEF Command
  <2>2. CASE idequeue = <<>>
    BY <1>2, <1>10, <2>1, <2>2, Zenon DEF Device
  <2>3. CASE idequeue # <<>>
    BY <1>2, <1>10, <2>1, <2>3, Zenon DEF Device
  <2> QED
    BY <2>2, <2>3, Zenon
<1>13. Coherent' /\ OnlyOutOfBuffers'
  BY <1>2, Zenon DEF Coherent, OnlyOutOfBuffers
<1>14. PinnedFit'
  BY <1>1, <1>2, <1>3, PinnedKept, Zenon DEF Busy
<1> QED
  BY <1>2, <1>4, <1>5, <1>6, <1>7, <1>8, <1>11, <1>12, <1>13, <1>14, Zenon

\* What the disk is doing: the request of the first buffer of the queue.
LEMMA HeadFacts ==
  ASSUME BufConstants, IInv, idequeue # <<>>
  PROVE  LET h == Head(idequeue) IN
         /\ h \in Bufs /\ h \in Queue /\ blockno[h] \in Blocks /\ cmd = Command(h)
         /\ ~Done(h) /\ h = idequeue[1]
         /\ cmd.blk = blockno[h] /\ (cmd.op = "write" <=> h \in dirty)
         /\ h \in dirty => cmd.data = data[h]
<1> USE DEF IInv
<1> DEFINE h == Head(idequeue)
<1>1. h \in Bufs /\ h \in Queue /\ h = idequeue[1]
  BY DEF Types, Queue
<1>2. PICK p \in Procs : pc[p] = "asleep" /\ buf[p] = h
  BY <1>1, Zenon DEF Queued
<1>3. ~Done(h)
  BY <1>2, Zenon DEF Flagged
<1>4. blockno[h] \in Blocks
  <2>1. h # NoBuf
    BY <1>1, NoBufIsNone, Zenon
  <2> QED
    BY <1>2, <2>1, Zenon DEF Using
<1>5. cmd = Command(h)
  BY Zenon DEF Device
<1>6. cmd.blk = blockno[h] /\ (cmd.op = "write" <=> h \in dirty) /\ (h \in dirty => cmd.data = data[h])
  BY <1>5, Zenon DEF Command
<1> QED
  BY <1>1, <1>3, <1>4, <1>5, <1>6, Zenon

\* The disk executes a write: the buffer being written is the only one of its block.
LEMMA DiskHolds ==
  ASSUME BufConstants, IInv, UNCHANGED reserve, diskDone
  PROVE  IInv'
<1> USE DEF IInv
<1> DEFINE h == Head(idequeue)
<1>1. /\ irq' = TRUE /\ disk' = IF cmd.op = "write" THEN [disk EXCEPT ![cmd.blk] = cmd.data] ELSE disk
      /\ cmd # NoCmd /\ ~irq
      /\ UNCHANGED <<lru, blockno, refcnt, data, valid, dirty, owner, idequeue, cmd, pc, buf, want, failed, panicked>>
  BY Zenon DEF diskDone, bcache, local
<1>2. idequeue # <<>>
  BY <1>1, Zenon DEF Device
<1>3. /\ h \in Bufs /\ h \in Queue /\ blockno[h] \in Blocks /\ cmd = Command(h)
      /\ disk' = IF h \in dirty THEN [disk EXCEPT ![blockno[h]] = data[h]] ELSE disk
  BY <1>1, <1>2, HeadFacts, Zenon
<1>4. disk' \in [Blocks -> Data]
  BY <1>3, Zenon DEF Types
<1>5. Types'
  BY <1>1, <1>4, Zenon DEF Types
<1>6. Using' /\ RefsCounted' /\ Owned' /\ Flagged' /\ OnlyOutOfBuffers'
  <2>1. Using'
    BY <1>1, UsingKept, Zenon
  <2>2. Owned'
    BY <1>1, OwnedKept, Zenon
  <2>3. RefsCounted' /\ Flagged' /\ OnlyOutOfBuffers'
    BY <1>1, Zenon DEF RefsCounted, Flagged, Done, OnlyOutOfBuffers
  <2> QED
    BY <2>1, <2>2, <2>3, Zenon
<1>7. Queued'
  <2>1. Queue' = Queue /\ UNCHANGED <<idequeue, pc, buf>>
    BY <1>1, Zenon DEF Queue
  <2> QED
    BY <2>1, Zenon DEF Queued
<1>8. h \in dirty => disk'[blockno[h]] = data[h]
  BY <1>3, Zenon DEF Types
<1>9. Device'
  <2>1. Command(h)' = Command(h)
    BY <1>1, Zenon DEF Command
  <2> QED
    BY <1>1, <1>2, <1>3, <1>8, <2>1, Zenon DEF Device
<1>10. Coherent'
  <2>1. ASSUME NEW j \in valid, j # h PROVE disk'[blockno[j]] = disk[blockno[j]]
    <3>1. blockno[j] # blockno[h]
      BY <1>3, <2>1, Zenon DEF Using, Types, BufConstants
    <3> QED
      BY <1>3, <3>1, <2>1, Zenon DEF Types, Using
  <2>2. h \notin dirty => disk' = disk
    BY <1>3, Zenon
  <2> QED
    BY <1>1, <2>1, <2>2, Zenon DEF Coherent
<1>11. PinnedFit'
  BY <1>1, PinnedKept, Zenon DEF Busy
<1> QED
  BY <1>5, <1>6, <1>7, <1>9, <1>10, <1>11, Zenon

\* What ideintr does to the buffer of the request, of which there are three kinds: a read, a read
\* that failed, and a write.
Served(h) ==
  \/ /\ h \notin dirty /\ data' = [data EXCEPT ![h] = disk[blockno[h]]] /\ failed' = failed
  \/ h \notin dirty /\ data' = data /\ failed' = failed \cup {h}
  \/ h \in dirty /\ data' = data /\ failed' = failed

\* ideintr finishes the first request, wakes the process that waits for it, and starts the next.
LEMMA IntrHolds ==
  ASSUME BufConstants, IInv, UNCHANGED reserve, ideintr
  PROVE  IInv' /\ Served(Head(idequeue)) /\ valid' = valid \cup {Head(idequeue)}
<1> USE DEF IInv
<1>0. PICK h \in Bufs : h = Head(idequeue)
  BY HeadFacts, Zenon DEF ideintr
<1>1. /\ irq /\ idequeue # <<>>
      /\ valid' = valid \cup {h} /\ dirty' = dirty \ {h}
      /\ pc' = Wake(h) /\ idequeue' = Tail(idequeue) /\ cmd' = StartNext(Tail(idequeue)) /\ irq' = FALSE
      /\ UNCHANGED <<lru, blockno, refcnt, owner, disk, buf, want, panicked>>
  BY <1>0, Zenon DEF ideintr, bcache
<1>2. /\ h \in Queue /\ blockno[h] \in Blocks /\ ~Done(h) /\ h = idequeue[1] /\ cmd.blk = blockno[h]
  BY <1>0, <1>1, HeadFacts, Zenon
<1>3. Served(h)
  BY <1>0, <1>2, Zenon DEF ideintr, Served
<1>4. PICK p \in Procs : pc[p] = "asleep" /\ buf[p] = h
  BY <1>2, Zenon DEF Queued
<1>5. \A q \in Procs : q # p /\ buf[q] = h => pc[q] \notin Holding
  <2>1. owner[h] = p
    BY <1>4, Zenon DEF Owned, Holding
  <2> QED
    BY <2>1, Zenon DEF Owned
<1>6. /\ pc' \in [Procs -> Labels]
      /\ pc'[p] = "woken" /\ \A q \in Procs : q # p => pc'[q] = pc[q]
  <2>1. \A q \in Procs : pc'[q] = IF pc[q] = "asleep" /\ buf[q] = h THEN "woken" ELSE pc[q]
    BY <1>1, Zenon DEF Wake
  <2>2. pc' \in [Procs -> Labels]
    BY <1>1, Zenon DEF Wake, Types, Labels
  <2>3. \A q \in Procs : q # p /\ buf[q] = h => pc[q] # "asleep"
    BY <1>5, Zenon DEF Holding
  <2> QED
    BY <1>4, <2>1, <2>2, <2>3, Zenon
<1>7. /\ idequeue' \in Seq(Bufs) /\ Queue' = Queue \ {h}
      /\ \A k, l \in 1..Len(idequeue') : idequeue'[k] = idequeue'[l] => k = l
      /\ idequeue' # <<>> => Head(idequeue') \in Queue'
  <2>1. /\ idequeue' \in Seq(Bufs) /\ Len(idequeue) \in Nat /\ Len(idequeue') = Len(idequeue) - 1
        /\ \A k \in 1..Len(idequeue') : idequeue'[k] = idequeue[k + 1] /\ k + 1 \in 1..Len(idequeue) /\ k + 1 # 1
        /\ \A k \in 1..Len(idequeue) : k # 1 => k - 1 \in 1..Len(idequeue') /\ idequeue'[k - 1] = idequeue[k]
    <3>1. idequeue \in Seq(Bufs) /\ idequeue # <<>> /\ idequeue' = Tail(idequeue)
      BY <1>1, Zenon DEF Types
    <3>2. idequeue' \in Seq(Bufs) /\ Len(idequeue) \in Nat /\ Len(idequeue') = Len(idequeue) - 1
      BY <3>1
    <3>3. \A k \in 1..Len(idequeue') : idequeue'[k] = idequeue[k + 1] /\ k + 1 \in 1..Len(idequeue) /\ k + 1 # 1
      BY <3>1, <3>2
    <3>4. ASSUME NEW k \in 1..Len(idequeue), k # 1
          PROVE  k - 1 \in 1..Len(idequeue') /\ idequeue'[k - 1] = idequeue[k]
      BY <3>1, <3>2, <3>4
    <3> QED
      BY <3>2, <3>3, <3>4, Zenon
  <2>2. 1 \in 1..Len(idequeue) /\ \A k, l \in 1..Len(idequeue) : idequeue[k] = idequeue[l] => k = l
    BY <1>1, <2>1 DEF Queued, Types
  <2>3. \A k \in 1..Len(idequeue') : idequeue'[k] \in Queue /\ idequeue'[k] # h
    BY <1>2, <2>1, <2>2 DEF Queue
  <2>4. ASSUME NEW j \in Queue, j # h PROVE j \in Queue'
    <3>1. PICK k \in 1..Len(idequeue) : idequeue[k] = j
      BY Zenon DEF Queue
    <3>2. k - 1 \in 1..Len(idequeue') /\ idequeue'[k - 1] = j
      BY <3>1, <2>1, <2>4, <1>2, Zenon
    <3> QED
      BY <3>2, Zenon DEF Queue
  <2>5. Queue' = Queue \ {h}
    <3>1. \A j \in Queue' : j \in Queue /\ j # h
      BY <2>3, Zenon DEF Queue
    <3> QED
      BY <2>4, <3>1, Zenon
  <2>6. ASSUME NEW k \in 1..Len(idequeue'), NEW l \in 1..Len(idequeue'), idequeue'[k] = idequeue'[l] PROVE k = l
    <3>1. k + 1 = l + 1
      BY <2>1, <2>2, <2>6
    <3> QED
      BY <3>1, <2>1
  <2>7. idequeue' # <<>> => Head(idequeue') \in Queue'
    BY <2>1 DEF Queue
  <2> QED
    BY <2>1, <2>5, <2>6, <2>7, Zenon
<1>8. data' \in [Bufs -> Data] /\ \A j \in Bufs : j # h => data'[j] = data[j]
  <2>1. disk[blockno[h]] \in Data
    BY <1>2, Zenon DEF Types
  <2>2. CASE data' = [data EXCEPT ![h] = disk[blockno[h]]]
    BY <2>1, <2>2, Zenon DEF Types
  <2>3. CASE data' = data
    BY <2>3, Zenon DEF Types
  <2> QED
    BY <1>3, <2>2, <2>3, Zenon DEF Served
<1>9. Types'
  <2>1. dirty' \subseteq valid' /\ valid' \subseteq Bufs
    BY <1>1, Zenon DEF Types
  <2>2. failed' \subseteq valid' \ dirty'
    BY <1>1, <1>3, Zenon DEF Types, Served
  <2>3. /\ lru' \in [Bufs -> Bufs] /\ \A i \in Bufs : \E k \in Bufs : lru'[k] = i
        /\ blockno' \in [Bufs -> Blocks \cup {NoBlock}]
        /\ refcnt' \in [Bufs -> Int]
        /\ disk' \in [Blocks -> Data]
        /\ owner' \in [Bufs -> Procs \cup {NoProc}]
        /\ buf' \in [Procs -> Bufs \cup {NoBuf}]
        /\ want' \in [Procs -> Blocks \cup {NoBlock}]
        /\ irq' \in BOOLEAN
        /\ reserve' \in Nat
    BY <1>1, Zenon DEF Types
  <2> QED
    BY <1>6, <1>7, <1>8, <2>1, <2>2, <2>3, Zenon DEF Types
<1>10. Using'
  BY <1>1, <1>2, <1>4, <1>6, Zenon DEF Using
<1>11. RefsCounted' /\ OnlyOutOfBuffers'
  BY <1>1, Zenon DEF RefsCounted, OnlyOutOfBuffers
<1>12. Owned'
  <2>1. \A q \in Procs : pc'[q] \in Holding <=> pc[q] \in Holding
    BY <1>1, <1>4, <1>6, Zenon DEF Holding
  <2> QED
    BY <1>1, <1>4, <1>6, <2>1, OwnedKept, Zenon
<1>13. Flagged'
  <2>1. \A q \in Procs : q # p /\ pc[q] \in Holding => buf[q] # h
    BY <1>5, Zenon
  <2>2. ASSUME NEW q \in Procs, q # p
        PROVE  /\ pc'[q] = "have" => buf'[q] \in valid'
               /\ pc'[q] = "woken" => Done(buf[q])'
               /\ pc'[q] \in {"iderw", "asleep"} => ~Done(buf[q])'
    BY <1>1, <1>6, <2>1, <2>2, Zenon DEF Flagged, Done, Holding
  <2>3. Done(buf[p])' /\ pc'[p] = "woken"
    BY <1>1, <1>4, <1>6, Zenon DEF Done
  <2> QED
    BY <2>2, <2>3, Zenon DEF Flagged
<1>14. Queued'
  <2>1. \A q \in Procs : pc'[q] = "asleep" => buf'[q] \in Queue'
    BY <1>1, <1>5, <1>6, <1>7, Zenon DEF Queued, Holding
  <2>2. \A j \in Queue' : \E q \in Procs : pc'[q] = "asleep" /\ buf'[q] = j
    BY <1>1, <1>4, <1>6, <1>7 DEF Queued
  <2> QED
    BY <1>7, <2>1, <2>2, Zenon DEF Queued
<1>15. Device'
  <2>1. CASE idequeue' = <<>>
    BY <1>1, <2>1, Zenon DEF Device, StartNext
  <2>2. CASE idequeue' # <<>>
    <3> DEFINE k == Head(idequeue')
    <3>1. k \in Bufs /\ k # h
      <4>1. Queue \subseteq Bufs
        BY QueueOfBufs, Zenon
      <4> HIDE DEF Queue
      <4> QED
        BY <1>7, <2>2, <4>1, Zenon
    <3>2. cmd' = Command(k)
      BY <1>1, <2>2, Zenon DEF StartNext
    <3>3. (k \in dirty' <=> k \in dirty) /\ data'[k] = data[k] /\ blockno'[k] = blockno[k]
      BY <1>1, <1>8, <3>1, Zenon
    <3>4. cmd' = IF k \in dirty' THEN [op |-> "write", blk |-> blockno'[k], data |-> data'[k]]
                 ELSE [op |-> "read", blk |-> blockno'[k]]
      BY <3>2, <3>3, Zenon DEF Command
    <3>5. cmd' = Command(Head(idequeue))'
      BY <3>4, Zenon DEF Command
    <3> QED
      BY <1>1, <2>2, <3>5, Zenon DEF Device
  <2> QED
    BY <2>1, <2>2, Zenon
<1>16. Coherent'
  <2>1. ASSUME NEW j \in valid', j \notin dirty', j \notin failed', j # h PROVE data'[j] = disk'[blockno'[j]]
    BY <1>1, <1>3, <1>8, <2>1, Zenon DEF Coherent, Types, Served
  <2>2. h \notin failed' => data'[h] = disk'[blockno'[h]]
    <3>1. h \in dirty => disk[blockno[h]] = data[h]
      BY <1>0, <1>1, Zenon DEF Device
    <3> QED
      BY <1>1, <1>2, <1>3, <3>1, Zenon DEF Served, Types
  <2> QED
    BY <2>1, <2>2, Zenon DEF Coherent
<1>17. PinnedFit'
  <2>1. Pinned' \subseteq Pinned
    BY <1>1, <1>4, <1>6, Zenon DEF Pinned
  <2> QED
    BY <2>1, PinnedLess, Zenon
<1> QED
  BY <1>0, <1>1, <1>3, <1>9, <1>10, <1>11, <1>12, <1>13, <1>14, <1>15, <1>16, <1>17, Zenon

\* bget finds no buffer only if there are too few for the processes and the pinned blocks: every
\* buffer has one of the other processes or is pinned.
LEMMA OutOfBuffers ==
  ASSUME BufConstants, IInv, panicked = "no", NEW p \in Procs, buf[p] = NoBuf, Free = {}
  PROVE  NBUF < Cardinality(Procs) + reserve
<1> USE DEF IInv
<1> DEFINE S == {q \in Procs : buf[q] # NoBuf}
           T == {buf[q] : q \in S}
           f == [q \in S |-> buf[q]]
<1>1. S \subseteq Procs \ {p}
  BY Zenon
<1>2. IsFiniteSet(Procs \ {p}) /\ Cardinality(Procs \ {p}) = Cardinality(Procs) - 1
  BY FS_RemoveElement, Zenon DEF BufConstants
<1>3. IsFiniteSet(S) /\ Cardinality(S) <= Cardinality(Procs) - 1
  BY <1>1, <1>2, FS_Subset
<1>4. f \in Surjection(S, T)
  BY Zenon DEF Surjection
<1>5. IsFiniteSet(T) /\ Cardinality(T) <= Cardinality(S)
  BY <1>3, <1>4, FS_Surjection, Zenon
<1>6. IsFiniteSet(Bufs) /\ Cardinality(Bufs) = NBUF
  BY FS_Interval DEF Bufs, BufConstants
<1>7. Pinned \subseteq Bufs
  BY Zenon DEF Pinned, Types
<1>8. IsFiniteSet(Pinned) /\ Cardinality(Pinned) <= reserve
  BY <1>6, <1>7, FS_Subset, Zenon DEF PinnedFit
<1>9. Bufs \subseteq T \cup Pinned
  <2>1. ASSUME NEW i \in Bufs, i \notin T PROVE i \in Pinned
    <3>0. i # NoBuf
      BY NoBufIsNone, Zenon
    <3>1. \A q \in Procs : buf[q] # i
      BY <2>1, <3>0, Zenon
    <3>2. refcnt[i] = 0
      BY <3>1, Unused, Zenon
    <3>3. i \in dirty
      BY <3>2, Zenon DEF Free
    <3> QED
      BY <3>1, <3>3, Zenon DEF Pinned
  <2> QED
    BY <2>1, Zenon
<1>10. IsFiniteSet(T \cup Pinned) /\ Cardinality(T \cup Pinned) = Cardinality(T) + Cardinality(Pinned) - Cardinality(T \cap Pinned)
  BY <1>5, <1>8, FS_Union, Zenon
<1>11. NBUF <= Cardinality(T \cup Pinned)
  BY <1>6, <1>9, <1>10, FS_Subset, Zenon
<1>12. IsFiniteSet(T \cap Pinned)
  BY <1>5, FS_Intersection, Zenon
<1> DEFINE a == Cardinality(Procs)
           b == Cardinality(S)
           c == Cardinality(T)
           d == Cardinality(Pinned)
           e == Cardinality(T \cap Pinned)
           g == Cardinality(T \cup Pinned)
<1>13. a \in Nat /\ b \in Nat /\ c \in Nat /\ d \in Nat /\ e \in Nat /\ NBUF \in Nat /\ reserve \in Nat
  BY <1>3, <1>5, <1>8, <1>12, FS_CardinalityType, Zenon DEF BufConstants, Types
<1>14. b <= a - 1 /\ c <= b /\ d <= reserve /\ g = c + d - e /\ NBUF <= g
  BY <1>3, <1>5, <1>8, <1>10, <1>11, Zenon
<1> HIDE DEF a, b, c, d, e, g
<1>15. NBUF < a + reserve
  BY ONLY <1>13, <1>14
<1> QED
  BY <1>15, Zenon DEF a

\* The panic of bget, the one that can be reached.
LEMMA BgetPanics ==
  ASSUME BufConstants, IInv, panicked = "no", UNCHANGED reserve, NEW p \in Procs, NEW b \in Blocks,
         pc[p] = "idle", Free = {}, panicked' = "bget",
         want' = [want EXCEPT ![p] = b], pc' = [pc EXCEPT ![p] = "lock"],
         UNCHANGED <<lru, blockno, refcnt, data, valid, dirty, owner, idequeue, cmd, irq, disk, buf, failed>>
  PROVE  IInv'
<1> USE DEF IInv
<1>1. buf[p] = NoBuf /\ "lock" \in Labels
  BY Zenon DEF Using, Labels
<1>2. /\ pc'[p] = "lock" /\ \A q \in Procs : q # p => pc'[q] = pc[q]
      /\ want'[p] = b /\ \A q \in Procs : q # p => want'[q] = want[q]
  BY Zenon DEF Types
<1>3. Types'
  BY <1>1, Zenon DEF Types
<1>4. Using'
  BY <1>1, <1>2, Zenon DEF Using
<1>5. RefsCounted' /\ Coherent'
  BY Zenon DEF RefsCounted, Coherent
<1>6. Owned' /\ Flagged'
  <2>1. \A q \in Procs : pc'[q] \in Holding <=> pc[q] \in Holding
    BY <1>2, Zenon DEF Holding
  <2>2. Owned'
    BY <2>1, OwnedKept, Zenon
  <2>3. Flagged'
    BY <1>2, Zenon DEF Flagged, Done
  <2> QED
    BY <2>2, <2>3, Zenon
<1>7. Queued' /\ Device'
  BY <1>2, QueueKept, Zenon DEF ide
<1>8. OnlyOutOfBuffers'
  BY <1>1, OutOfBuffers, Zenon DEF OnlyOutOfBuffers
<1>9. PinnedFit'
  BY <1>2, PinnedKept, Zenon DEF Busy
<1> QED
  BY <1>3, <1>4, <1>5, <1>6, <1>7, <1>8, <1>9, Zenon

\* What bget does when it gives buffer i to p for block b.
Given(p, i, b) ==
  /\ pc[p] = "idle"
  /\ refcnt' = [refcnt EXCEPT ![i] = refcnt[i] + 1]
  /\ buf' = [buf EXCEPT ![p] = i] /\ want' = [want EXCEPT ![p] = b] /\ pc' = [pc EXCEPT ![p] = "lock"]
  /\ UNCHANGED <<lru, data, owner, idequeue, cmd, irq, disk, panicked>>

\* The block is cached.
Hit(p, i, b) == Given(p, i, b) /\ blockno[i] = b /\ UNCHANGED <<blockno, valid, dirty, failed>>

\* A buffer that nobody has is recycled.
Recycled(p, i, b) ==
  /\ Given(p, i, b) /\ i \in Free /\ \A j \in Bufs : blockno[j] # b
  /\ blockno' = [blockno EXCEPT ![i] = b]
  /\ valid' = valid \ {i} /\ dirty' = dirty \ {i} /\ failed' = failed \ {i}

\* The three ways out of bget.
LEMMA BgetCases ==
  ASSUME BufConstants, IInv, NEW p \in Procs, NEW b \in Blocks, bget(p, b)
  PROVE  \/ \E i \in Bufs : Hit(p, i, b) \/ Recycled(p, i, b)
         \/ /\ pc[p] = "idle" /\ Free = {} /\ panicked' = "bget"
            /\ want' = [want EXCEPT ![p] = b] /\ pc' = [pc EXCEPT ![p] = "lock"]
            /\ UNCHANGED <<lru, blockno, refcnt, data, valid, dirty, owner, idequeue, cmd, irq, disk, buf, failed>>
<1> USE DEF IInv
<1> DEFINE cached == {i \in Bufs : blockno[i] = b}
<1>1. /\ pc[p] = "idle"
      /\ want' = [want EXCEPT ![p] = b] /\ pc' = [pc EXCEPT ![p] = "lock"]
      /\ UNCHANGED <<lru, data, owner, idequeue, cmd, irq, disk>>
  BY Zenon DEF bget, Goto, ide
<1>2. CASE cached # {}
  <2> DEFINE i == CHOOSE i \in cached : TRUE
  <2>1. i \in Bufs /\ blockno[i] = b
    BY <1>2, Zenon
  <2>2. /\ refcnt' = [refcnt EXCEPT ![i] = @ + 1]
        /\ buf' = [buf EXCEPT ![p] = i]
        /\ UNCHANGED <<blockno, valid, dirty, failed, panicked>>
    BY <1>2, Zenon DEF bget
  <2>3. Hit(p, i, b)
    BY <1>1, <2>1, <2>2, Zenon DEF Hit, Given
  <2> QED
    BY <2>1, <2>3, Zenon
<1>3. CASE cached = {} /\ Free # {}
  <2> DEFINE i == LeastRecent(Free)
  <2>1. i \in Free /\ i \in Bufs /\ refcnt[i] = 0
    <3>1. Free \in SUBSET Bufs
      BY Zenon DEF Free
    <3>2. i \in Free
      BY <1>3, <3>1, LeastRecentFound, Zenon
    <3> QED
      BY <3>2, Zenon DEF Free
  <2>2. /\ blockno' = [blockno EXCEPT ![i] = b]
        /\ valid' = valid \ {i} /\ dirty' = dirty \ {i}
        /\ refcnt' = [refcnt EXCEPT ![i] = 1]
        /\ buf' = [buf EXCEPT ![p] = i]
        /\ failed' = failed \ {i}
        /\ UNCHANGED panicked
    BY <1>3, Zenon DEF bget
  <2>3. refcnt' = [refcnt EXCEPT ![i] = refcnt[i] + 1]
    BY <2>1, <2>2
  <2>4. Recycled(p, i, b)
    BY <1>1, <1>3, <2>1, <2>2, <2>3, Zenon DEF Recycled, Given
  <2> QED
    BY <2>1, <2>4, Zenon
<1>4. CASE cached = {} /\ Free = {}
  BY <1>1, <1>4, Zenon DEF bget
<1> QED
  BY <1>2, <1>3, <1>4, Zenon

\* bget finds the block.
LEMMA HitHolds ==
  ASSUME BufConstants, IInv, panicked = "no", UNCHANGED reserve, NEW p \in Procs, NEW b \in Blocks,
         NEW i \in Bufs, Hit(p, i, b)
  PROVE  IInv'
<1> USE DEF IInv
<1>1. buf[p] = NoBuf /\ NoBuf \notin Bufs /\ pc[p] = "idle" /\ "lock" \in Labels /\ blockno[i] = b
  BY NoBufIsNone, Zenon DEF Hit, Given, Using, Labels
<1>2. /\ UNCHANGED <<lru, data, owner, idequeue, cmd, irq, disk, panicked, blockno, valid, dirty, failed>>
      /\ UNCHANGED ide
  BY Zenon DEF Hit, Given, ide
<1>3. /\ pc'[p] = "lock" /\ \A q \in Procs : q # p => pc'[q] = pc[q]
      /\ buf'[p] = i /\ \A q \in Procs : q # p => buf'[q] = buf[q]
      /\ want'[p] = b /\ \A q \in Procs : q # p => want'[q] = want[q]
  BY Zenon DEF Hit, Given, Types
<1>4. RefsCounted'
  BY <1>1, RefsUp, Zenon DEF Hit, Given
<1>5. Types'
  <2>1. refcnt' \in [Bufs -> Int]
    BY DEF Hit, Given, Types
  <2>2. /\ pc' \in [Procs -> Labels] /\ buf' \in [Procs -> Bufs \cup {NoBuf}]
        /\ want' \in [Procs -> Blocks \cup {NoBlock}]
    BY <1>1, Zenon DEF Hit, Given, Types
  <2> QED
    BY <1>2, <2>1, <2>2, Zenon DEF Types
<1>6. Using'
  <2>1. ASSUME NEW q \in Procs
        PROVE  /\ pc'[q] = "idle" => buf'[q] = NoBuf
               /\ pc'[q] \notin {"idle", "lock"} => buf'[q] # NoBuf
               /\ pc'[q] = "lock" /\ panicked' = "no" => buf'[q] # NoBuf
               /\ buf'[q] # NoBuf => want'[q] \in Blocks /\ blockno'[buf'[q]] = want'[q]
    <3>1. CASE q = p
      BY <1>1, <1>2, <1>3, <3>1, Zenon
    <3>2. CASE q # p
      <4>1. /\ pc'[q] = pc[q] /\ buf'[q] = buf[q] /\ want'[q] = want[q]
            /\ blockno' = blockno /\ panicked' = panicked
        BY <1>2, <1>3, <3>2, Zenon
      <4> QED
        BY <4>1, Zenon DEF Using
    <3> QED
      BY <3>1, <3>2, Zenon
  <2>2. (\A j, k \in Bufs : blockno'[j] = blockno'[k] /\ blockno'[j] # NoBlock => j = k)
        /\ \A j \in valid' : blockno'[j] \in Blocks
    BY <1>2, Zenon DEF Using
  <2> QED
    BY <2>1, <2>2, Zenon DEF Using
<1>7. Owned'
  <2>1. \A q \in Procs : pc'[q] \in Holding <=> pc[q] \in Holding
    BY <1>1, <1>2, <1>3, Zenon DEF Holding
  <2>2. \A q \in Procs : pc[q] \in Holding => buf'[q] = buf[q]
    BY <1>1, <1>2, <1>3, Zenon DEF Holding
  <2> QED
    BY <1>1, <1>2, <1>3, <2>1, <2>2, OwnedKept, Zenon
<1>8. Flagged'
  BY <1>1, <1>2, <1>3, Zenon DEF Flagged, Done
<1>9. Queued' /\ Device'
  BY <1>1, <1>2, <1>3, QueueKept, Zenon
<1>10. Coherent' /\ OnlyOutOfBuffers'
  BY <1>2, Zenon DEF Coherent, OnlyOutOfBuffers
<1>11. PinnedFit'
  BY <1>1, <1>2, <1>3, PinnedKept, Zenon DEF Busy
<1> QED
  BY <1>4, <1>5, <1>6, <1>7, <1>8, <1>9, <1>10, <1>11, Zenon

\* bget recycles a buffer: nobody has it, it is in no queue, and the disk has its contents.
LEMMA RecycledHolds ==
  ASSUME BufConstants, IInv, panicked = "no", UNCHANGED reserve, NEW p \in Procs, NEW b \in Blocks,
         NEW i \in Bufs, Recycled(p, i, b)
  PROVE  IInv' /\ i \notin dirty
<1> USE DEF IInv
<1>1. /\ buf[p] = NoBuf /\ NoBuf \notin Bufs /\ pc[p] = "idle" /\ "lock" \in Labels
      /\ refcnt[i] = 0 /\ i \notin dirty
  BY NoBufIsNone, Zenon DEF Recycled, Given, Using, Labels, Free
<1>2. /\ UNCHANGED <<lru, data, owner, idequeue, cmd, irq, disk, panicked>>
      /\ dirty' = dirty /\ valid' = valid \ {i} /\ failed' = failed \ {i}
      /\ UNCHANGED ide
      /\ blockno' \in [Bufs -> Blocks \cup {NoBlock}]
      /\ blockno'[i] = b /\ \A j \in Bufs : j # i => blockno'[j] = blockno[j]
  <2>1. /\ UNCHANGED <<lru, data, owner, idequeue, cmd, irq, disk, panicked>> /\ UNCHANGED ide
        /\ dirty' = dirty \ {i} /\ valid' = valid \ {i} /\ failed' = failed \ {i}
        /\ blockno' = [blockno EXCEPT ![i] = b]
    BY Zenon DEF Recycled, Given, ide
  <2>2. dirty' = dirty
    BY <1>1, <2>1, Zenon
  <2>3. /\ blockno' \in [Bufs -> Blocks \cup {NoBlock}]
        /\ blockno'[i] = b /\ \A j \in Bufs : j # i => blockno'[j] = blockno[j]
    BY <2>1, Zenon DEF Types
  <2> QED
    BY <2>1, <2>2, <2>3, Zenon
<1>3. /\ pc'[p] = "lock" /\ \A q \in Procs : q # p => pc'[q] = pc[q]
      /\ buf'[p] = i /\ \A q \in Procs : q # p => buf'[q] = buf[q]
      /\ want'[p] = b /\ \A q \in Procs : q # p => want'[q] = want[q]
  BY Zenon DEF Recycled, Given, Types
<1>4. RefsCounted'
  BY <1>1, RefsUp, Zenon DEF Recycled, Given
<1>5. \A q \in Procs : buf[q] # i
  BY <1>1, Unused, Zenon
<1>6. i \notin Queue /\ owner[i] = NoProc /\ Queue \subseteq Bufs
  <2>1. Queue \subseteq Bufs
    BY QueueOfBufs, Zenon
  <2> QED
    BY <1>5, <2>1, FreeIsFree, Zenon
<1>7. Types'
  <2>1. refcnt' \in [Bufs -> Int]
    BY DEF Recycled, Given, Types
  <2>2. /\ pc' \in [Procs -> Labels] /\ buf' \in [Procs -> Bufs \cup {NoBuf}]
        /\ want' \in [Procs -> Blocks \cup {NoBlock}]
    BY <1>1, Zenon DEF Recycled, Given, Types
  <2>3. valid' \subseteq Bufs /\ dirty' \subseteq valid' /\ failed' \subseteq valid' \ dirty'
    BY <1>1, <1>2, Zenon DEF Types
  <2> QED
    BY <1>2, <2>1, <2>2, <2>3, Zenon DEF Types
<1>8. Using'
  <2>1. \A j \in Bufs : blockno[j] # b
    BY Zenon DEF Recycled
  <2>2. \A j, k \in Bufs : blockno'[j] = blockno'[k] /\ blockno'[j] # NoBlock => j = k
    BY <1>2, <2>1 DEF Using
  <2>3. \A j \in valid' : blockno'[j] \in Blocks
    BY <1>2, Zenon DEF Using, Types
  <2>4. ASSUME NEW q \in Procs
        PROVE  /\ pc'[q] = "idle" => buf'[q] = NoBuf
               /\ pc'[q] \notin {"idle", "lock"} => buf'[q] # NoBuf
               /\ pc'[q] = "lock" /\ panicked' = "no" => buf'[q] # NoBuf
               /\ buf'[q] # NoBuf => want'[q] \in Blocks /\ blockno'[buf'[q]] = want'[q]
    <3>1. CASE q = p
      BY <1>1, <1>2, <1>3, <3>1, Zenon
    <3>2. CASE q # p
      <4>1. buf'[q] # NoBuf => buf'[q] \in Bufs /\ buf'[q] # i
        <5>1. buf'[q] = buf[q] /\ buf[q] # i /\ buf[q] \in Bufs \cup {NoBuf}
          BY <1>3, <1>5, <3>2, Zenon DEF Types
        <5> QED
          BY <5>1, Zenon
      <4>2. /\ pc'[q] = pc[q] /\ buf'[q] = buf[q] /\ want'[q] = want[q] /\ panicked' = panicked
            /\ buf'[q] # NoBuf => blockno'[buf'[q]] = blockno[buf[q]]
        BY <1>2, <1>3, <3>2, <4>1, Zenon
      <4> QED
        BY <4>2, Zenon DEF Using
    <3> QED
      BY <3>1, <3>2, Zenon
  <2> QED
    BY <2>2, <2>3, <2>4, Zenon DEF Using
<1>9. Owned'
  <2>1. \A q \in Procs : pc'[q] \in Holding <=> pc[q] \in Holding
    BY <1>1, <1>2, <1>3, Zenon DEF Holding
  <2>2. \A q \in Procs : pc[q] \in Holding => buf'[q] = buf[q]
    BY <1>1, <1>2, <1>3, Zenon DEF Holding
  <2> QED
    BY <1>1, <1>2, <1>3, <2>1, <2>2, OwnedKept, Zenon
<1>10. Flagged'
  <2>1. ASSUME NEW q \in Procs, q # p
        PROVE  /\ pc'[q] = "have" => buf'[q] \in valid'
               /\ pc'[q] = "woken" => Done(buf[q])'
               /\ pc'[q] \in {"iderw", "asleep"} => ~Done(buf[q])'
    BY <1>2, <1>3, <1>5, <2>1, Zenon DEF Flagged, Done
  <2> QED
    BY <1>3, <2>1, Zenon DEF Flagged
<1>11. Queued' /\ Device'
  BY <1>1, <1>2, <1>3, <1>6, QueueKept, Zenon
<1>12. Coherent' /\ OnlyOutOfBuffers'
  BY <1>2, Zenon DEF Coherent, OnlyOutOfBuffers, Types
<1>13. PinnedFit'
  BY <1>1, <1>2, <1>3, PinnedKept, Zenon DEF Busy
<1> QED
  BY <1>1, <1>4, <1>7, <1>8, <1>9, <1>10, <1>11, <1>12, <1>13, Zenon

\* One step.
LEMMA StepHolds ==
  ASSUME BufConstants, IInv, [Next]_vars
  PROVE  IInv'
<1>1. CASE UNCHANGED vars
  <2>1. /\ UNCHANGED <<lru, blockno, refcnt, data, valid, dirty, owner, idequeue, cmd, irq, disk>>
        /\ UNCHANGED <<pc, buf, want, reserve, failed, panicked>>
    BY <1>1, Zenon DEF vars, bcache, ide, local
  <2>2. Queue' = Queue /\ Pinned' = Pinned
    BY <2>1, Zenon DEF Queue, Pinned
  <2>3. (Types /\ Using /\ RefsCounted /\ Owned)'
    <3>1. Types'
      BY <2>1, Zenon DEF IInv, Types
    <3>2. Using'
      BY <2>1, UsingKept, Zenon DEF IInv
    <3>3. RefsCounted'
      BY <2>1, Zenon DEF IInv, RefsCounted
    <3>4. Owned'
      BY <2>1, OwnedKept, Zenon DEF IInv
    <3> QED
      BY <3>1, <3>2, <3>3, <3>4, Zenon
  <2>4. (Flagged /\ Queued /\ Device)'
    BY <2>1, <2>2, Zenon DEF IInv, Flagged, Queued, Device, Done, Command
  <2>5. (Coherent /\ PinnedFit /\ OnlyOutOfBuffers)'
    BY <2>1, <2>2, Zenon DEF IInv, Coherent, PinnedFit, OnlyOutOfBuffers
  <2> QED
    BY <2>3, <2>4, <2>5, Zenon DEF IInv
<1>2. CASE Next
  <2>1. panicked = "no" /\ UNCHANGED reserve
    BY <1>2, Zenon DEF Next
  <2>2. CASE diskDone
    BY <2>1, <2>2, DiskHolds, Zenon
  <2>3. CASE ideintr
    BY <2>1, <2>3, IntrHolds, Zenon
  <2>4. ASSUME NEW p \in Procs, Step(p) PROVE IInv'
    <3>1. ASSUME NEW b \in Blocks, bget(p, b) PROVE IInv'
      BY <2>1, <3>1, BgetCases, HitHolds, RecycledHolds, BgetPanics, Zenon
    <3>2. CASE acquiresleep(p)
      BY <2>1, <3>2, AcquireHolds, Zenon
    <3>3. CASE bread(p)
      BY <2>1, <3>3, BreadHolds, Zenon
    <3>4. CASE bwrite(p)
      BY <2>1, <3>4, BwriteHolds, Zenon
    <3>5. CASE log_write(p)
      BY <2>1, <3>5, LogWriteHolds, Zenon
    <3>6. CASE brelse(p)
      BY <2>1, <3>6, BrelseHolds, Zenon
    <3>7. CASE bput(p)
      BY <2>1, <3>7, BputHolds, Zenon
    <3>8. CASE iderw(p)
      BY <2>1, <3>8, IderwHolds, Zenon
    <3>9. CASE iderwAgain(p)
      BY <2>1, <3>9, AgainHolds, Zenon
    <3> QED
      BY <2>4, <3>1, <3>2, <3>3, <3>4, <3>5, <3>6, <3>7, <3>8, <3>9, Zenon DEF Step
  <2> QED
    BY <1>2, <2>2, <2>3, <2>4, Zenon DEF Next
<1> QED
  BY <1>1, <1>2, Zenon

-----------------------------------------------------------------------------
\* The invariant holds always.
LEMMA Invariant ==
  ASSUME BufConstants
  PROVE  Spec => []IInv
<1>1. Init => IInv
  BY InitHolds, Zenon
<1>2. IInv /\ [Next]_vars => IInv'
  BY StepHolds, Zenon
<1> QED
  BY <1>1, <1>2, PTL DEF Spec

\* From bget to brelse a buffer stays with its block, no block has two buffers, and whoever bread
\* has returned to holds the lock of a buffer with contents (bget, bread, brelse): for any number
\* of processes, buffers and blocks, whatever is recycled meanwhile.
THEOREM CacheKeeps ==
  ASSUME BufConstants
  PROVE  Spec => []BufferKept
<1>1. ASSUME IInv PROVE BufferKept
  <2>1. ASSUME NEW p \in Procs, pc[p] = "have" PROVE owner[buf[p]] = p /\ buf[p] \in valid
    BY <1>1, <2>1, Owner, Zenon DEF IInv, Flagged, Holding
  <2> QED
    BY <1>1, <2>1, Zenon DEF IInv, BufferKept, Using
<1> QED
  BY <1>1, Invariant, PTL

\* The reference count of a buffer is the number of processes between its bget and the end of
\* brelse, so a buffer is recycled exactly when nobody can have a pointer to it.
THEOREM CacheCounts ==
  ASSUME BufConstants
  PROVE  Spec => []RefsCounted
<1>1. IInv => RefsCounted
  BY Zenon DEF IInv
<1> QED
  BY <1>1, Invariant, PTL

\* The disk works on the first request of the queue, and whoever sleeps in iderw has its buffer
\* in the queue: no interrupt is missed between iderw's test and its sleep (iderw, ideintr).
THEOREM DriverWakeups ==
  ASSUME BufConstants
  PROVE  Spec => []NoLostRequest
<1>1. ASSUME IInv PROVE NoLostRequest
  <2>1. idequeue # <<>> => cmd # NoCmd /\ cmd.blk = blockno[Head(idequeue)]
    <3> SUFFICES ASSUME idequeue # <<>> PROVE cmd # NoCmd /\ cmd.blk = blockno[Head(idequeue)]
      BY Zenon
    <3>1. cmd.blk = blockno[Head(idequeue)] /\ cmd = Command(Head(idequeue))
      BY <1>1, HeadFacts, Zenon
    <3>2. cmd.op \in {"read", "write"}
      BY <3>1, Zenon DEF Command
    <3> QED
      BY <3>1, <3>2 DEF NoCmd
  <2>2. \A p \in Procs : pc[p] = "asleep" => \E k \in 1..Len(idequeue) : idequeue[k] = buf[p]
    BY <1>1, Zenon DEF IInv, Queued, Queue
  <2> QED
    BY <2>1, <2>2, Zenon DEF NoLostRequest
<1> QED
  BY <1>1, Invariant, PTL

\* Of the panics of bio.c and ide.c only bget's can be reached, and that one only if there are
\* fewer buffers than processes and blocks the log may pin together.
THEOREM CachePanics ==
  ASSUME BufConstants
  PROVE  Spec => []OnlyOutOfBuffers
<1>1. IInv => OnlyOutOfBuffers
  BY Zenon DEF IInv
<1> QED
  BY <1>1, Invariant, PTL

-----------------------------------------------------------------------------
\* The contents of a block are those of its valid buffer, or those on the disk.
Contents ==
  /\ \A b \in Blocks : \A i \in valid : blockno[i] = b => Current(b) = data[i]
  /\ \A b \in Blocks : (\A i \in valid : blockno[i] # b) => Current(b) = disk[b]

\* It is what Current looks for, as no block has two buffers.
LEMMA ContentsNow ==
  ASSUME BufConstants, Types, Using
  PROVE  Contents
<1>1. ASSUME NEW b \in Blocks, NEW i \in valid, blockno[i] = b PROVE Current(b) = data[i]
  <2>1. i \in Bufs /\ blockno[i] # NoBlock
    BY <1>1, Zenon DEF Types, BufConstants
  <2>2. \A j \in Bufs : blockno[j] = b => j = i
    BY <1>1, <2>1, Zenon DEF Using
  <2>3. {j \in Bufs : blockno[j] = b /\ j \in valid} = {i}
    BY <1>1, <2>1, <2>2, Zenon
  <2> QED
    BY <2>3, Zenon DEF Current
<1>2. ASSUME NEW b \in Blocks, \A i \in valid : blockno[i] # b PROVE Current(b) = disk[b]
  <2>1. {j \in Bufs : blockno[j] = b /\ j \in valid} = {}
    BY <1>2, Zenon
  <2> QED
    BY <2>1, Zenon DEF Current
<1> QED
  BY <1>1, <1>2, Zenon DEF Contents

\* The same for the next state.
LEMMA ContentsNext ==
  ASSUME BufConstants, Types', Using'
  PROVE  Contents'
<1>1. ASSUME NEW b \in Blocks, NEW i \in valid', blockno'[i] = b PROVE Current(b)' = data'[i]
  <2>1. i \in Bufs /\ blockno'[i] # NoBlock
    BY <1>1, Zenon DEF Types, BufConstants
  <2>2. \A j \in Bufs : blockno'[j] = b => j = i
    BY <1>1, <2>1, Zenon DEF Using
  <2>3. {j \in Bufs : blockno'[j] = b /\ j \in valid'} = {i}
    BY <1>1, <2>1, <2>2, Zenon
  <2> QED
    BY <2>3, Zenon DEF Current
<1>2. ASSUME NEW b \in Blocks, \A i \in valid' : blockno'[i] # b PROVE Current(b)' = disk'[b]
  <2>1. {j \in Bufs : blockno'[j] = b /\ j \in valid'} = {}
    BY <1>2, Zenon
  <2> QED
    BY <2>1, Zenon DEF Current
<1> QED
  BY <1>1, <1>2, Zenon DEF Contents

\* No block has two buffers.
LEMMA OneBuffer ==
  ASSUME BufConstants, Using, NEW i \in Bufs, blockno[i] \in Blocks, NEW j \in Bufs, j # i
  PROVE  blockno[j] # blockno[i]
<1> QED
  BY Zenon DEF Using, BufConstants

\* A process holds the block of the buffer whose lock it has.
HeldExact == \A p \in Procs : Held[p] = IF pc[p] \in Holding THEN blockno[buf[p]] ELSE NoBlock

\* It is what Held says, as the lock has its owner.
LEMMA HeldNow ==
  ASSUME BufConstants, Types, Using, Owned
  PROVE  HeldExact
<1>1. NoBuf \notin Bufs
  BY NoBufIsNone, Zenon
<1>2. ASSUME NEW p \in Procs PROVE (buf[p] # NoBuf /\ owner[buf[p]] = p) <=> pc[p] \in Holding
  <2>1. buf[p] \in Bufs \cup {NoBuf} /\ (buf[p] \in Bufs => (owner[buf[p]] = p <=> pc[p] \in Holding))
    BY Zenon DEF Types, Owned
  <2>2. pc[p] \in Holding => buf[p] # NoBuf
    BY Zenon DEF Using, Holding
  <2> QED
    BY <1>1, <2>1, <2>2, Zenon
<1> QED
  BY <1>2, Zenon DEF HeldExact, Held

\* The same for the next state.
LEMMA HeldNext ==
  ASSUME BufConstants, Types', Using', Owned'
  PROVE  HeldExact'
<1>1. NoBuf \notin Bufs
  BY NoBufIsNone, Zenon
<1>2. ASSUME NEW p \in Procs PROVE (buf'[p] # NoBuf /\ owner'[buf'[p]] = p) <=> pc'[p] \in Holding
  <2>1. buf'[p] \in Bufs \cup {NoBuf} /\ (buf'[p] \in Bufs => (owner'[buf'[p]] = p <=> pc'[p] \in Holding))
    BY Zenon DEF Types, Owned
  <2>2. pc'[p] \in Holding => buf'[p] # NoBuf
    BY Zenon DEF Using, Holding
  <2> QED
    BY <1>1, <2>1, <2>2, Zenon
<1> QED
  BY <1>2, Zenon DEF HeldExact, Held

\* What it takes to change the holder of one block.
LEMMA HeldChange ==
  ASSUME NEW p \in Procs, NEW b, Held'[p] = b, \A q \in Procs : q # p => Held'[q] = Held[q]
  PROVE  Held' = [Held EXCEPT ![p] = b]
<1>1. Held = [q \in Procs |-> Held[q]] /\ Held' = [q \in Procs |-> Held'[q]]
  BY Zenon DEF Held
<1> HIDE DEF Held
<1> QED
  BY <1>1, Zenon

\* A step that moves nobody into Holding or out of it, and no buffer, changes no holder.
LEMMA SameHeld ==
  ASSUME HeldExact, HeldExact',
         \A q \in Procs : pc'[q] \in Holding <=> pc[q] \in Holding,
         \A q \in Procs : pc[q] \in Holding => blockno'[buf'[q]] = blockno[buf[q]]
  PROVE  Held' = Held
<1>1. \A q \in Procs : Held'[q] = Held[q]
  BY DEF HeldExact
<1> QED
  BY <1>1, Zenon DEF Held

seen == <<Mem, disk, Held, Bad>>

\* Without a change of buffers or disk, the block device sees at most a change of holders.
LEMMA SameBlocks ==
  ASSUME UNCHANGED <<blockno, data, valid, disk, failed>>
  PROVE  UNCHANGED <<Mem, Bad>>
<1>1. \A b : Current(b)' = Current(b)
  BY DEF Current
<1> QED
  BY <1>1, Zenon DEF Mem, Bad

\* bget of a cached block changes nothing that the block device sees.
LEMMA HitMaps ==
  ASSUME BufConstants, IInv, IInv', NEW p \in Procs, NEW b \in Blocks, NEW i \in Bufs, Hit(p, i, b)
  PROVE  UNCHANGED seen
<1>1. HeldExact /\ HeldExact'
  BY HeldNow, HeldNext, Zenon DEF IInv
<1>2. /\ pc[p] = "idle" /\ pc'[p] = "lock" /\ \A q \in Procs : q # p => pc'[q] = pc[q] /\ buf'[q] = buf[q]
      /\ UNCHANGED <<blockno, data, valid, disk, failed>>
  <2>1. /\ pc[p] = "idle" /\ pc' = [pc EXCEPT ![p] = "lock"] /\ buf' = [buf EXCEPT ![p] = i]
        /\ UNCHANGED <<blockno, data, valid, disk, failed>>
    BY Zenon DEF Hit, Given, ide
  <2> QED
    BY <2>1, Zenon DEF IInv, Types
<1>3. Held' = Held
  BY <1>1, <1>2, SameHeld, Zenon DEF Holding
<1> QED
  BY <1>2, <1>3, SameBlocks, Zenon DEF seen

\* A recycled buffer has what the disk has, unless its read failed: then the block gets the
\* contents of the disk back.
LEMMA RecycledMaps ==
  ASSUME BufConstants, IInv, IInv', NEW p \in Procs, NEW b \in Blocks, NEW i \in Bufs, Recycled(p, i, b)
  PROVE  BD!Next \/ UNCHANGED seen
<1> USE DEF IInv
<1>1. HeldExact /\ HeldExact' /\ Contents /\ Contents'
  BY HeldNow, HeldNext, ContentsNow, ContentsNext, Zenon
<1>2. /\ pc[p] = "idle" /\ pc'[p] = "lock" /\ \A q \in Procs : q # p => pc'[q] = pc[q] /\ buf'[q] = buf[q]
      /\ \A j \in Bufs : j # i => blockno'[j] = blockno[j]
      /\ valid' = valid \ {i} /\ failed' = failed \ {i} /\ UNCHANGED <<data, disk>>
      /\ i \notin dirty /\ \A q \in Procs : buf[q] # i
  <2>1. /\ pc[p] = "idle" /\ pc' = [pc EXCEPT ![p] = "lock"] /\ buf' = [buf EXCEPT ![p] = i]
        /\ blockno' = [blockno EXCEPT ![i] = b] /\ valid' = valid \ {i} /\ failed' = failed \ {i}
        /\ UNCHANGED <<data, disk>> /\ refcnt[i] = 0 /\ i \notin dirty
    BY Zenon DEF Recycled, Given, ide, Free
  <2>2. \A q \in Procs : buf[q] # i
    BY <2>1, Unused, Zenon
  <2>0. /\ pc \in [Procs -> Labels] /\ buf \in [Procs -> Bufs \cup {NoBuf}]
        /\ blockno \in [Bufs -> Blocks \cup {NoBlock}]
    BY Zenon DEF Types
  <2>3. \A q \in Procs : q # p => pc'[q] = pc[q] /\ buf'[q] = buf[q]
    BY <2>0, <2>1, Zenon
  <2>4. pc'[p] = "lock"
    BY <2>0, <2>1, Zenon
  <2>5. \A j \in Bufs : j # i => blockno'[j] = blockno[j]
    BY <2>0, <2>1, Zenon
  <2> QED
    BY <2>1, <2>2, <2>3, <2>4, <2>5, Zenon
<1>3. Held' = Held
  <2>1. \A q \in Procs : pc[q] \in Holding => blockno'[buf'[q]] = blockno[buf[q]]
    <3> SUFFICES ASSUME NEW q \in Procs, pc[q] \in Holding PROVE blockno'[buf'[q]] = blockno[buf[q]]
      BY Zenon
    <3>1. q # p /\ buf[q] \in Bufs /\ buf[q] # i
      BY <1>2, HasBuffer, Zenon DEF Holding
    <3> QED
      BY <1>2, <3>1, Zenon
  <2> QED
    BY <1>1, <1>2, <2>1, SameHeld, Zenon DEF Holding
<1>4. ASSUME NEW c \in Blocks, ~(i \in valid /\ blockno[i] = c) PROVE Current(c)' = Current(c)
  <2>1. CASE \E j \in valid : blockno[j] = c
    <3>1. PICK j \in valid : blockno[j] = c
      BY <2>1, Zenon
    <3>2. j # i /\ j \in valid' /\ blockno'[j] = c
      BY <1>2, <1>4, <3>1, Zenon DEF Types
    <3>3. Current(c) = data[j]
      BY <1>1, <3>1, Zenon DEF Contents
    <3>4. Current(c)' = data'[j]
      BY <1>1, <3>2, Zenon DEF Contents
    <3> QED
      BY <1>2, <3>3, <3>4, Zenon
  <2>2. CASE \A j \in valid : blockno[j] # c
    <3>1. \A j \in valid' : blockno'[j] # c
      BY <1>2, <2>2, Zenon DEF Types
    <3> QED
      BY <1>1, <1>2, <2>2, <3>1, Zenon DEF Contents
  <2> QED
    BY <2>1, <2>2, Zenon
<1>5. i \in valid => blockno[i] \in Blocks /\ Current(blockno[i]) = data[i]
  BY <1>1, Zenon DEF Contents, Using
<1>6. ASSUME NEW c \in Blocks, i \in valid, blockno[i] = c PROVE Current(c)' = disk[c]
  <2>1. \A j \in valid' : blockno'[j] # c
    BY <1>2, <1>6, OneBuffer, Zenon DEF Types
  <2> QED
    BY <1>1, <1>2, <2>1, Zenon DEF Contents
<1>7. CASE i \notin failed
  <2>1. i \in valid => data[i] = disk[blockno[i]]
    BY <1>2, <1>7, Zenon DEF Coherent
  <2>2. \A c \in Blocks : Current(c)' = Current(c)
    BY <1>4, <1>5, <1>6, <2>1, Zenon
  <2>3. Mem' = Mem
    BY <2>2, Zenon DEF Mem
  <2>4. Bad' = Bad
    <3>1. failed' = failed
      BY <1>2, <1>7, Zenon
    <3>2. failed \subseteq Bufs
      BY Zenon DEF Types
    <3>3. \A j \in failed : blockno'[j] = blockno[j]
      BY <1>2, <1>7, <3>2, Zenon
    <3> QED
      BY <3>1, <3>3, Zenon DEF Bad
  <2> QED
    BY <1>2, <1>3, <2>3, <2>4, Zenon DEF seen
<1>8. CASE i \in failed
  <2> DEFINE c == blockno[i]
  <2>1. i \in valid /\ c \in Blocks /\ c \in Bad
    BY <1>5, <1>8, Zenon DEF Types, Bad
  <2>2. Bad' = Bad \ {c}
    <3>1. \A j \in failed : j \in Bufs /\ (j # i => blockno'[j] = blockno[j] /\ blockno[j] # c)
      BY <1>2, <2>1, OneBuffer, Zenon DEF Types
    <3>2. failed' = failed \ {i} /\ i \in failed
      BY <1>2, <1>8, Zenon
    <3>3. \A e : (\E j \in failed' : e = blockno'[j]) <=> (\E j \in failed : e = blockno[j]) /\ e # c
      BY <3>1, <3>2, Zenon
    <3> HIDE DEF c
    <3> QED
      BY <3>3, Zenon DEF Bad
  <2>3. Mem' = [Mem EXCEPT ![c] = disk[c]]
    <3>1. \A e \in Blocks : Current(e)' = IF e = c THEN disk[c] ELSE Current(e)
      BY <1>4, <1>6, <2>1, Zenon
    <3> QED
      BY <3>1, <2>1, Zenon DEF Mem
  <2>4. BD!Forget(c)
    BY <1>2, <1>3, <2>1, <2>2, <2>3, Zenon DEF BD!Forget
  <2> QED
    BY <2>1, <2>4, Zenon DEF BD!Next
<1> QED
  BY <1>7, <1>8, Zenon

\* acquiresleep: the process holds the block, which nobody held.
LEMMA AcquireMaps ==
  ASSUME BufConstants, IInv, IInv', panicked = "no", NEW p \in Procs, acquiresleep(p)
  PROVE  BD!Next
<1> USE DEF IInv
<1> DEFINE i == buf[p]
           b == blockno[i]
<1>1. HeldExact /\ HeldExact'
  BY HeldNow, HeldNext, Zenon
<1>2. /\ pc[p] = "lock" /\ i \in Bufs /\ owner[i] = NoProc /\ b \in Blocks
      /\ pc'[p] = "bread" /\ \A q \in Procs : q # p => pc'[q] = pc[q]
      /\ UNCHANGED <<blockno, data, valid, disk, failed, buf>>
  <2>1. /\ pc[p] = "lock" /\ owner[i] = NoProc /\ pc' = [pc EXCEPT ![p] = "bread"]
        /\ UNCHANGED <<blockno, data, valid, disk, failed, buf>>
    BY Zenon DEF acquiresleep, Goto, bcache, ide
  <2>2. pc'[p] = "bread" /\ \A q \in Procs : q # p => pc'[q] = pc[q]
    BY <2>1, Zenon DEF Types
  <2> QED
    BY <2>1, <2>2, HasBuffer, Zenon
<1>3. UNCHANGED <<Mem, Bad>>
  BY <1>2, SameBlocks, Zenon
<1>4. Held[p] = NoBlock /\ Held'[p] = b
  BY <1>1, <1>2, Zenon DEF HeldExact, Holding
<1>5. \A q \in Procs : q # p => Held'[q] = Held[q]
  BY <1>1, <1>2, Zenon DEF HeldExact
<1>6. Held' = [Held EXCEPT ![p] = b]
  BY <1>4, <1>5, HeldChange, Zenon
<1>7. ASSUME NEW q \in Procs, Held[q] = b PROVE FALSE
  <2>1. pc[q] \in Holding /\ blockno[buf[q]] = b
    BY <1>1, <1>2, <1>7, Zenon DEF HeldExact, BufConstants
  <2>2. buf[q] \in Bufs
    BY <2>1, HasBuffer, Zenon
  <2>3. buf[q] = i
    BY <1>2, <2>1, <2>2, Zenon DEF Using, BufConstants
  <2>4. owner[i] = q
    BY <1>2, <2>1, <2>3, Zenon DEF Owned
  <2> QED
    BY <1>2, <2>4, Zenon DEF BufConstants
<1>8. BD!Hold(p, b)
  BY <1>2, <1>3, <1>4, <1>6, <1>7, Zenon DEF BD!Hold
<1> QED
  BY <1>2, <1>8, Zenon DEF BD!Next

\* bwrite and log_write: the holder changes the block.
LEMMA WriteMaps ==
  ASSUME BufConstants, IInv, IInv', NEW p \in Procs, Written(p), NEW l \in {"have", "iderw"},
         pc' = [pc EXCEPT ![p] = l]
  PROVE  BD!Next
<1> USE DEF IInv
<1> DEFINE i == buf[p]
<1>1. HeldExact /\ HeldExact' /\ Contents /\ Contents'
  BY HeldNow, HeldNext, ContentsNow, ContentsNext, Zenon
<1>2. /\ pc[p] = "have" /\ i \in valid /\ i \in Bufs /\ blockno[i] \in Blocks
      /\ failed' = failed \ {i}
      /\ UNCHANGED <<blockno, valid, disk, buf>>
      /\ pc'[p] \in Holding /\ \A q \in Procs : q # p => pc'[q] = pc[q]
  <2>1. pc[p] = "have" /\ failed' = failed \ {i} /\ UNCHANGED <<blockno, valid, disk, buf>>
    BY Zenon DEF Written
  <2>2. i \in valid /\ i \in Bufs /\ blockno[i] \in Blocks
    BY <2>1, HasBuffer, Zenon DEF Holding, Flagged
  <2>3. pc'[p] \in Holding /\ \A q \in Procs : q # p => pc'[q] = pc[q]
    BY Zenon DEF Types, Holding
  <2> QED
    BY <2>1, <2>2, <2>3, Zenon
<1>0. PICK b \in Blocks : b = blockno[i]
  BY <1>2, Zenon
<1>3. PICK d \in Data : data' = [data EXCEPT ![i] = d]
  BY Zenon DEF Written
<1>4. Held' = Held
  <2>1. \A q \in Procs : pc'[q] \in Holding <=> pc[q] \in Holding
    BY <1>2, Zenon DEF Holding
  <2> QED
    BY <1>1, <1>2, <2>1, SameHeld, Zenon
<1>5. Held[p] = b /\ b # NoBlock
  BY <1>0, <1>1, <1>2, Zenon DEF HeldExact, Holding, BufConstants
<1>6. Current(b)' = d
  <2>1. data'[i] = d
    BY <1>2, <1>3, Zenon DEF Types
  <2>2. Current(b)' = data'[i]
    BY <1>0, <1>1, <1>2, Zenon DEF Contents
  <2> QED
    BY <2>1, <2>2, Zenon
<1>7. ASSUME NEW c \in Blocks, c # b PROVE Current(c)' = Current(c)
  <2>1. ASSUME NEW j \in Bufs, blockno[j] = c PROVE data'[j] = data[j]
    <3>1. j # i
      BY <1>0, <1>7, <2>1, Zenon
    <3> QED
      BY <1>3, <3>1, Zenon DEF Types
  <2>2. CASE \E j \in valid : blockno[j] = c
    <3>1. PICK j \in valid : blockno[j] = c
      BY <2>2, Zenon
    <3>2. Current(c) = data[j]
      BY <1>1, <3>1, Zenon DEF Contents
    <3>3. Current(c)' = data'[j]
      BY <1>1, <1>2, <3>1, Zenon DEF Contents
    <3>4. j \in Bufs
      BY Zenon DEF Types
    <3> QED
      BY <2>1, <3>1, <3>2, <3>3, <3>4, Zenon
  <2>3. CASE \A j \in valid : blockno[j] # c
    BY <1>1, <1>2, <2>3, Zenon DEF Contents
  <2> QED
    BY <2>2, <2>3, Zenon
<1>8. Mem' = [Mem EXCEPT ![b] = d]
  <2>1. \A c \in Blocks : Current(c)' = IF c = b THEN d ELSE Current(c)
    <3> SUFFICES ASSUME NEW c \in Blocks PROVE Current(c)' = IF c = b THEN d ELSE Current(c)
      BY Zenon
    <3>1. CASE c = b
      BY <1>6, <3>1, Zenon
    <3>2. CASE c # b
      BY <1>7, <3>2, Zenon
    <3> QED
      BY <3>1, <3>2, Zenon
  <2> QED
    BY <2>1, <1>2, Zenon DEF Mem
<1>9. Bad' = Bad \ {b}
  <2>1. \A j \in failed : j \in Bufs /\ (j # i => blockno[j] # b)
    BY <1>0, <1>2, OneBuffer, Zenon DEF Types
  <2>2. failed' = failed \ {i} /\ blockno' = blockno /\ blockno[i] = b
    BY <1>0, <1>2, Zenon
  <2>3. \A e : (\E j \in failed' : e = blockno'[j]) <=> (\E j \in failed : e = blockno[j]) /\ e # b
    BY <2>1, <2>2, Zenon
  <2> QED
    BY <2>3, Zenon DEF Bad
<1>10. BD!Change(p)
  BY <1>2, <1>4, <1>5, <1>8, <1>9, Zenon DEF BD!Change
<1> QED
  BY <1>10, Zenon DEF BD!Next

\* brelse: the block is let go.
LEMMA BrelseMaps ==
  ASSUME BufConstants, IInv, IInv', NEW p \in Procs, brelse(p), owner[buf[p]] = p
  PROVE  BD!Next
<1> USE DEF IInv
<1>1. HeldExact /\ HeldExact'
  BY HeldNow, HeldNext, Zenon
<1>2. /\ pc[p] = "have" /\ blockno[buf[p]] \in Blocks
      /\ pc'[p] = "put" /\ \A q \in Procs : q # p => pc'[q] = pc[q]
      /\ UNCHANGED <<blockno, data, valid, disk, failed, buf>>
  <2>1. pc[p] = "have" /\ pc' = [pc EXCEPT ![p] = "put"] /\ UNCHANGED <<blockno, data, valid, disk, failed, buf>>
    BY Zenon DEF brelse, Goto, bcache, ide
  <2>2. pc'[p] = "put" /\ \A q \in Procs : q # p => pc'[q] = pc[q]
    BY <2>1, Zenon DEF Types
  <2> QED
    BY <2>1, <2>2, HasBuffer, Zenon DEF Holding
<1>3. UNCHANGED <<Mem, Bad>>
  BY <1>2, SameBlocks, Zenon
<1>4. Held[p] # NoBlock /\ Held'[p] = NoBlock
  BY <1>1, <1>2, Zenon DEF HeldExact, Holding, BufConstants
<1>5. \A q \in Procs : q # p => Held'[q] = Held[q]
  BY <1>1, <1>2, Zenon DEF HeldExact
<1>6. Held' = [Held EXCEPT ![p] = NoBlock]
  BY <1>4, <1>5, HeldChange, Zenon
<1>7. BD!Let(p)
  BY <1>2, <1>3, <1>4, <1>6, Zenon DEF BD!Let
<1> QED
  BY <1>7, Zenon DEF BD!Next

\* The steps that the block device does not see: bread, the end of brelse, iderw.
LEMMA QuietMaps ==
  ASSUME BufConstants, IInv, IInv', panicked = "no", NEW p \in Procs,
         bread(p) \/ bput(p) \/ iderw(p) \/ iderwAgain(p)
  PROVE  UNCHANGED seen
<1> USE DEF IInv
<1>1. HeldExact /\ HeldExact'
  BY HeldNow, HeldNext, Zenon
<1>2. /\ UNCHANGED <<blockno, data, valid, disk, failed>>
      /\ \A q \in Procs : q # p => pc'[q] = pc[q] /\ buf'[q] = buf[q]
      /\ \/ pc[p] = "put" /\ pc'[p] = "idle"
         \/ pc[p] \in Holding /\ pc'[p] \in Holding /\ buf' = buf
  <2>1. CASE bread(p)
    <3>1. PICK l \in Holding : pc' = [pc EXCEPT ![p] = l]
      BY <2>1, Zenon DEF bread, Goto, Holding
    <3>2. pc[p] = "bread" /\ UNCHANGED <<blockno, data, valid, disk, failed, buf>>
      BY <2>1, Zenon DEF bread, bcache, ide
    <3> QED
      BY <3>1, <3>2, Zenon DEF Types, Holding
  <2>2. CASE bput(p)
    <3>1. /\ pc[p] = "put" /\ pc' = [pc EXCEPT ![p] = "idle"] /\ buf' = [buf EXCEPT ![p] = NoBuf]
          /\ UNCHANGED <<blockno, data, valid, disk, failed>>
      BY <2>2, Zenon DEF bput, Goto, ide
    <3> QED
      BY <3>1, Zenon DEF Types
  <2>3. CASE iderw(p)
    <3>1. /\ UNCHANGED <<blockno, data, valid, disk, failed, buf>> /\ pc[p] = "iderw"
          /\ (UNCHANGED pc \/ pc' = [pc EXCEPT ![p] = "asleep"])
      BY <2>3, Zenon DEF iderw, Goto, bcache
    <3> QED
      BY <3>1, Zenon DEF Types, Holding
  <2>4. CASE iderwAgain(p)
    BY <2>4, Zenon DEF iderwAgain, Goto, Types, bcache, ide, Holding
  <2> QED
    BY <2>1, <2>2, <2>3, <2>4, Zenon
<1>3. \A q \in Procs : pc'[q] \in Holding <=> pc[q] \in Holding
  BY <1>2, Zenon DEF Holding
<1>4. \A q \in Procs : pc[q] \in Holding => blockno'[buf'[q]] = blockno[buf[q]]
  BY <1>2, Zenon DEF Holding
<1>5. Held' = Held
  BY <1>1, <1>3, <1>4, SameHeld, Zenon
<1> QED
  BY <1>2, <1>5, SameBlocks, Zenon DEF seen

\* The disk executes its command: a write gives it the current contents of the block.
LEMMA DiskMaps ==
  ASSUME BufConstants, IInv, IInv', diskDone
  PROVE  BD!Next \/ UNCHANGED seen
<1> USE DEF IInv
<1> DEFINE h == Head(idequeue)
           b == blockno[h]
<1>1. HeldExact /\ HeldExact' /\ Contents /\ Contents'
  BY HeldNow, HeldNext, ContentsNow, ContentsNext, Zenon
<1>2. /\ disk' = IF cmd.op = "write" THEN [disk EXCEPT ![cmd.blk] = cmd.data] ELSE disk
      /\ cmd # NoCmd /\ UNCHANGED <<blockno, data, valid, dirty, pc, buf, failed>>
  BY Zenon DEF diskDone, bcache, local
<1>3. idequeue # <<>>
  BY <1>2, Zenon DEF Device
<1>4. /\ h \in Bufs /\ b \in Blocks
      /\ disk' = IF h \in dirty THEN [disk EXCEPT ![b] = data[h]] ELSE disk
  BY <1>2, <1>3, HeadFacts, Zenon
<1>5. Held' = Held
  BY <1>1, <1>2, SameHeld, Zenon
<1>6. Bad' = Bad
  BY <1>2, Zenon DEF Bad
<1>7. CASE h \notin dirty
  <2>1. disk' = disk
    BY <1>4, <1>7, Zenon
  <2> QED
    BY <1>2, <1>5, <2>1, SameBlocks, Zenon DEF seen
<1>8. CASE h \in dirty
  <2>1. h \in valid /\ Current(b) = data[h]
    BY <1>1, <1>4, <1>8, Zenon DEF Types, Contents
  <2>2. ASSUME NEW c \in Blocks PROVE Current(c)' = Current(c)
    <3>1. CASE \E j \in valid : blockno[j] = c
      <4>1. {j \in Bufs : blockno'[j] = c /\ j \in valid'} = {j \in Bufs : blockno[j] = c /\ j \in valid}
        BY <1>2, Zenon
      <4>2. {j \in Bufs : blockno[j] = c /\ j \in valid} # {}
        BY <3>1, Zenon DEF Types
      <4> QED
        <5> DEFINE k == CHOOSE k \in {j \in Bufs : blockno[j] = c /\ j \in valid} : TRUE
        <5>1. Current(c)' = data'[k] /\ Current(c) = data[k]
          BY <4>1, <4>2, Zenon DEF Current
        <5> QED
          BY <1>2, <5>1, Zenon
    <3>2. CASE \A j \in valid : blockno[j] # c
      <4>1. disk'[c] = disk[c]
        BY <1>4, <2>1, <3>2, Zenon DEF Types
      <4> QED
        BY <1>1, <1>2, <3>2, <4>1, Zenon DEF Contents
    <3> QED
      BY <3>1, <3>2, Zenon
  <2>3. Mem' = Mem /\ Mem[b] = data[h]
    BY <1>4, <2>1, <2>2, Zenon DEF Mem
  <2>4. BD!Sync(b)
    BY <1>4, <1>5, <1>6, <1>8, <2>3, Zenon DEF BD!Sync
  <2> QED
    BY <1>4, <2>4, Zenon DEF BD!Next
<1> QED
  BY <1>7, <1>8, Zenon

\* ideintr: the buffer gets what the disk has, or, if the read failed, keeps what it had.
LEMMA IntrMaps ==
  ASSUME BufConstants, IInv, IInv', ideintr, Served(Head(idequeue)), valid' = valid \cup {Head(idequeue)}
  PROVE  BD!Next \/ UNCHANGED seen
<1> USE DEF IInv
<1>0. PICK h \in Bufs, b \in Blocks : h = Head(idequeue) /\ blockno[h] = b /\ ~Done(h)
  BY HeadFacts, Zenon DEF ideintr
<1>1. HeldExact /\ HeldExact' /\ Contents /\ Contents'
  BY HeldNow, HeldNext, ContentsNow, ContentsNext, Zenon
<1>2. UNCHANGED <<blockno, disk, buf>> /\ pc' = Wake(h) /\ Served(h) /\ valid' = valid \cup {h}
  BY <1>0, Zenon DEF ideintr, bcache
<1>3. Held' = Held
  <2>1. \A q \in Procs : pc'[q] \in Holding <=> pc[q] \in Holding
    BY <1>2, Zenon DEF Wake, Holding
  <2> QED
    BY <1>1, <1>2, <2>1, SameHeld, Zenon
<1>4. CASE h \in dirty
  <2>1. h \in valid /\ valid' = valid /\ data' = data /\ failed' = failed
    <3>1. h \in valid
      BY <1>4, Zenon DEF Types
    <3>2. data' = data /\ failed' = failed
      BY <1>2, <1>4, Zenon DEF Served
    <3> QED
      BY <1>2, <3>1, <3>2, Zenon
  <2> QED
    BY <1>2, <1>3, <2>1, SameBlocks, Zenon DEF seen
<1>5. CASE h \notin dirty
  <2>1. h \notin valid /\ \A j \in valid : blockno[j] # b
    <3>1. h \notin valid
      BY <1>0, <1>5, Zenon DEF Done
    <3>2. \A j \in valid : j \in Bufs /\ j # h
      BY <3>1, Zenon DEF Types
    <3> QED
      BY <1>0, <3>1, <3>2, OneBuffer, Zenon
  <2>2. Current(b) = disk[b] /\ Current(b)' = data'[h]
    <3>1. Current(b) = disk[b]
      BY <1>0, <1>1, <2>1, Zenon DEF Contents
    <3>2. Current(b)' = data'[h]
      BY <1>0, <1>1, <1>2, Zenon DEF Contents
    <3> QED
      BY <3>1, <3>2, Zenon
  <2>3. \A j \in Bufs : j # h => data'[j] = data[j]
    <3>1. CASE data' = data
      BY <3>1, Zenon
    <3>2. CASE data' = [data EXCEPT ![h] = disk[blockno[h]]]
      BY <3>2, Zenon DEF Types
    <3> QED
      BY <1>2, <1>5, <3>1, <3>2, Zenon DEF Served
  <2>4. ASSUME NEW c \in Blocks, c # b PROVE Current(c)' = Current(c)
    <3>1. {j \in Bufs : blockno'[j] = c /\ j \in valid'} = {j \in Bufs : blockno[j] = c /\ j \in valid}
      <4>1. \A j \in Bufs : blockno'[j] = c /\ j \in valid' <=> blockno[j] = c /\ j \in valid
        BY <1>0, <1>2, <2>4, Zenon
      <4> QED
        BY <4>1, Zenon
    <3>2. CASE {j \in Bufs : blockno[j] = c /\ j \in valid} = {}
      BY <1>2, <3>1, <3>2, Zenon DEF Current
    <3>3. CASE {j \in Bufs : blockno[j] = c /\ j \in valid} # {}
      <4> DEFINE k == CHOOSE k \in {j \in Bufs : blockno[j] = c /\ j \in valid} : TRUE
      <4>1. k \in Bufs /\ k \in valid
        BY <3>3, Zenon
      <4>2. Current(c)' = data'[k] /\ Current(c) = data[k]
        BY <3>1, <3>3, Zenon DEF Current
      <4> QED
        BY <2>1, <2>3, <4>1, <4>2, Zenon
    <3> QED
      BY <3>2, <3>3, Zenon
  <2>5. CASE data' = [data EXCEPT ![h] = disk[blockno[h]]] /\ failed' = failed
    <3>1. data'[h] = disk[b]
      BY <1>0, <2>5, Zenon DEF Types
    <3>2. Current(b)' = Current(b)
      BY <2>2, <3>1, Zenon
    <3>3. \A c \in Blocks : Current(c)' = Current(c)
      <4> SUFFICES ASSUME NEW c \in Blocks PROVE Current(c)' = Current(c)
        BY Zenon
      <4>1. CASE c = b
        BY <3>2, <4>1, Zenon
      <4> QED
        BY <2>4, <4>1, Zenon
    <3>4. Mem' = Mem /\ Bad' = Bad
      BY <1>2, <2>5, <3>3, Zenon DEF Mem, Bad
    <3> QED
      BY <1>2, <1>3, <3>4, Zenon DEF seen
  <2>6. CASE data' = data /\ failed' = failed \cup {h}
    <3>1. Mem' = [Mem EXCEPT ![b] = data[h]] /\ Mem[b] = disk[b]
      <4>1. ASSUME NEW c \in Blocks PROVE Current(c)' = IF c = b THEN data[h] ELSE Current(c)
        <5>1. CASE c = b
          BY <2>2, <2>6, <5>1, Zenon
        <5> QED
          BY <2>4, <5>1, Zenon
      <4> QED
        BY <1>0, <2>2, <4>1, Zenon DEF Mem
    <3>2. Bad' = Bad \cup {b}
      BY <1>0, <1>2, <2>6, Zenon DEF Bad
    <3>3. data[h] \in Data
      BY Zenon DEF Types
    <3>4. BD!Fail(b)
      BY <1>2, <1>3, <3>1, <3>2, <3>3, Zenon DEF BD!Fail
    <3> QED
      BY <1>0, <3>4, Zenon DEF BD!Next
  <2> QED
    BY <1>2, <1>5, <2>5, <2>6, Zenon DEF Served
<1> QED
  BY <1>4, <1>5, Zenon

\* What the cache over the driver promises to the log and the file system.
ImplementsBlockDevice == BD!Spec

\* bread, bwrite, log_write and brelse over the IDE driver implement a block device: every holder
\* of a block sees the last contents given to it, the disk never gets older ones, and recycling a
\* buffer loses nothing; for any number of processes, buffers and blocks.
THEOREM CacheImplementsBlockDevice ==
  ASSUME BufConstants
  PROVE  Spec => ImplementsBlockDevice
<1>1. Init => BD!Init
  <2> SUFFICES ASSUME Init PROVE BD!Init
    BY Zenon
  <2>1. IInv
    BY InitHolds, Zenon
  <2>2. Contents /\ HeldExact
    BY <2>1, ContentsNow, HeldNow, Zenon DEF IInv
  <2>3. \A b \in Blocks : Current(b) = disk[b]
    BY <2>2, Zenon DEF Init, Contents
  <2>4. Mem = disk /\ disk \in [Blocks -> Data]
    BY <2>1, <2>3, Zenon DEF Mem, IInv, Types
  <2>5. Held = [p \in Procs |-> NoBlock]
    BY <2>2, Zenon DEF Init, Held
  <2>6. Bad = {}
    BY Zenon DEF Init, Bad
  <2> QED
    BY <2>4, <2>5, <2>6, Zenon DEF BD!Init
<1>2. ASSUME IInv, IInv', [Next]_vars PROVE BD!Next \/ UNCHANGED seen
  <2>1. CASE UNCHANGED vars
    <3>1. UNCHANGED <<blockno, data, valid, disk, failed, owner, buf>>
      BY <2>1, Zenon DEF vars, bcache, ide, local
    <3> QED
      BY <3>1, SameBlocks, Zenon DEF seen, Held
  <2>2. CASE Next
    <3>1. panicked = "no" /\ UNCHANGED reserve
      BY <2>2, Zenon DEF Next
    <3>2. CASE diskDone
      BY <1>2, <3>2, DiskMaps, Zenon
    <3>3. CASE ideintr
      BY <1>2, <3>1, <3>3, IntrHolds, IntrMaps, Zenon
    <3>4. ASSUME NEW p \in Procs, Step(p) PROVE BD!Next \/ UNCHANGED seen
      <4>1. ASSUME NEW b \in Blocks, bget(p, b) PROVE BD!Next \/ UNCHANGED seen
        <5>1. ASSUME NEW i \in Bufs, Hit(p, i, b) PROVE UNCHANGED seen
          BY <1>2, <5>1, HitMaps, Zenon
        <5>2. ASSUME NEW i \in Bufs, Recycled(p, i, b) PROVE BD!Next \/ UNCHANGED seen
          BY <1>2, <5>2, RecycledMaps, Zenon
        <5>3. CASE UNCHANGED <<lru, blockno, refcnt, data, valid, dirty, owner, idequeue, cmd, irq, disk, buf, failed>>
          BY <5>3, SameBlocks, Zenon DEF seen, Held
        <5> QED
          BY <1>2, <4>1, <5>1, <5>2, <5>3, BgetCases, Zenon
      <4>2. CASE acquiresleep(p)
        BY <1>2, <3>1, <4>2, AcquireMaps, Zenon
      <4>3. CASE bwrite(p)
        <5>1. Written(p)
          BY <1>2, <3>1, <4>3, BwriteHolds, Zenon
        <5>2. pc' = [pc EXCEPT ![p] = "iderw"]
          <6>1. owner[buf[p]] = p
            BY <1>2, <4>3, HasBuffer, Zenon DEF bwrite, IInv, Owned, Holding
          <6> QED
            BY <4>3, <6>1, Zenon DEF bwrite, Goto
        <5> QED
          BY <1>2, <5>1, <5>2, WriteMaps, Zenon
      <4>4. CASE log_write(p)
        <5>1. Written(p)
          BY <1>2, <3>1, <4>4, LogWriteHolds, Zenon
        <5>2. pc' = [pc EXCEPT ![p] = "have"]
          BY <1>2, <4>4, Zenon DEF log_write, local, IInv, Types
        <5> QED
          BY <1>2, <5>1, <5>2, WriteMaps, Zenon
      <4>5. CASE brelse(p)
        BY <1>2, <3>1, <4>5, BrelseHolds, BrelseMaps, Zenon
      <4>6. CASE bread(p) \/ bput(p) \/ iderw(p) \/ iderwAgain(p)
        BY <1>2, <3>1, <4>6, QuietMaps, Zenon
      <4> QED
        BY <3>4, <4>1, <4>2, <4>3, <4>4, <4>5, <4>6, Zenon DEF Step
    <3> QED
      BY <2>2, <3>2, <3>3, <3>4, Zenon DEF Next
  <2> QED
    BY <1>2, <2>1, <2>2, Zenon
<1>3. IInv /\ IInv' /\ [Next]_vars => [BD!Next]_seen
  BY <1>2, Zenon
<1>4. IInv /\ IInv' /\ [Next]_vars => [BD!Next]_<<Mem, disk, Held, Bad>>
  BY <1>3, Zenon DEF seen
<1> QED
  BY <1>1, <1>4, Invariant, PTL DEF Spec, ImplementsBlockDevice, BD!Spec
=============================================================================
