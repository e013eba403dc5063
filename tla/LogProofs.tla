----------------------------- MODULE LogProofs ------------------------------
(***************************************************************************)
(* The log, for any number of processes, blocks and crashes: the inductive *)
(* invariant, by which the log has room for what begin_op admits, and that *)
(* it implements the atomic disk through commit, crash and recovery.       *)
(***************************************************************************)
EXTENDS Log, FiniteSetTheorems, TLAPS

\* A call leaves unused as many of its MAXOPBLOCKS as the log on disk has fewer data
\* blocks than LOGSIZE.
LogConstants == MaxWrites <= MAXOPBLOCKS /\ LOGSIZE - LogData <= MAXOPBLOCKS - MaxWrites

Committing == {"write_log", "write_head", "install", "clear", "committed"}
Labels == {"idle", "begin", "asleep", "op", "logging"} \cup Committing

\* The blocks of a header.
In(h) == {h[i] : i \in 1..Len(h)}
\* A header that fits the log, without duplicates.
Header(h) ==
  /\ h \in Seq(Blocks) /\ Len(h) <= LogData
  /\ \A i, j \in 1..Len(h) : h[i] = h[j] => i = j

Types ==
  /\ home \in [Blocks -> 0..MaxData] /\ logBlk \in [1..LogData -> 0..MaxData]
  /\ buf \in [Blocks -> 0..MaxData \cup {Absent}] /\ dirty \subseteq Blocks
  /\ Header(head) /\ Header(lh)
  /\ committing \in BOOLEAN
  /\ pc \in [Ops -> Labels] /\ tail \in [Ops -> Nat \ {0}]
  /\ wrote \in [Ops -> SUBSET Blocks] /\ cur \in [Ops -> SUBSET Blocks]
  /\ boot \in {"read_head", "install", "up"} /\ btail \in Nat \ {0}

\* Who is between begin_op and end_op, who commits, and that nobody else runs meanwhile.
Control ==
  /\ IsFiniteSet(InOp) /\ outstanding = Cardinality(InOp)
  /\ committing => InOp = {}
  /\ \A o \in Ops : pc[o] \in Committing =>
       committing /\ \A q \in Ops : pc[q] \in Committing => q = o
  /\ boot # "up" => \A o \in Ops : pc[o] = "idle"

\* A call in log_write has the buffer of one block locked.
Locks ==
  /\ \A o \in Ops : pc[o] # "logging" => cur[o] = {}
  /\ \A o \in Ops : pc[o] = "logging" => \E b \in wrote[o] : cur[o] = {b} /\ buf[b] # Absent
  /\ \A o, q \in Ops : \A b \in cur[o] : b \in cur[q] => o = q

\* What the calls in progress may still add to the log, as a set of that many pairs.
Left == {x \in InOp \X (1..MAXOPBLOCKS) : x[2] > Cardinality(wrote[x[1]] \cap In(lh))}
Budget ==
  /\ \A o \in InOp : /\ IsFiniteSet(wrote[o]) /\ Cardinality(wrote[o]) <= MaxWrites
                     /\ wrote[o] \subseteq In(lh) \cup cur[o]
  /\ InOp # {} => Len(lh) + Cardinality(Left) <= LOGSIZE

\* Where the disk, the log and the cache may differ.
Installing == \E o \in Ops : pc[o] \in {"install", "clear"}
Cached ==
  boot = "up" =>
    /\ \A b \in Blocks : bread(b) = home[b] \/ b \in In(lh) \/ \E o \in Ops : b \in cur[o]
    /\ \A b \in dirty : b \in In(lh) /\ buf[b] # Absent
    /\ head = IF Installing THEN lh ELSE <<>>
    /\ ~Installing => In(lh) \subseteq dirty
    /\ InOp = {} /\ ~committing => lh = <<>>

\* How far commit has come.
Phases ==
  \A o \in Ops :
    /\ pc[o] = "write_log" =>
         \A i \in 1..Len(lh) : i < tail[o] => logBlk[i] = bread(lh[i])
    /\ pc[o] \in {"write_head", "install", "clear"} =>
         \A i \in 1..Len(lh) : logBlk[i] = bread(lh[i])
    /\ pc[o] \in {"install", "clear"} =>
         \A i \in 1..Len(lh) :
           IF i < tail[o] \/ pc[o] = "clear" THEN home[lh[i]] = logBlk[i] /\ lh[i] \notin dirty
           ELSE lh[i] \in dirty
    /\ pc[o] = "committed" => lh = <<>>

\* How far recovery has come.
Recovery ==
  /\ boot # "up" => dirty = {} /\ \A b \in Blocks : buf[b] \in {Absent, home[b]}
  /\ boot = "read_head" => lh = <<>> /\ btail = 1
  /\ boot = "install" =>
       lh = head /\ \A i \in 1..Len(lh) : i < btail => home[lh[i]] = logBlk[i]

IInv == Types /\ Control /\ Locks /\ Budget /\ Cached /\ Phases /\ Recovery

-----------------------------------------------------------------------------
\* The entries of the header are blocks, and have a block of the log.
LEMMA Entries ==
  ASSUME NEW h, Header(h)
  PROVE  /\ Len(h) \in Nat /\ In(h) \subseteq Blocks
         /\ \A i \in 1..Len(h) : h[i] \in Blocks /\ h[i] \in In(h) /\ i \in 1..LogData
BY LogAssumption DEF Header, In

\* A block has one place in the header.
LEMMA Index ==
  ASSUME NEW h, Header(h), NEW i \in 1..Len(h)
  PROVE  (CHOOSE j \in 1..Len(h) : h[j] = h[i]) = i
BY Zenon DEF Header

\* Finitely many calls have finitely many blocks left, at most MAXOPBLOCKS each.
LEMMA PairsFinite ==
  ASSUME NEW A, IsFiniteSet(A), NEW T \in SUBSET (A \X (1..MAXOPBLOCKS))
  PROVE  /\ IsFiniteSet(T) /\ Cardinality(T) \in Nat
         /\ Cardinality(A) \in Nat /\ Cardinality(T) <= Cardinality(A) * MAXOPBLOCKS
<1>1. IsFiniteSet(1..MAXOPBLOCKS) /\ Cardinality(1..MAXOPBLOCKS) = MAXOPBLOCKS
  BY FS_Interval, LogAssumption
<1>2. /\ IsFiniteSet(A \X (1..MAXOPBLOCKS))
      /\ Cardinality(A \X (1..MAXOPBLOCKS)) = Cardinality(A) * MAXOPBLOCKS
  BY <1>1, FS_Product, Zenon
<1> QED
  BY <1>2, FS_Subset, FS_CardinalityType, Zenon

\* The calls that may still log, and the budget left to them, are finite.
LEMMA LeftFinite ==
  ASSUME Control
  PROVE  IsFiniteSet(Left) /\ Cardinality(Left) \in Nat /\ outstanding \in Nat
<1>1. Left \in SUBSET (InOp \X (1..MAXOPBLOCKS))
  BY Zenon DEF Left
<1> QED
  BY <1>1, PairsFinite, Zenon DEF Control

\* A set that holds <<o, k>> for every k in K holds the whole product.
LEMMA Row ==
  ASSUME NEW S, NEW o, NEW K, \A k \in K : <<o, k>> \in S
  PROVE  ({o} \X K) \in SUBSET S
OBVIOUS

\* The log has room for the blocks that call o has not yet used of its MAXOPBLOCKS.
LEMMA Room ==
  ASSUME LogConstants, Header(lh), Control, Budget, NEW o \in InOp,
         NEW c, c = Cardinality(wrote[o] \cap In(lh))
  PROVE  /\ IsFiniteSet(wrote[o] \cap In(lh)) /\ c \in Nat /\ c <= MaxWrites
         /\ Len(lh) + (MAXOPBLOCKS - c) <= LOGSIZE
<1> DEFINE own == {o} \X (c + 1..MAXOPBLOCKS)
<1>1. IsFiniteSet(wrote[o] \cap In(lh)) /\ c \in Nat /\ c <= MaxWrites
  <2>1. IsFiniteSet(wrote[o]) /\ Cardinality(wrote[o]) <= MaxWrites
    BY Zenon DEF Budget
  <2>2. (wrote[o] \cap In(lh)) \in SUBSET wrote[o]
    BY Zenon
  <2>3. IsFiniteSet(wrote[o] \cap In(lh)) /\ c <= Cardinality(wrote[o])
    BY <2>1, <2>2, FS_Subset, Zenon
  <2> QED
    BY <2>1, <2>3, FS_CardinalityType, LogAssumption
<1>2. own \in SUBSET Left
  <2> DEFINE K == c + 1..MAXOPBLOCKS
  <2>1. ASSUME NEW k \in K PROVE <<o, k>> \in Left
    <3>1. k \in 1..MAXOPBLOCKS /\ k > c
      BY <1>1, LogAssumption
    <3> QED
      BY <3>1, Zenon DEF Left
  <2> HIDE DEF K
  <2>2. ({o} \X K) \in SUBSET Left
    BY ONLY <2>1, Row, Zenon
  <2> QED
    BY ONLY <2>2, Zenon DEF K
<1>3. IsFiniteSet(c + 1..MAXOPBLOCKS) /\ Cardinality(c + 1..MAXOPBLOCKS) = MAXOPBLOCKS - c
  <2>1. c + 1 \in Int /\ MAXOPBLOCKS \in Int /\ c <= MAXOPBLOCKS
    BY <1>1, LogAssumption DEF LogConstants
  <2>2. /\ IsFiniteSet(c + 1..MAXOPBLOCKS)
        /\ Cardinality(c + 1..MAXOPBLOCKS)
             = IF c + 1 > MAXOPBLOCKS THEN 0 ELSE MAXOPBLOCKS - (c + 1) + 1
    BY <2>1, FS_Interval, Zenon
  <2> QED
    BY <1>1, <2>1, <2>2
<1>4. Cardinality(own) = MAXOPBLOCKS - c
  <2>1. IsFiniteSet({o}) /\ Cardinality({o}) = 1
    BY FS_Singleton, Zenon
  <2>2. \A S : IsFiniteSet(S) => Cardinality({o} \X S) = 1 * Cardinality(S)
    BY <2>1, FS_Product, Zenon
  <2>3. Cardinality(own) = 1 * Cardinality(c + 1..MAXOPBLOCKS)
    BY <1>3, <2>2, Zenon
  <2> QED
    BY <1>1, <1>3, <2>3, LogAssumption
<1>5. Cardinality(own) <= Cardinality(Left)
  BY <1>2, LeftFinite, FS_Subset, Zenon
<1> QED
  BY <1>1, <1>4, <1>5, LeftFinite, LogAssumption, Entries DEF Budget

\* Fewer calls, or more blocks written by a call, leave no more.
LEMMA LeftShrinks ==
  ASSUME Control, Budget, InOp' \subseteq InOp, lh' = lh,
         \A o \in InOp' : wrote[o] \subseteq wrote'[o] /\ IsFiniteSet(wrote'[o]),
         Header(lh)
  PROVE  InOp' # {} => Len(lh') + Cardinality(Left') <= LOGSIZE
<1>1. ASSUME NEW o \in InOp'
      PROVE  /\ Cardinality(wrote[o] \cap In(lh)) \in Nat
             /\ Cardinality(wrote'[o] \cap In(lh)) \in Nat
             /\ Cardinality(wrote[o] \cap In(lh)) <= Cardinality(wrote'[o] \cap In(lh))
  <2>1. (wrote'[o] \cap In(lh)) \in SUBSET wrote'[o]
        /\ (wrote[o] \cap In(lh)) \in SUBSET (wrote'[o] \cap In(lh))
    BY <1>1, Zenon
  <2>2. IsFiniteSet(wrote'[o] \cap In(lh))
    BY <1>1, <2>1, FS_Subset, Zenon
  <2> QED
    BY <2>1, <2>2, FS_Subset, FS_CardinalityType, Zenon
<1>2. Left' \in SUBSET Left
  <2>1. In(lh)' = In(lh)
    BY Zenon DEF In
  <2> QED
    BY <1>1, <2>1, LogAssumption DEF Left
<1>3. Cardinality(Left') \in Nat /\ Cardinality(Left') <= Cardinality(Left)
  BY <1>2, LeftFinite, FS_Subset, FS_CardinalityType, Zenon
<1> QED
  BY <1>3, LeftFinite, LogAssumption, Entries DEF Budget

-----------------------------------------------------------------------------
\* Where a process is that no transaction knows of.
Out == {"idle", "begin", "asleep"}

\* initlog finds an empty log on a new disk.
LEMMA InitHolds ==
  ASSUME Init PROVE IInv /\ View = Durable /\ InOp = {}
<1>1. InOp = {} /\ In(<<>>) = {} /\ Header(<<>>)
  BY LogAssumption DEF Init, InOp, In, Header
<1>2. Types
  <2>1. committing \in BOOLEAN /\ pc \in [Ops -> Labels] /\ Header(head) /\ Header(lh)
    BY <1>1, Zenon DEF Init, Labels
  <2> QED
    BY <2>1, LogAssumption DEF Init, Types
<1>3. Control
  BY <1>1, FS_EmptySet, Zenon DEF Init, Control, Committing
<1>4. Locks /\ Budget /\ Phases
  BY <1>1, Zenon DEF Init, Locks, Budget, Phases
<1>5. Cached /\ Recovery
  BY <1>1, Zenon DEF Init, Cached, Recovery
<1>6. View = Durable
  BY Zenon DEF Init, View
<1> QED
  BY <1>1, <1>2, <1>3, <1>4, <1>5, <1>6, Zenon DEF IInv

\* A call begins, or waits in begin_op: only the labels of processes outside change.
LEMMA OutsideHolds ==
  ASSUME IInv, boot = "up" \/ pc' = pc, pc' \in [Ops -> Labels],
         UNCHANGED <<disk, buf, dirty, log, wrote, cur, tail, boot, btail>>,
         \A o \in Ops : pc'[o] = pc[o] \/ (pc[o] \in Out /\ pc'[o] \in Out)
  PROVE  IInv' /\ UNCHANGED <<View, Durable, InOp>>
<1> USE DEF IInv
<1>1. /\ InOp' = InOp /\ Durable' = Durable /\ View' = View
      /\ \A o \in Ops : pc'[o] \in Committing \/ pc[o] \in Committing => pc'[o] = pc[o]
  BY Zenon DEF InOp, Out, Committing, Durable, View, bread, disk
<1>2. Types'
  BY Zenon DEF Types, Header, disk, log
<1>3. Control'
  BY <1>1, Zenon DEF Control, log
<1>4. Locks' /\ Budget'
  BY <1>1 DEF Locks, Budget, Left, In, log, Out
<1>5. Cached' /\ Installing' = Installing
  BY <1>1 DEF Cached, Installing, In, bread, disk, log, Committing
<1>6. Phases' /\ Recovery'
  BY <1>1 DEF Phases, Recovery, bread, disk, log, Committing
<1> QED
  BY <1>1, <1>2, <1>3, <1>4, <1>5, <1>6, Zenon

\* begin_op joins the transaction: MAXOPBLOCKS fit for it and for the calls before it.
LEMMA BeginHolds ==
  ASSUME IInv, NEW o \in Ops, begin_op(o), ~MustWait
  PROVE  IInv' /\ AD!Begin(o)
<1> USE DEF IInv
<1>1. /\ pc[o] = "begin" /\ boot = "up" /\ ~committing
      /\ Len(lh) + (outstanding + 1) * MAXOPBLOCKS <= LOGSIZE
      /\ outstanding' = outstanding + 1 /\ wrote' = [wrote EXCEPT ![o] = {}]
      /\ pc' = [pc EXCEPT ![o] = "op"]
      /\ UNCHANGED <<disk, buf, dirty, lh, committing, cur, tail, boot, btail>>
  <2>1. Len(lh) \in Nat /\ outstanding \in Nat
    BY Entries, LeftFinite, Zenon DEF Types
  <2> QED
    BY <2>1, LogAssumption DEF begin_op, MustWait, Goto, Control
<1>2. /\ pc' \in [Ops -> Labels] /\ pc'[o] = "op" /\ wrote'[o] = {}
      /\ \A q \in Ops : q # o => pc'[q] = pc[q] /\ wrote'[q] = wrote[q]
  BY <1>1, Zenon DEF Types, Labels
<1>3. o \notin InOp /\ InOp' = InOp \cup {o} /\ Durable' = Durable /\ View' = View
  BY <1>1, <1>2, Zenon DEF InOp, Durable, View, bread, disk
<1>4. Types'
  BY <1>1, <1>2, Zenon DEF Types, disk
<1>5. Control'
  <2>1. IsFiniteSet(InOp') /\ outstanding' = Cardinality(InOp')
    BY <1>1, <1>3, FS_AddElement, Zenon DEF Control
  <2> QED
    BY <1>1, <1>2, <2>1, Zenon DEF Control, Committing
<1>6. Locks'
  BY <1>1, <1>2 DEF Locks
<1>7. Budget'
  <2>1. \A q \in InOp' : /\ IsFiniteSet(wrote'[q]) /\ Cardinality(wrote'[q]) <= MaxWrites
                         /\ wrote'[q] \subseteq In(lh') \cup cur'[q]
    <3> SUFFICES ASSUME NEW q \in InOp'
                 PROVE  /\ IsFiniteSet(wrote'[q]) /\ Cardinality(wrote'[q]) <= MaxWrites
                        /\ wrote'[q] \subseteq In(lh') \cup cur'[q]
      BY Zenon
    <3>1. CASE q = o
      BY <1>2, <3>1, FS_EmptySet, LogAssumption
    <3>2. CASE q # o
      <4>1. q \in InOp /\ q \in Ops
        BY <1>3, <3>2, Zenon DEF InOp
      <4> QED
        BY <1>1, <1>2, <3>2, <4>1, Zenon DEF Budget
    <3> QED
      BY <3>1, <3>2, Zenon
  <2>4. Left' \in SUBSET (InOp' \X (1..MAXOPBLOCKS))
    BY Zenon DEF Left
  <2>2. Cardinality(Left') <= outstanding' * MAXOPBLOCKS /\ Cardinality(Left') \in Nat
    BY <1>5, <2>4, PairsFinite, Zenon DEF Control
  <2>3. Len(lh) \in Nat
    BY Entries, Zenon DEF Types
  <2> QED
    BY <1>1, <2>1, <2>2, <2>3, LogAssumption DEF Budget
<1>8. Cached' /\ Installing' = Installing
  BY <1>1, <1>2, <1>3 DEF Cached, Installing, In, bread, disk
<1>9. Phases' /\ Recovery'
  BY <1>1, <1>2 DEF Phases, Recovery, bread, disk
<1> QED
  BY <1>3, <1>4, <1>5, <1>6, <1>7, <1>8, <1>9, Zenon DEF AD!Begin

\* A call modifies the buffer of a block and enters log_write.
LEMMA ModifyHolds ==
  ASSUME IInv, NEW o \in Ops, NEW b \in Blocks, modify(o, b), ~panicked'
  PROVE  IInv' /\ AD!Write(o, b)
<1> USE DEF IInv
<1> DEFINE v == bread(b) + 1
<1>1. /\ pc[o] = "op" /\ \A q \in Ops : b \notin cur[q]
      /\ Cardinality(wrote[o] \cup {b}) <= MaxWrites /\ bread(b) < MaxData
      /\ buf' = [buf EXCEPT ![b] = v] /\ cur' = [cur EXCEPT ![o] = {b}]
      /\ wrote' = [wrote EXCEPT ![o] = @ \cup {b}] /\ pc' = [pc EXCEPT ![o] = "logging"]
      /\ UNCHANGED <<disk, dirty, log, tail, boot, btail>>
  BY Zenon DEF modify, Goto
<1>2. /\ o \in InOp /\ boot = "up" /\ ~committing /\ ~Installing
      /\ \A q \in Ops : pc[q] \notin Committing
  BY <1>1, Zenon DEF InOp, Control, Installing, Committing
<1>3. v \in 0..MaxData /\ v # Absent
  BY <1>1, LogAssumption DEF bread, Types
<1>4. /\ pc' \in [Ops -> Labels] /\ pc'[o] = "logging" /\ cur'[o] = {b}
      /\ wrote'[o] = wrote[o] \cup {b}
      /\ \A q \in Ops : q # o => pc'[q] = pc[q] /\ wrote'[q] = wrote[q] /\ cur'[q] = cur[q]
  BY <1>1, Zenon DEF Types, Labels
<1>5. buf'[b] = v /\ \A d \in Blocks : d # b => buf'[d] = buf[d]
  BY <1>1, Zenon DEF Types
<1> HIDE DEF v
<1>6. bread(b)' = v /\ \A d \in Blocks : d # b => bread(d)' = bread(d)
  BY <1>1, <1>3, <1>5, Zenon DEF bread, disk
<1>7. InOp' = InOp /\ Durable' = Durable /\ View' = [View EXCEPT ![b] = v]
  BY <1>1, <1>2, <1>4, <1>6, Zenon DEF InOp, Durable, View, disk
<1>8. Types'
  <2>1. /\ buf' \in [Blocks -> 0..MaxData \cup {Absent}]
        /\ wrote' \in [Ops -> SUBSET Blocks] /\ cur' \in [Ops -> SUBSET Blocks]
    BY <1>1, <1>3, Zenon DEF Types
  <2> QED
    BY <1>1, <1>4, <2>1, Zenon DEF Types, disk, log
<1>9. Control' /\ ~Installing'
  BY <1>1, <1>2, <1>4, <1>7, Zenon DEF Control, Committing, log, Installing
<1>10. Locks'
  <2>1. ASSUME NEW q \in Ops, pc'[q] = "logging"
        PROVE  \E d \in wrote'[q] : cur'[q] = {d} /\ buf'[d] # Absent
    BY <1>1, <1>3, <1>4, <1>5, <2>1, ZenonT(40) DEF Locks, Types
  <2> QED
    BY <1>1, <1>4, <2>1 DEF Locks
<1>11. Budget'
  <2>1. \A q \in InOp : /\ IsFiniteSet(wrote'[q]) /\ Cardinality(wrote'[q]) <= MaxWrites
                        /\ wrote'[q] \subseteq In(lh) \cup cur'[q]
                        /\ wrote[q] \subseteq wrote'[q]
    <3> SUFFICES ASSUME NEW q \in InOp
                 PROVE  /\ IsFiniteSet(wrote'[q]) /\ Cardinality(wrote'[q]) <= MaxWrites
                        /\ wrote'[q] \subseteq In(lh) \cup cur'[q]
                        /\ wrote[q] \subseteq wrote'[q]
      BY Zenon
    <3>1. IsFiniteSet(wrote[o]) /\ wrote[o] \subseteq In(lh)
      BY <1>1, <1>2, Zenon DEF Budget, Locks
    <3>4. IsFiniteSet(wrote[o] \cup {b})
      BY <3>1, FS_AddElement, Zenon
    <3>2. CASE q = o
      BY <1>1, <1>4, <3>1, <3>2, <3>4, Zenon
    <3>3. CASE q # o
      BY <1>4, <3>3, Zenon DEF Budget, InOp
    <3> QED
      BY <3>2, <3>3, Zenon
  <2>2. InOp' # {} => Len(lh') + Cardinality(Left') <= LOGSIZE
    BY <1>1, <1>7, <2>1, LeftShrinks, Zenon DEF Types, log
  <2> QED
    BY <1>1, <1>7, <2>1, <2>2, Zenon DEF Budget, log
<1>12. Cached'
  <2>3. b \in cur'[o] /\ \A q \in Ops : cur[q] \subseteq cur'[q]
    BY <1>1, <1>4, Zenon DEF Locks
  <2>1. \A d \in Blocks : bread(d)' = home[d] \/ d \in In(lh) \/ \E q \in Ops : d \in cur'[q]
    BY <1>2, <1>6, <2>3, Zenon DEF Cached
  <2>2. \A d \in dirty : d \in In(lh) /\ buf'[d] # Absent
    BY <1>2, <1>3, <1>5, Zenon DEF Cached, Types
  <2> QED
    BY <1>1, <1>2, <1>7, <1>9, <2>1, <2>2, Zenon DEF Cached, disk, log
<1>13. Phases' /\ Recovery'
  BY <1>1, <1>2, <1>4 DEF Phases, Recovery, Committing
<1> QED
  BY <1>2, <1>3, <1>7, <1>8, <1>9, <1>10, <1>11, <1>12, <1>13, Zenon DEF AD!Write

\* Appending to the header.
LEMMA Appended ==
  ASSUME NEW h, Header(h), NEW b \in Blocks, b \notin In(h), Len(h) < LogData
  PROVE  /\ Header(Append(h, b)) /\ In(Append(h, b)) = In(h) \cup {b}
         /\ Len(Append(h, b)) = Len(h) + 1
<1>1. h \in Seq(Blocks) /\ Len(h) \in Nat
  BY Entries, Zenon DEF Header
<1>2. /\ Append(h, b) \in Seq(Blocks) /\ Len(Append(h, b)) = Len(h) + 1
      /\ \A i \in 1..Len(h) : Append(h, b)[i] = h[i]
      /\ Append(h, b)[Len(h) + 1] = b
  BY <1>1
<1>3. \A i \in 1..Len(h) + 1 : i \in 1..Len(h) \/ i = Len(h) + 1
  BY <1>1
<1>4. In(Append(h, b)) = In(h) \cup {b}
  BY <1>1, <1>2, <1>3 DEF In
<1>5. \A i, j \in 1..Len(h) + 1 : Append(h, b)[i] = Append(h, b)[j] => i = j
  BY <1>2, <1>3, Zenon DEF Header, In
<1> QED
  BY <1>1, <1>2, <1>4, <1>5, LogAssumption DEF Header

\* log_write with log.lock: the block is absorbed or appended, and pinned.
LEMMA LogWriteHolds ==
  ASSUME LogConstants, IInv, NEW o \in Ops, log_write(o)
  PROVE  IInv' /\ UNCHANGED <<View, Durable, InOp>>
<1> USE DEF IInv
<1>1. PICK b \in wrote[o] : cur[o] = {b} /\ buf[b] # Absent
  BY Zenon DEF log_write, Locks
<1>2. /\ pc[o] = "logging" /\ b \in Blocks
      /\ lh' = IF b \in In(lh) THEN lh ELSE Append(lh, b)
      /\ dirty' = dirty \cup {b} /\ cur' = [cur EXCEPT ![o] = {}]
      /\ pc' = [pc EXCEPT ![o] = "op"]
      /\ UNCHANGED <<disk, buf, outstanding, committing, wrote, tail, boot, btail>>
  <2>1. (CHOOSE x \in cur[o] : TRUE) = b
    BY <1>1, Zenon
  <2> QED
    BY <1>1, <2>1, Zenon DEF log_write, Pin, Goto, In, Types
<1>3. /\ o \in InOp /\ boot = "up" /\ ~committing /\ ~Installing
      /\ \A q \in Ops : pc[q] \notin Committing
  BY <1>2, Zenon DEF InOp, Control, Installing, Committing
<1>4. /\ pc' \in [Ops -> Labels] /\ pc'[o] = "op" /\ cur'[o] = {}
      /\ \A q \in Ops : q # o => pc'[q] = pc[q] /\ cur'[q] = cur[q]
  BY <1>2, Zenon DEF Types, Labels
<1>5. InOp' = InOp /\ Durable' = Durable /\ View' = View
  BY <1>2, <1>4 DEF InOp, Durable, View, bread, disk
<1>6. \A q \in InOp : q # o => b \notin wrote[q] \/ b \in In(lh)
  BY <1>1, Zenon DEF Budget, Locks, InOp
<1>7. /\ Header(lh') /\ In(lh') = In(lh) \cup {b}
      /\ Len(lh') + Cardinality(Left') <= LOGSIZE
  <2>1. CASE b \in In(lh)
    <3>1. Left' = Left
      BY <1>2, <1>5, <2>1, Zenon DEF Left
    <3> QED
      BY <1>2, <1>3, <2>1, <3>1, Zenon DEF Budget, Types
  <2>2. CASE b \notin In(lh)
    <3> DEFINE c == Cardinality(wrote[o] \cap In(lh))
    <3>1. /\ IsFiniteSet(wrote[o] \cap In(lh)) /\ c \in Nat
          /\ Len(lh) + (MAXOPBLOCKS - c) <= LOGSIZE
      BY <1>3, Room, Zenon DEF Types
    <3>2. /\ (wrote[o] \cap In(lh)) \cup {b} \in SUBSET wrote[o]
          /\ Cardinality((wrote[o] \cap In(lh)) \cup {b}) = c + 1
      BY <1>1, <2>2, <3>1, FS_AddElement, Zenon
    <3>3. c + 1 <= Cardinality(wrote[o]) /\ Cardinality(wrote[o]) \in Nat
          /\ Cardinality(wrote[o]) <= MaxWrites
      BY <1>3, <3>2, FS_Subset, FS_CardinalityType DEF Budget
    <3>4. Len(lh) \in Nat /\ c + 1 <= MAXOPBLOCKS /\ Len(lh) < LogData
      <4>1. Len(lh) \in Nat
        BY Entries, Zenon DEF Types
      <4> HIDE DEF c, IInv
      <4> QED
        BY <3>1, <3>3, <4>1, LogAssumption DEF LogConstants
    <3>5. Header(lh') /\ In(lh') = In(lh) \cup {b} /\ Len(lh') = Len(lh) + 1
      BY <1>2, <2>2, <3>4, Appended, Zenon DEF Types
    <3>6. \A q \in InOp : wrote[q] \cap In(lh') =
            IF q = o THEN (wrote[o] \cap In(lh)) \cup {b} ELSE wrote[q] \cap In(lh)
      BY <1>1, <1>6, <2>2, <3>5, Zenon
    <3>7. \A q \in InOp : Cardinality(wrote[q] \cap In(lh')) =
            IF q = o THEN c + 1 ELSE Cardinality(wrote[q] \cap In(lh))
      BY <3>2, <3>6, Zenon
    <3>8. <<o, c + 1>> \in Left /\ Left' \in SUBSET (Left \ {<<o, c + 1>>})
      <4>1. \A q \in InOp, k \in 1..MAXOPBLOCKS :
              <<q, k>> \in Left <=> k > Cardinality(wrote[q] \cap In(lh))
        BY Zenon DEF Left
      <4>2. /\ Left' \subseteq InOp \X (1..MAXOPBLOCKS)
            /\ \A q \in InOp, k \in 1..MAXOPBLOCKS :
                 <<q, k>> \in Left' => k > Cardinality(wrote[q] \cap In(lh'))
        BY <1>2, <1>5, Zenon DEF Left
      <4> HIDE DEF c
      <4>3. c + 1 \in 1..MAXOPBLOCKS /\ c + 1 > c
        BY <3>1, <3>4, LogAssumption
      <4>4. ASSUME NEW q \in InOp, NEW k \in 1..MAXOPBLOCKS, <<q, k>> \in Left'
            PROVE  <<q, k>> \in Left /\ <<q, k>> # <<o, c + 1>>
        <5>1. CASE q = o
          <6>2. k > Cardinality(wrote[o] \cap In(lh'))
            BY <4>2, <4>4, <5>1, Zenon
          <6>3. Cardinality(wrote[o] \cap In(lh')) = c + 1
            BY <1>3, <3>7, Zenon
          <6>1. k > c + 1 /\ k > c
            BY <3>1, <6>2, <6>3
          <6> QED
            BY <4>1, <5>1, <6>1 DEF c
        <5>2. CASE q # o
          BY <3>7, <4>1, <4>2, <4>4, <5>2, Zenon
        <5> QED
          BY <5>1, <5>2, Zenon
      <4>5. <<o, c + 1>> \in Left
        BY <1>3, <4>1, <4>3, Zenon DEF c
      <4> QED
        BY <4>2, <4>4, <4>5
    <3>9. Cardinality(Left') <= Cardinality(Left) - 1 /\ Cardinality(Left') \in Nat
      BY <3>8, LeftFinite, FS_RemoveElement, FS_Subset, FS_CardinalityType
    <3> QED
      BY <1>3, <3>4, <3>5, <3>9, LeftFinite, LogAssumption DEF Budget
  <2> QED
    BY <2>1, <2>2, Zenon
<1>8. Types'
  <2>1. cur' \in [Ops -> SUBSET Blocks] /\ dirty' \subseteq Blocks
    BY <1>2, Zenon DEF Types
  <2> QED
    BY <1>2, <1>4, <1>7, <2>1, Zenon DEF Types, disk
<1>9. Control' /\ ~Installing'
  BY <1>2, <1>3, <1>4, <1>5, Zenon DEF Control, Committing, Installing
<1>10. Locks'
  BY <1>2, <1>4 DEF Locks
<1>11. Budget'
  <2>1. \A q \in InOp : wrote[q] \subseteq In(lh') \cup cur'[q]
    BY <1>1, <1>4, <1>7, Zenon DEF Budget, InOp
  <2> QED
    BY <1>2, <1>5, <1>7, <2>1, Zenon DEF Budget
<1>12. Cached'
  <2>1. \A d \in Blocks : bread(d)' = bread(d)
    BY <1>2, Zenon DEF bread, disk
  <2>2. \A d \in Blocks : (\E q \in Ops : d \in cur[q]) => d = b \/ \E q \in Ops : d \in cur'[q]
    BY <1>1, <1>4, Zenon
  <2>3. \A d \in Blocks : bread(d)' = home[d] \/ d \in In(lh') \/ \E q \in Ops : d \in cur'[q]
    BY <1>3, <1>7, <2>1, <2>2, Zenon DEF Cached
  <2>4. \A d \in dirty' : d \in In(lh') /\ buf[d] # Absent
    BY <1>1, <1>2, <1>3, <1>7, Zenon DEF Cached
  <2>5. In(lh') \subseteq dirty' /\ head = <<>>
    BY <1>2, <1>3, <1>7, Zenon DEF Cached
  <2> QED
    BY <1>2, <1>3, <1>5, <1>9, <2>3, <2>4, <2>5, Zenon DEF Cached, disk
<1>13. Phases' /\ Recovery'
  BY <1>2, <1>3, <1>4 DEF Phases, Recovery, Committing
<1> QED
  BY <1>5, <1>8, <1>9, <1>10, <1>11, <1>12, <1>13, Zenon

\* end_op: the call leaves; the last one sets committing and goes on to commit.
LEMMA EndHolds ==
  ASSUME IInv, NEW o \in Ops, end_op(o)
  PROVE  IInv' /\ AD!End(o)
<1> USE DEF IInv
<1>1. /\ pc[o] = "op" /\ o \in InOp /\ boot = "up" /\ ~committing /\ ~Installing
      /\ \A q \in Ops : pc[q] \notin Committing
  BY Zenon DEF end_op, InOp, Control, Installing, Committing
<1>2. /\ outstanding' = outstanding - 1
      /\ UNCHANGED <<disk, buf, dirty, lh, wrote, cur, boot, btail>>
  BY <1>1, Zenon DEF end_op
<1>3. IsFiniteSet(InOp \ {o}) /\ Cardinality(InOp \ {o}) = outstanding - 1 /\ outstanding \in Nat
  BY <1>1, FS_RemoveElement, FS_CardinalityType, Zenon DEF Control
<1>4. ASSUME outstanding = 1 PROVE IInv' /\ InOp' = InOp \ {o}
  <2>1. /\ committing' = TRUE /\ tail' = [tail EXCEPT ![o] = 1]
        /\ pc' = [pc EXCEPT ![o] = IF lh = <<>> THEN "committed" ELSE "write_log"]
    BY <1>1, <1>4, Zenon DEF end_op, NothingLogged, Goto
  <2>2. /\ pc' \in [Ops -> Labels] /\ tail' \in [Ops -> Nat \ {0}] /\ tail'[o] = 1
        /\ pc'[o] = IF lh = <<>> THEN "committed" ELSE "write_log"
        /\ \A q \in Ops : q # o => pc'[q] = pc[q]
    BY <2>1 DEF Types, Labels, Committing
  <2>3. InOp' = InOp \ {o}
    BY <2>2, Zenon DEF InOp
  <2>4. InOp' = {}
    BY <1>3, <1>4, <2>3, FS_EmptySet
  <2>5. Types' /\ ~Installing'
    BY <1>1, <1>2, <2>1, <2>2, Zenon DEF Types, disk, Installing, Committing
  <2>6. Control' /\ Locks'
    BY <1>1, <1>2, <1>3, <2>1, <2>2, <2>3, <2>4 DEF Control, Locks
  <2>7. Budget' /\ Cached'
    BY <1>1, <1>2, <2>1, <2>4, <2>5 DEF Budget, Cached, In, bread, disk
  <2>8. Phases' /\ Recovery'
    BY <1>1, <1>2, <2>1, <2>2 DEF Phases, Recovery, Committing
  <2> QED
    BY <2>3, <2>5, <2>6, <2>7, <2>8, Zenon
<1>5. ASSUME outstanding # 1 PROVE IInv' /\ InOp' = InOp \ {o}
  <2>1. pc' = Wake([pc EXCEPT ![o] = "idle"]) /\ UNCHANGED <<committing, tail>>
    BY <1>1, <1>5, Zenon DEF end_op
  <2>2. /\ pc' \in [Ops -> Labels] /\ pc'[o] = "idle"
        /\ \A q \in Ops : q # o => pc'[q] = IF pc[q] = "asleep" THEN "begin" ELSE pc[q]
    BY <2>1, Zenon DEF Types, Labels, Wake
  <2>3. InOp' = InOp \ {o} /\ \A q \in Ops : pc'[q] \notin Committing
    BY <1>1, <2>2, Zenon DEF InOp, Committing
  <2>4. InOp' # {}
    BY <1>3, <1>5, <2>3, FS_EmptySet
  <2>5. Types' /\ ~Installing'
    BY <1>2, <2>1, <2>2, <2>3, Zenon DEF Types, Header, disk, Installing, Committing
  <2>6. Control' /\ Locks'
    BY <1>1, <1>2, <1>3, <2>1, <2>2, <2>3, Zenon DEF Control, Locks
  <2>7. Budget'
    <3>1. Len(lh') + Cardinality(Left') <= LOGSIZE
      BY <1>2, <2>3, <2>4, LeftShrinks, Zenon DEF Budget, Types
    <3> QED
      BY <1>2, <2>3, <3>1, Zenon DEF Budget
  <2>8. Cached'
    BY <1>1, <1>2, <2>1, <2>4, <2>5 DEF Cached, In, bread, disk
  <2>9. Phases' /\ Recovery'
    BY <1>1, <1>2, <2>3, Zenon DEF Phases, Recovery, Committing
  <2> QED
    BY <2>3, <2>5, <2>6, <2>7, <2>8, <2>9, Zenon
<1>6. Durable' = Durable /\ View' = View
  BY <1>2, Zenon DEF Durable, View, bread, disk
<1> QED
  BY <1>1, <1>4, <1>5, <1>6, Zenon DEF AD!End

-----------------------------------------------------------------------------
\* While a process commits, it is alone.
LEMMA Alone ==
  ASSUME IInv, NEW o \in Ops, pc[o] \in Committing
  PROVE  /\ committing /\ InOp = {} /\ boot = "up" /\ \A q \in Ops : cur[q] = {}
         /\ \A q \in Ops : q # o => pc[q] \in Out
         /\ Installing <=> pc[o] \in {"install", "clear"}
<1>1. committing /\ InOp = {} /\ boot = "up" /\ \A q \in Ops : q # o => pc[q] \notin Committing
  BY Zenon DEF IInv, Control, Committing
<1>2. \A q \in Ops : pc[q] \notin {"op", "logging"}
  BY <1>1, Zenon DEF InOp
<1>3. \A q \in Ops : q # o => pc[q] \in Out
  BY <1>1, <1>2, Zenon DEF IInv, Types, Labels, Out
<1>4. Installing <=> pc[o] \in {"install", "clear"}
  BY <1>3, Zenon DEF Installing, Out
<1> QED
  BY <1>1, <1>2, <1>3, <1>4, Zenon DEF IInv, Locks

\* A step of commit from one label to another: what it does not touch.
LEMMA CommitStep ==
  ASSUME IInv, NEW o \in Ops, pc[o] \in Committing, NEW l \in Committing,
         pc' = [pc EXCEPT ![o] = l],
         UNCHANGED <<outstanding, committing, wrote, cur, boot, btail>>
  PROVE  /\ pc' \in [Ops -> Labels] /\ pc'[o] = l /\ \A q \in Ops : q # o => pc'[q] \in Out
         /\ Control' /\ Locks' /\ Budget' /\ Recovery' /\ InOp' = {}
         /\ Installing' <=> l \in {"install", "clear"}
<1> USE DEF IInv
<1>1. /\ pc' \in [Ops -> Labels] /\ pc'[o] = l /\ \A q \in Ops : q # o => pc'[q] = pc[q]
  BY Zenon DEF Types, Labels
<1>2. \A q \in Ops : q # o => pc'[q] \in Out
  BY <1>1, Alone, Zenon
<1>3. InOp' = {} /\ \A q \in Ops : pc'[q] # "logging"
  BY <1>1, <1>2, Zenon DEF InOp, Out, Committing
<1>4. Control'
  BY <1>1, <1>2, <1>3, Alone, Zenon DEF Control, Out, Committing
<1>5. Locks' /\ Budget' /\ Recovery'
  BY <1>3, Alone, Zenon DEF Locks, Budget, Recovery
<1>6. Installing' <=> l \in {"install", "clear"}
  BY <1>1, <1>2, Zenon DEF Installing, Out
<1> QED
  BY <1>1, <1>2, <1>3, <1>4, <1>5, <1>6, Zenon

-----------------------------------------------------------------------------

\* write_log copies the contents of one buffer to the log, or ends.
LEMMA WriteLogHolds ==
  ASSUME IInv, NEW o \in Ops, write_log(o)
  PROVE  IInv' /\ UNCHANGED <<View, Durable, InOp>>
<1> USE DEF IInv
<1>1. /\ pc[o] = "write_log" /\ pc[o] \in Committing
      /\ UNCHANGED <<home, head, dirty, log, wrote, cur, boot, btail>>
  BY Zenon DEF write_log, Committing
<1>2. /\ committing /\ InOp = {} /\ boot = "up" /\ \A q \in Ops : cur[q] = {}
      /\ ~Installing /\ head = <<>>
  BY <1>1, Alone, Zenon DEF Cached
<1>3. Durable' = Durable
  BY <1>1, <1>2 DEF Durable
<1>4. CASE tail[o] <= Len(lh)
  <2> DEFINE t == tail[o]
             b == lh[t]
  <2>1. t \in 1..Len(lh) /\ b \in Blocks /\ t \in 1..LogData /\ bread(b) \in 0..MaxData
    BY <1>4, Entries DEF Types, bread
  <2>2. /\ logBlk' = [logBlk EXCEPT ![t] = bread(b)] /\ buf' = [buf EXCEPT ![b] = bread(b)]
        /\ tail' = [tail EXCEPT ![o] = t + 1] /\ pc' = pc
    BY <1>4, Zenon DEF write_log
  <2> HIDE DEF t, b
  <2>3. /\ logBlk' \in [1..LogData -> 0..MaxData] /\ logBlk'[t] = bread(b)
        /\ \A i \in 1..LogData : i # t => logBlk'[i] = logBlk[i]
        /\ buf' \in [Blocks -> 0..MaxData \cup {Absent}] /\ buf'[b] = bread(b)
        /\ \A d \in Blocks : d # b => buf'[d] = buf[d]
        /\ tail' \in [Ops -> Nat \ {0}] /\ tail'[o] = t + 1
    BY <2>1, <2>2, LogAssumption DEF Types
  <2>4. \A d \in Blocks : bread(d)' = bread(d) /\ (buf[d] # Absent => buf'[d] # Absent)
    BY <1>1, <2>1, <2>3, LogAssumption, Zenon DEF bread
  <2>5. View' = View
    BY <1>1, <1>2, <2>4, Zenon DEF View
  <2>6. Types'
    BY <1>1, <2>2, <2>3, Zenon DEF Types, log
  <2>7. Control' /\ Locks' /\ Budget' /\ Recovery' /\ Installing' = Installing /\ InOp' = InOp
    BY <1>1, <1>2, <2>2, <2>4, Zenon DEF Control, Locks, Budget, Recovery, Installing, InOp, log, Left
  <2>8. Cached'
    BY <1>1, <1>2, <2>4, <2>7, Zenon DEF Cached, log, Types
  <2>9. \A i \in 1..Len(lh) : i < t + 1 => logBlk'[i] = bread(lh[i])'
    <3>1. \A i \in 1..Len(lh) : lh[i] \in Blocks /\ i \in 1..LogData /\ (i < t + 1 => i < t \/ i = t)
      BY <2>1, Entries DEF Types
    <3>2. \A i \in 1..Len(lh) : i < t => logBlk[i] = bread(lh[i])
      BY <1>1, Zenon DEF Phases, t
    <3>3. lh' = lh /\ lh[t] = b
      BY <1>1, Zenon DEF log, b
    <3> QED
      BY <2>1, <2>3, <2>4, <3>1, <3>2, <3>3, Zenon
  <2>10. Phases'
    BY <1>1, <2>2, <2>3, <2>9, Alone, ZenonT(40) DEF Phases, log, Out
  <2> QED
    BY <1>3, <2>5, <2>6, <2>7, <2>8, <2>10, Zenon
<1>5. CASE ~(tail[o] <= Len(lh))
  <2>1. pc' = [pc EXCEPT ![o] = "write_head"] /\ UNCHANGED <<logBlk, buf, tail>>
    BY <1>5, Zenon DEF write_log, Goto
  <2>2. /\ pc' \in [Ops -> Labels] /\ pc'[o] = "write_head"
        /\ \A q \in Ops : q # o => pc'[q] \in Out
        /\ Control' /\ Locks' /\ Budget' /\ Recovery' /\ InOp' = {} /\ ~Installing'
    BY <1>1, <2>1, CommitStep, Zenon DEF log, Committing
  <2>3. Types' /\ View' = View
    <3>1. Types'
      BY <1>1, <1>2, <2>1, <2>2, Zenon DEF Types, log
    <3> QED
      BY <1>1, <1>2, <2>1, <2>2, <3>1, Zenon DEF log, View, bread
  <2>4. Cached'
    BY <1>1, <1>2, <2>1, <2>2, Zenon DEF Cached, log, bread
  <2>5. \A i \in 1..Len(lh) : logBlk[i] = bread(lh[i])
    BY <1>1, <1>5, Entries DEF Phases, Types
  <2>6. Phases'
    BY <1>1, <2>1, <2>2, <2>5, Zenon DEF Phases, bread, log, Out
  <2> QED
    BY <1>2, <1>3, <2>2, <2>3, <2>4, <2>6, Zenon
<1> QED
  BY <1>4, <1>5, Zenon

\* write_head is the point of commit: what survives a crash becomes what the calls have made.
LEMMA WriteHeadHolds ==
  ASSUME IInv, NEW o \in Ops, write_head(o)
  PROVE  IInv' /\ AD!Commit
<1> USE DEF IInv
<1>1. /\ pc[o] = "write_head" /\ pc[o] \in Committing /\ head' = lh
      /\ tail' = [tail EXCEPT ![o] = 1] /\ pc' = [pc EXCEPT ![o] = "install"]
      /\ UNCHANGED <<home, logBlk, buf, dirty, log, wrote, cur, boot, btail>>
  BY Zenon DEF write_head, Committing, Goto
<1>2. /\ committing /\ InOp = {} /\ boot = "up" /\ \A q \in Ops : cur[q] = {}
      /\ ~Installing /\ head = <<>>
  BY <1>1, Alone, Zenon DEF Cached
<1>3. /\ pc' \in [Ops -> Labels] /\ pc'[o] = "install"
      /\ \A q \in Ops : q # o => pc'[q] \in Out
      /\ Control' /\ Locks' /\ Budget' /\ Recovery' /\ InOp' = {} /\ Installing'
  BY <1>1, CommitStep, Zenon DEF log, Committing
<1>4. tail' \in [Ops -> Nat \ {0}] /\ tail'[o] = 1
  BY <1>1 DEF Types
<1>5. Types' /\ View' = View
  <2>1. Types'
    BY <1>1, <1>2, <1>3, <1>4, Zenon DEF Types, log
  <2> QED
    BY <1>1, <1>2, <1>3, <1>4, <2>1, Zenon DEF log, View, bread
<1>6. Cached'
  BY <1>1, <1>2, <1>3, Zenon DEF Cached, log, bread
<1>7. \A i \in 1..Len(lh) : logBlk[i] = bread(lh[i]) /\ lh[i] \in dirty
  BY <1>1, <1>2 DEF Phases, Cached, In
<1>8. Phases'
  BY <1>1, <1>3, <1>4, <1>7 DEF Phases, bread, log, Out
<1>9. Durable' = View
  <2>1. Durable' = [b \in Blocks |-> IF \E i \in 1..Len(lh) : lh[i] = b
                      THEN logBlk[CHOOSE i \in 1..Len(lh) : lh[i] = b] ELSE home[b]]
    BY <1>1, Zenon DEF Durable
  <2>2. ASSUME NEW b \in Blocks, b \notin In(lh) PROVE Durable'[b] = bread(b)
    BY <1>2, <2>1, <2>2, Zenon DEF Cached, In
  <2>3. ASSUME NEW i \in 1..Len(lh) PROVE Durable'[lh[i]] = bread(lh[i])
    <3>1. (CHOOSE j \in 1..Len(lh) : lh[j] = lh[i]) = i /\ lh[i] \in Blocks
      BY Index, Entries, Zenon DEF Types
    <3> QED
      BY <1>7, <2>1, <3>1, Zenon
  <2>4. \A b \in Blocks : Durable'[b] = bread(b)
    BY <2>2, <2>3, Zenon DEF In
  <2> QED
    BY <1>2, <2>4 DEF Durable, View
<1> QED
  BY <1>2, <1>3, <1>5, <1>6, <1>8, <1>9, Zenon DEF AD!Commit

\* install_trans copies one block of the log to its home, or ends.
LEMMA InstallHolds ==
  ASSUME IInv, NEW o \in Ops, install_trans(o)
  PROVE  IInv' /\ UNCHANGED <<View, Durable, InOp>>
<1> USE DEF IInv
<1>1. /\ pc[o] = "install" /\ pc[o] \in Committing
      /\ UNCHANGED <<logBlk, head, log, wrote, cur, boot, btail>>
  BY Zenon DEF install_trans, Committing
<1>2. /\ committing /\ InOp = {} /\ boot = "up" /\ \A q \in Ops : cur[q] = {}
      /\ Installing /\ head = lh
  BY <1>1, Alone, Zenon DEF Cached
<1>3. \A i \in 1..Len(lh) :
        /\ logBlk[i] = bread(lh[i])
        /\ IF i < tail[o] THEN home[lh[i]] = logBlk[i] /\ lh[i] \notin dirty ELSE lh[i] \in dirty
  BY <1>1, Zenon DEF Phases
<1>4. CASE tail[o] <= Len(lh)
  <2> DEFINE t == tail[o]
             b == lh[t]
             v == logBlk[t]
  <2>1. /\ t \in 1..Len(lh) /\ b \in Blocks /\ v \in 0..MaxData /\ v = bread(b)
        /\ \A i \in 1..Len(lh) : lh[i] = b => i = t
    BY <1>3, <1>4, Entries DEF Types, Header
  <2>2. /\ buf' = [buf EXCEPT ![b] = v] /\ home' = [home EXCEPT ![b] = v]
        /\ dirty' = dirty \ {b} /\ tail' = [tail EXCEPT ![o] = t + 1] /\ pc' = pc
    BY <1>4, Zenon DEF install_trans, Install
  <2>3. lh' = lh /\ head' = head /\ lh[t] = b /\ logBlk[t] = v
    BY <1>1, Zenon DEF log
  <2>4. \A i \in 1..Len(lh) :
          /\ lh[i] \in Blocks /\ logBlk[i] = bread(lh[i])
          /\ IF i < t THEN home[lh[i]] = logBlk[i] /\ lh[i] \notin dirty ELSE lh[i] \in dirty
    BY <1>3, Entries, Zenon DEF Types
  <2> HIDE DEF t, b, v
  <2>5. /\ home' \in [Blocks -> 0..MaxData] /\ home'[b] = v
        /\ \A d \in Blocks : d # b => home'[d] = home[d] /\ buf'[d] = buf[d]
        /\ buf' \in [Blocks -> 0..MaxData \cup {Absent}] /\ buf'[b] = v
        /\ tail' \in [Ops -> Nat \ {0}] /\ tail'[o] = t + 1
    BY <2>1, <2>2, LogAssumption DEF Types
  <2>6. \A d \in Blocks : bread(d)' = bread(d) /\ (buf[d] # Absent => buf'[d] # Absent)
    BY <2>1, <2>5, LogAssumption, Zenon DEF bread
  <2>7. View' = View /\ Durable' = Durable
    <3>1. ASSUME NEW d \in Blocks PROVE Durable'[d] = Durable[d]
      BY <1>1, <1>2, <2>1, <2>3, <2>5 DEF Durable
    <3> QED
      BY <1>1, <1>2, <2>6, <3>1 DEF View, Durable
  <2>8. Types'
    BY <1>1, <2>2, <2>5, Zenon DEF Types, log
  <2>9. Control' /\ Locks' /\ Budget' /\ Recovery' /\ Installing' = Installing /\ InOp' = InOp
    BY <1>1, <1>2, <2>2, <2>6 DEF Control, Locks, Budget, Recovery, Installing, InOp, log, Left
  <2>10. Cached'
    <3>1. \A d \in Blocks : bread(d)' = home'[d] \/ d \in In(lh)
      BY <1>2, <2>5, <2>6, Zenon DEF Cached, bread
    <3>2. \A d \in dirty' : d \in In(lh) /\ buf'[d] # Absent
      BY <1>2, <2>2, <2>6, Zenon DEF Cached, Types
    <3> QED
      BY <1>1, <1>2, <2>3, <2>9, <3>1, <3>2, Zenon DEF Cached, log
  <2>11. \A i \in 1..Len(lh) :
           /\ logBlk[i] = bread(lh[i])'
           /\ IF i < t + 1 THEN home'[lh[i]] = logBlk[i] /\ lh[i] \notin dirty'
              ELSE lh[i] \in dirty'
    <3>1. \A i \in 1..Len(lh) : i < t + 1 <=> i < t \/ i = t
      BY <2>1, Entries DEF Types
    <3> QED
      BY <2>1, <2>2, <2>3, <2>4, <2>5, <2>6, <3>1
  <2>12. Phases'
    BY <1>1, <2>2, <2>3, <2>5, <2>11, Alone, ZenonT(40) DEF Phases, Out
  <2> QED
    BY <2>7, <2>8, <2>9, <2>10, <2>12, Zenon
<1>5. CASE ~(tail[o] <= Len(lh))
  <2>1. pc' = [pc EXCEPT ![o] = "clear"] /\ UNCHANGED <<home, dirty, buf, tail>>
    BY <1>5, Zenon DEF install_trans, Goto
  <2>2. /\ pc' \in [Ops -> Labels] /\ pc'[o] = "clear"
        /\ \A q \in Ops : q # o => pc'[q] \in Out
        /\ Control' /\ Locks' /\ Budget' /\ Recovery' /\ InOp' = {} /\ Installing'
    BY <1>1, <2>1, CommitStep, Zenon DEF log, Committing
  <2>3. Types' /\ View' = View /\ Durable' = Durable
    <3>1. Types'
      BY <1>1, <1>2, <2>1, <2>2, Zenon DEF Types, log
    <3> QED
      BY <1>1, <1>2, <2>1, <2>2, <3>1, Zenon DEF log, View, bread, Durable
  <2>4. Cached'
    BY <1>1, <1>2, <2>1, <2>2, Zenon DEF Cached, log, bread
  <2>5. \A i \in 1..Len(lh) : i < tail[o]
    BY <1>5, Entries DEF Types
  <2>6. Phases'
    BY <1>1, <1>3, <2>1, <2>2, <2>5, Zenon DEF Phases, bread, log, Out
  <2> QED
    BY <1>2, <2>2, <2>3, <2>4, <2>6, Zenon
<1> QED
  BY <1>4, <1>5, Zenon

\* When every block of the header has been installed, the log can go.
LEMMA Installed ==
  ASSUME Types, \A i \in 1..Len(head) : home[head[i]] = logBlk[i]
  PROVE  Durable = [b \in Blocks |-> home[b]]
<1>1. ASSUME NEW i \in 1..Len(head) PROVE Durable[head[i]] = home[head[i]]
  <2>1. (CHOOSE j \in 1..Len(head) : head[j] = head[i]) = i /\ head[i] \in Blocks
    BY Index, Entries, Zenon DEF Types
  <2> QED
    BY <2>1, Zenon DEF Durable
<1> QED
  BY <1>1 DEF Durable

\* commit erases the header.
LEMMA ClearHolds ==
  ASSUME IInv, NEW o \in Ops, clear(o)
  PROVE  IInv' /\ UNCHANGED <<View, Durable, InOp>>
<1> USE DEF IInv
<1>1. /\ pc[o] = "clear" /\ pc[o] \in Committing /\ lh' = <<>> /\ head' = <<>>
      /\ pc' = [pc EXCEPT ![o] = "committed"]
      /\ UNCHANGED <<home, logBlk, buf, dirty, outstanding, committing, wrote, cur, tail, boot, btail>>
  BY Zenon DEF clear, Committing, Goto
<1>2. /\ committing /\ InOp = {} /\ boot = "up" /\ \A q \in Ops : cur[q] = {}
      /\ Installing /\ head = lh
  BY <1>1, Alone, Zenon DEF Cached
<1>3. /\ pc' \in [Ops -> Labels] /\ pc'[o] = "committed"
      /\ \A q \in Ops : q # o => pc'[q] \in Out
      /\ Control' /\ Locks' /\ Budget' /\ Recovery' /\ InOp' = {} /\ ~Installing'
  BY <1>1, CommitStep, Zenon DEF Committing
<1>4. \A i \in 1..Len(lh) :
        logBlk[i] = bread(lh[i]) /\ home[lh[i]] = logBlk[i] /\ lh[i] \notin dirty
  BY <1>1, Zenon DEF Phases
<1>5. Header(<<>>) /\ In(<<>>) = {}
  BY LogAssumption DEF Header, In
<1>6. Types' /\ View' = View
  BY <1>1, <1>2, <1>3, <1>5, Zenon DEF Types, View, bread
<1>7. Durable' = Durable
  BY <1>1, <1>2, <1>4, Installed DEF Durable
<1>8. Cached'
  <2>1. dirty = {} /\ \A b \in Blocks : bread(b) = home[b]
    BY <1>2, <1>4 DEF Cached, In
  <2> QED
    BY <1>1, <1>3, <1>5, <2>1, Zenon DEF Cached, bread
<1>9. Phases'
  BY <1>1, <1>3, Zenon DEF Phases, Out
<1> QED
  BY <1>2, <1>3, <1>6, <1>7, <1>8, <1>9, Zenon

\* end_op after commit(): the next transaction may begin.
LEMMA CommittedHolds ==
  ASSUME IInv, NEW o \in Ops, committed(o)
  PROVE  IInv' /\ UNCHANGED <<View, Durable, InOp>>
<1> USE DEF IInv
<1>1. /\ pc[o] = "committed" /\ pc[o] \in Committing /\ committing' = FALSE
      /\ pc' = Wake([pc EXCEPT ![o] = "idle"])
      /\ UNCHANGED <<disk, buf, dirty, lh, outstanding, wrote, cur, tail, boot, btail>>
  BY Zenon DEF committed, Committing, Woken
<1>2. /\ InOp = {} /\ boot = "up" /\ ~Installing /\ lh = <<>>
      /\ \A q \in Ops : q # o => pc[q] \in Out
  BY <1>1, Alone, Zenon DEF Phases
<1>3. /\ pc' \in [Ops -> Labels]
      /\ \A q \in Ops : pc'[q] = IF q = o THEN "idle" ELSE IF pc[q] = "asleep" THEN "begin" ELSE pc[q]
  BY <1>1, Zenon DEF Types, Labels, Wake
<1>4. \A q \in Ops : pc'[q] \in Out
  BY <1>2, <1>3, Zenon DEF Out
<1>5. InOp' = {} /\ ~Installing' /\ \A q \in Ops : pc'[q] \notin Committing \cup {"logging"}
  BY <1>4, Zenon DEF InOp, Installing, Out, Committing
<1>6. Types' /\ View' = View /\ Durable' = Durable
  BY <1>1, <1>3, Zenon DEF Types, Header, disk, View, bread, Durable
<1>7. Control' /\ Locks' /\ Budget'
  BY <1>1, <1>2, <1>5, Alone, Zenon DEF Control, Locks, Budget
<1>8. Cached'
  BY <1>1, <1>2, <1>5 DEF Cached, In, bread, disk
<1>9. Phases' /\ Recovery'
  BY <1>1, <1>2, <1>5, Zenon DEF Phases, Recovery, Committing
<1> QED
  BY <1>2, <1>5, <1>6, <1>7, <1>8, <1>9, Zenon

\* bget recycles only a buffer whose contents are at home.
LEMMA EvictHolds ==
  ASSUME IInv, NEW b \in Blocks, evict(b)
  PROVE  IInv' /\ UNCHANGED <<View, Durable, InOp>>
<1> USE DEF IInv
<1>1. /\ b \notin dirty /\ \A o \in Ops : b \notin cur[o]
      /\ buf' = [buf EXCEPT ![b] = Absent]
      /\ UNCHANGED <<disk, dirty, log, local, boot, btail>>
  BY Zenon DEF evict
<1>2. /\ buf' \in [Blocks -> 0..MaxData \cup {Absent}] /\ buf'[b] = Absent
      /\ \A d \in Blocks : d # b => buf'[d] = buf[d]
  BY <1>1, Zenon DEF Types
<1>3. ASSUME boot = "up" PROVE bread(b) = home[b]
  <2>1. b \notin In(lh) \/ Installing
    BY <1>1, <1>3, Zenon DEF Cached
  <2>2. ASSUME Installing, b \in In(lh) PROVE bread(b) = home[b]
    BY <1>1, <2>2 DEF Installing, In, Phases
  <2> QED
    BY <1>1, <1>3, <2>1, <2>2, Zenon DEF Cached
<1>4. boot = "up" => \A d \in Blocks : bread(d)' = bread(d)
  BY <1>1, <1>2, <1>3, Zenon DEF bread, disk
<1>5. InOp' = InOp /\ Installing' = Installing /\ View' = View /\ Durable' = Durable
  BY <1>1, <1>4, Zenon DEF InOp, Installing, View, Durable, disk, local
<1>6. Types'
  BY <1>1, <1>2 DEF Types, Header, disk, log, local
<1>7. Control' /\ Budget'
  BY <1>1, <1>5, Zenon DEF Control, Budget, Left, log, local
<1>8. Locks'
  BY <1>1, <1>2 DEF Locks, local, Types
<1>9. Cached'
  BY <1>1, <1>2, <1>4, <1>5, Zenon DEF Cached, disk, log, local, Types
<1>10. Recovery'
  BY <1>1, <1>2, Zenon DEF Recovery, disk, log
<1>11. Phases'
  <2>1. \A o \in Ops : pc[o] \in Committing => boot = "up"
    BY Zenon DEF Control, Committing
  <2>2. \A i \in 1..Len(lh) : lh[i] \in Blocks
    BY Entries, Zenon DEF Types
  <2> QED
    BY <1>1, <1>4, <2>1, <2>2 DEF Phases, disk, log, local, Committing
<1> QED
  BY <1>5, <1>6, <1>7, <1>8, <1>9, <1>10, <1>11, Zenon

-----------------------------------------------------------------------------
\* The machine stops: the calls are gone, and what is durable is not.
LEMMA CrashHolds ==
  ASSUME IInv, crash
  PROVE  IInv' /\ AD!Crash
<1> USE DEF IInv
<1>1. /\ buf' = [b \in Blocks |-> Absent] /\ dirty' = {} /\ lh' = <<>> /\ outstanding' = 0
      /\ committing' = FALSE /\ pc' = [o \in Ops |-> "idle"]
      /\ wrote' = [o \in Ops |-> {}] /\ cur' = [o \in Ops |-> {}] /\ tail' = [o \in Ops |-> 1]
      /\ boot' = "read_head" /\ btail' = 1 /\ UNCHANGED disk
  BY Zenon DEF crash
<1>2. InOp' = {} /\ Header(<<>>)
  BY <1>1, LogAssumption DEF InOp, Header
<1>3. Durable' = Durable /\ View' = Durable
  BY <1>1, Zenon DEF Durable, View, disk
<1>4. Types'
  <2>1. committing' \in BOOLEAN /\ pc' \in [Ops -> Labels] /\ Header(lh')
    BY <1>1, <1>2, Zenon DEF Labels
  <2> QED
    BY <1>1, <2>1 DEF Types, disk, Header
<1>5. Control'
  BY <1>1, <1>2, FS_EmptySet, Zenon DEF Control, Committing
<1>6. Locks' /\ Budget' /\ Phases'
  BY <1>1, <1>2, Zenon DEF Locks, Budget, Phases
<1>7. Cached' /\ Recovery'
  BY <1>1, Zenon DEF Cached, Recovery
<1> QED
  BY <1>2, <1>3, <1>4, <1>5, <1>6, <1>7, Zenon DEF AD!Crash

\* What a step of initlog and recover_from_log leaves alone.
LEMMA RecoveryStep ==
  ASSUME IInv, boot # "up", UNCHANGED <<outstanding, committing, local>>
  PROVE  /\ InOp = {} /\ InOp' = {} /\ ~Installing' /\ \A b \in Blocks : buf[b] \in {Absent, home[b]}
         /\ Control' /\ Locks' /\ Budget' /\ Phases'
<1> USE DEF IInv
<1>1. \A o \in Ops : pc'[o] = "idle" /\ cur'[o] = {} /\ pc[o] = "idle"
  BY Zenon DEF Control, Locks, local
<1>2. InOp = {} /\ InOp' = {} /\ ~Installing'
  BY <1>1, Zenon DEF InOp, Installing
<1>3. Control'
  BY <1>1, <1>2, Zenon DEF Control, Committing
<1>4. Locks' /\ Budget' /\ Phases'
  BY <1>1, <1>2, Zenon DEF Locks, Budget, Phases
<1> QED
  BY <1>2, <1>3, <1>4, Zenon DEF Recovery

\* initlog reads the header.
LEMMA ReadHeadHolds ==
  ASSUME IInv, read_head
  PROVE  IInv' /\ UNCHANGED <<View, Durable, InOp>>
<1> USE DEF IInv
<1>1. /\ boot = "read_head" /\ lh' = head /\ boot' = "install"
      /\ UNCHANGED <<disk, buf, dirty, outstanding, committing, local, btail>>
  BY Zenon DEF read_head
<1>2. InOp = {} /\ InOp' = {} /\ Control' /\ Locks' /\ Budget' /\ Phases'
  BY <1>1, RecoveryStep, Zenon
<1>3. Types' /\ View' = View /\ Durable' = Durable
  BY <1>1 DEF Types, Header, disk, local, View, Durable
<1>4. Cached'
  BY <1>1, Zenon DEF Cached
<1>5. Recovery'
  <2>1. \A i \in 1..Len(head) : ~(i < 1)
    BY Entries DEF Types
  <2> QED
    BY <1>1, <2>1, Zenon DEF Recovery, disk
<1> QED
  BY <1>2, <1>3, <1>4, <1>5, Zenon

\* recover_from_log installs one block, or erases the header and lets the system start.
LEMMA RecoverHolds ==
  ASSUME IInv, recover_from_log
  PROVE  IInv' /\ UNCHANGED <<View, Durable, InOp>>
<1> USE DEF IInv
<1>1. boot = "install" /\ UNCHANGED <<logBlk, outstanding, committing, local>>
  BY Zenon DEF recover_from_log
<1>2. /\ InOp = {} /\ InOp' = {} /\ ~Installing' /\ \A b \in Blocks : buf[b] \in {Absent, home[b]}
      /\ Control' /\ Locks' /\ Budget' /\ Phases'
  BY <1>1, RecoveryStep, Zenon
<1>3. /\ lh = head /\ dirty = {} /\ \A i \in 1..Len(lh) : i < btail => home[lh[i]] = logBlk[i]
  BY <1>1, Zenon DEF Recovery
<1>4. CASE ~Recovered
  <2> DEFINE b == lh[btail]
             v == logBlk[btail]
  <2>1. /\ btail \in 1..Len(lh) /\ b \in Blocks /\ v \in 0..MaxData
        /\ \A i \in 1..Len(lh) : lh[i] \in Blocks
    BY <1>4, Entries DEF Recovered, Types
  <2>2. /\ buf' = [buf EXCEPT ![b] = v] /\ home' = [home EXCEPT ![b] = v] /\ dirty' = {}
        /\ btail' = btail + 1 /\ UNCHANGED <<boot, lh, head>>
    BY <1>3, <1>4, Zenon DEF recover_from_log, Install
  <2>3. lh[btail] = b /\ logBlk[btail] = v
    BY Zenon
  <2> HIDE DEF b, v
  <2>4. /\ home' \in [Blocks -> 0..MaxData] /\ home'[b] = v
        /\ \A d \in Blocks : d # b => home'[d] = home[d] /\ buf'[d] = buf[d]
        /\ buf' \in [Blocks -> 0..MaxData \cup {Absent}] /\ buf'[b] = v
    BY <2>1, <2>2, LogAssumption, Zenon DEF Types
  <2>5. ASSUME NEW d \in Blocks PROVE Durable'[d] = Durable[d]
    BY <1>1, <1>3, <2>1, <2>2, <2>3, <2>4 DEF Durable
  <2>6. View' = View /\ Durable' = Durable
    BY <1>1, <2>2, <2>5 DEF View, Durable
  <2>7. Types'
    BY <1>1, <2>2, <2>4 DEF Types, Header, local
  <2>8. Cached'
    BY <1>1, <2>2, Zenon DEF Cached
  <2>9. Recovery'
    <3>1. \A i \in 1..Len(lh) : i < btail + 1 => home'[lh[i]] = logBlk[i]
      <4>1. \A i \in 1..Len(lh) : i < btail + 1 => i < btail \/ i = btail
        BY <2>1, Entries DEF Types
      <4>2. \A i \in 1..Len(lh) : lh[i] = b => i = btail
        BY <2>1, <2>3, Zenon DEF Types, Header
      <4> QED
        BY <1>3, <2>1, <2>3, <2>4, <4>1, <4>2
    <3> QED
      BY <1>1, <1>2, <1>3, <2>2, <2>4, <3>1 DEF Recovery
  <2> QED
    BY <1>2, <2>6, <2>7, <2>8, <2>9, Zenon
<1>5. CASE Recovered
  <2>1. lh' = <<>> /\ head' = <<>> /\ boot' = "up" /\ UNCHANGED <<buf, home, dirty, btail>>
    BY <1>5, Zenon DEF recover_from_log
  <2>2. Header(<<>>) /\ In(<<>>) = {}
    BY LogAssumption DEF Header, In
  <2>3. Types'
    BY <1>1, <2>1, <2>2, Zenon DEF Types, local
  <2>4. \A i \in 1..Len(lh) : i < btail
    BY <1>5, Entries DEF Recovered, Types
  <2>5. Durable = [b \in Blocks |-> home[b]]
    BY <1>3, <2>4, Installed, Zenon
  <2>6. Durable' = Durable /\ View' = View
    <3>1. Durable' = [b \in Blocks |-> home[b]]
      BY <2>1 DEF Durable
    <3>2. \A b \in Blocks : bread(b)' = home[b]
      BY <1>2, <2>1, Zenon DEF bread
    <3> QED
      BY <1>1, <2>1, <2>5, <3>1, <3>2, Zenon DEF View
  <2>7. Cached'
    BY <1>2, <1>3, <2>1, <2>2, Zenon DEF Cached, bread
  <2>8. Recovery'
    BY <2>1, Zenon DEF Recovery
  <2> QED
    BY <1>2, <2>3, <2>6, <2>7, <2>8, Zenon
<1> QED
  BY <1>4, <1>5, Zenon

-----------------------------------------------------------------------------
\* Every step keeps the invariant, and is a step of the atomic disk or none.
LEMMA NextHolds ==
  ASSUME LogConstants, IInv, [Next]_vars
  PROVE  IInv' /\ [AD!Next]_(AD!avars)
<1> USE DEF AD!Next, AD!avars
<1>1. ASSUME UNCHANGED vars PROVE IInv' /\ UNCHANGED <<View, Durable, InOp>>
  BY <1>1, OutsideHolds, Zenon DEF vars, local, IInv, Types
<1>2. ASSUME NEW o \in Ops, call(o) PROVE IInv' /\ UNCHANGED <<View, Durable, InOp>>
  <2>1. /\ boot = "up" /\ pc[o] = "idle" /\ pc' = [pc EXCEPT ![o] = "begin"]
        /\ UNCHANGED <<disk, buf, dirty, log, wrote, cur, tail, boot, btail>>
    BY <1>2, Zenon DEF call, Goto
  <2>2. pc' \in [Ops -> Labels] /\ pc'[o] = "begin" /\ \A q \in Ops : q # o => pc'[q] = pc[q]
    BY <2>1, Zenon DEF IInv, Types, Labels
  <2> QED
    BY <2>1, <2>2, OutsideHolds, Zenon DEF Out
<1>3. ASSUME NEW o \in Ops, begin_op(o) PROVE IInv' /\ [AD!Next]_(AD!avars)
  <2>1. CASE MustWait
    <3>1. /\ pc[o] = "begin" /\ pc' = [pc EXCEPT ![o] = "asleep"]
          /\ UNCHANGED <<disk, buf, dirty, log, wrote, cur, tail, boot, btail>>
      BY <1>3, <2>1, Zenon DEF begin_op, Goto, log
    <3>2. pc' \in [Ops -> Labels] /\ pc'[o] = "asleep" /\ \A q \in Ops : q # o => pc'[q] = pc[q]
      BY <3>1, Zenon DEF IInv, Types, Labels
    <3>3. boot = "up"
      BY <3>1, Zenon DEF IInv, Control
    <3> QED
      BY <3>1, <3>2, <3>3, OutsideHolds, Zenon DEF Out
  <2>2. CASE ~MustWait
    BY <1>3, <2>2, BeginHolds, Zenon
  <2> QED
    BY <2>1, <2>2, Zenon
<1>4. ASSUME NEW o \in Ops, NEW b \in Blocks, modify(o, b), ~panicked
      PROVE  IInv' /\ [AD!Next]_(AD!avars)
  <2>1. CASE panicked'
    <3>1. /\ pc[o] = "op" /\ pc' = pc
          /\ UNCHANGED <<disk, buf, dirty, log, wrote, cur, tail, boot, btail>>
      BY <1>4, <2>1, Zenon DEF modify
    <3> QED
      BY <3>1, OutsideHolds, Zenon DEF IInv, Control, Types
  <2>2. CASE ~panicked'
    BY <1>4, <2>2, ModifyHolds, Zenon
  <2> QED
    BY <2>1, <2>2, Zenon
<1>5. ASSUME NEW o \in Ops, end_op(o) PROVE IInv' /\ [AD!Next]_(AD!avars)
  BY <1>5, EndHolds, Zenon
<1>6. ASSUME NEW o \in Ops, log_write(o) \/ write_log(o) \/ install_trans(o) \/ clear(o) \/ committed(o)
      PROVE  IInv' /\ UNCHANGED <<View, Durable, InOp>>
  BY <1>6, LogWriteHolds, WriteLogHolds, InstallHolds, ClearHolds, CommittedHolds, Zenon
<1>7. ASSUME NEW o \in Ops, write_head(o) PROVE IInv' /\ [AD!Next]_(AD!avars)
  BY <1>7, WriteHeadHolds, Zenon
<1>8. ASSUME NEW b \in Blocks, evict(b) PROVE IInv' /\ UNCHANGED <<View, Durable, InOp>>
  BY <1>8, EvictHolds, Zenon
<1>9. ASSUME crash PROVE IInv' /\ [AD!Next]_(AD!avars)
  BY <1>9, CrashHolds, Zenon
<1>10. ASSUME read_head \/ recover_from_log PROVE IInv' /\ UNCHANGED <<View, Durable, InOp>>
  BY <1>10, ReadHeadHolds, RecoverHolds, Zenon
<1> QED
  BY <1>1, <1>2, <1>3, <1>4, <1>5, <1>6, <1>7, <1>8, <1>9, <1>10, Zenon DEF Next, Step

\* The inductive invariant holds in every state.
LEMMA Always ==
  ASSUME LogConstants
  PROVE  Spec => []IInv
<1>1. Init => IInv
  BY InitHolds, Zenon
<1>2. IInv /\ [Next]_vars => IInv'
  BY NextHolds, Zenon
<1> QED
  BY <1>1, <1>2, PTL DEF Spec

\* begin_op, log_write, commit and recovery, with a crash at any disk write, implement the atomic
\* disk: what survives is always the result of whole calls, and recovery gives it back.
THEOREM LogImplementsAtomicDisk ==
  ASSUME LogConstants
  PROVE  Spec => ImplementsAtomicDisk
<1>1. Init => AD!Init
  <2> SUFFICES ASSUME Init PROVE AD!Init
    BY Zenon
  <2>1. View = Durable /\ InOp = {}
    BY InitHolds, Zenon
  <2>2. Durable \in [Blocks -> 0..MaxData]
    BY LogAssumption DEF Init, Durable
  <2> QED
    BY <2>1, <2>2, Zenon DEF AD!Init
<1>2. IInv /\ [Next]_vars => [AD!Next]_(AD!avars)
  BY NextHolds, Zenon
<1> QED
  BY <1>1, <1>2, Always, PTL DEF Spec, ImplementsAtomicDisk, AD!Spec

\* end_op returns only after commit(): with no call in progress and no commit, a crash loses
\* nothing.
THEOREM LogDurable ==
  ASSUME LogConstants
  PROVE  Spec => []DurableWhenQuiet
<1>1. IInv => DurableWhenQuiet
  <2> SUFFICES ASSUME IInv, boot = "up", outstanding = 0, ~committing PROVE Durable = View
    BY Zenon DEF DurableWhenQuiet
  <2>1. InOp = {}
    BY FS_EmptySet, Zenon DEF IInv, Control
  <2>2. lh = <<>> /\ head = <<>>
    BY <2>1, Zenon DEF IInv, Cached
  <2>3. \A b \in Blocks : bread(b) = home[b]
    BY <2>1, <2>2 DEF IInv, Cached, Locks, In, InOp
  <2> QED
    BY <2>2, <2>3 DEF Durable, View
<1> QED
  BY <1>1, Always, PTL

\* If every call leaves more of its MAXOPBLOCKS unused than the log on disk is smaller than LOGSIZE,
\* log_write never panics, though it tests the size before it takes log.lock.
THEOREM LogHasSpace ==
  ASSUME LogConstants, LOGSIZE - LogData < MAXOPBLOCKS - MaxWrites, MaxWrites < MAXOPBLOCKS
  PROVE  Spec => []LogSpaceSuffices
<1>1. Init => ~panicked
  BY Zenon DEF Init
<1>2. IInv /\ ~panicked /\ [Next]_vars => ~panicked'
  <2> SUFFICES ASSUME IInv, ~panicked, Next, panicked' PROVE FALSE
    BY Zenon DEF vars
  <2>1. PICK o \in Ops : (\E b \in Blocks : modify(o, b)) \/ end_op(o)
    BY Zenon DEF Next, Step, call, begin_op, log_write, write_log, write_head, install_trans, clear,
           committed, evict, crash, read_head, recover_from_log
  <2>2. pc[o] = "op" /\ o \in InOp /\ ~committing
    BY <2>1, Zenon DEF modify, end_op, InOp, IInv, Control
  <2>3. Len(lh) >= LOGSIZE \/ Len(lh) >= LogData \/ outstanding < 1
    BY <2>1, <2>2, Zenon DEF modify, end_op
  <2>4. outstanding \in Nat /\ outstanding # 0
    BY <2>2, FS_EmptySet, LeftFinite, Zenon DEF IInv, Control
  <2>5. Len(lh) \in Nat /\ Len(lh) + (MAXOPBLOCKS - MaxWrites) <= LOGSIZE
    <3> DEFINE c == Cardinality(wrote[o] \cap In(lh))
    <3>1. c \in Nat /\ c <= MaxWrites /\ Len(lh) + (MAXOPBLOCKS - c) <= LOGSIZE
      BY <2>2, Room, Zenon DEF IInv, Types
    <3> HIDE DEF c
    <3>2. Len(lh) \in Nat
      BY Entries, Zenon DEF IInv, Types
    <3> QED
      BY <3>1, <3>2, LogAssumption
  <2> QED
    BY <2>3, <2>4, <2>5, LogAssumption
<1>3. IInv /\ ~panicked => LogSpaceSuffices
  BY Zenon DEF IInv, Types, Header, LogSpaceSuffices
<1> QED
  BY <1>1, <1>2, <1>3, Always, PTL DEF Spec
=============================================================================
