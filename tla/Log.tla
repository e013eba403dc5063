-------------------------------- MODULE Log --------------------------------
(***************************************************************************)
(* The file system's redo log (src/lab6/lab6/log.c) over the buffer cache  *)
(* and a disk that may stop at any moment: begin_op, log_write, end_op,    *)
(* the steps of commit, one per disk write, a crash, and recovery.         *)
(*                                                                         *)
(* A block's contents is a number that each modification increments.  The  *)
(* buffer cache is the function buf: a block may leave it unless it is     *)
(* B_DIRTY or in use, and bread brings it back from the disk.              *)
(***************************************************************************)
EXTENDS Integers, Sequences, FiniteSets

CONSTANTS Ops,           \* the processes that make file system calls
          Blocks,        \* the home blocks
          LOGSIZE,       \* capacity of the in-memory header
          LogData,       \* log.size - 1: the data blocks of the log on disk
          MAXOPBLOCKS,   \* what begin_op reserves for a call
          MaxWrites,     \* how many different blocks a call really writes
          MaxData,       \* bound on the modifications of a block
          MaxCrashes,    \* bound on the crashes
          Absent         \* the block is not in the buffer cache

ASSUME LogAssumption ==
  /\ LOGSIZE \in Nat /\ LogData \in Nat /\ MAXOPBLOCKS \in Nat \ {0}
  /\ MaxWrites \in Nat /\ MaxData \in Nat /\ MaxCrashes \in Nat
  /\ Absent \notin 0..MaxData

VARIABLES
  home, logBlk, head,            \* on disk: home blocks, log blocks, log header
  buf, dirty,                    \* buffer cache: contents, B_DIRTY
  lh, outstanding, committing,   \* struct log
  pc, wrote, cur, tail,          \* per process: label, blocks written, buffers
                                 \* locked, loop variable of commit
  boot, btail,                   \* recover_from_log: label and loop variable
  crashes, panicked

disk == <<home, logBlk, head>>
log == <<lh, outstanding, committing>>
local == <<pc, wrote, cur, tail>>
vars == <<disk, buf, dirty, log, local, boot, btail, crashes, panicked>>

Init ==
  /\ home = [b \in Blocks |-> 0]
  /\ logBlk = [i \in 1..LogData |-> 0]
  /\ head = <<>>
  /\ buf = [b \in Blocks |-> Absent]
  /\ dirty = {}
  /\ lh = <<>> /\ outstanding = 0 /\ committing = FALSE
  /\ pc = [o \in Ops |-> "idle"]
  /\ wrote = [o \in Ops |-> {}]
  /\ cur = [o \in Ops |-> {}]
  /\ tail = [o \in Ops |-> 1]
  /\ boot = "read_head" /\ btail = 1
  /\ crashes = 0 /\ panicked = FALSE
-----------------------------------------------------------------------------
\* bread: the buffer's contents, from the disk if it is not cached.
bread(b) == IF buf[b] = Absent THEN home[b] ELSE buf[b]

Goto(o, l) == pc' = [pc EXCEPT ![o] = l]

\* wakeup(&log).
Wake(f) == [o \in Ops |-> IF f[o] = "asleep" THEN "begin" ELSE f[o]]

\* A file system call starts.
call(o) ==
  /\ boot = "up" /\ pc[o] = "idle"
  /\ Goto(o, "begin")
  /\ UNCHANGED <<disk, buf, dirty, log, wrote, cur, tail, boot, btail, crashes, panicked>>

\* begin_op's two reasons to wait.
MustWait ==
  \/ committing
  \/ Len(lh) + (outstanding + 1) * MAXOPBLOCKS > LOGSIZE

\* begin_op: sleep, or join the transaction.
begin_op(o) ==
  /\ pc[o] = "begin"
  /\ \/ /\ MustWait
        /\ Goto(o, "asleep")
        /\ UNCHANGED <<outstanding, wrote>>
     \/ /\ ~MustWait
        /\ outstanding' = outstanding + 1
        /\ wrote' = [wrote EXCEPT ![o] = {}]
        /\ Goto(o, "op")
  /\ UNCHANGED <<disk, buf, dirty, lh, committing, cur, tail, boot, btail, crashes, panicked>>

\* A call reads block b, modifies its buffer, and enters log_write, whose tests
\* do not hold log.lock.
modify(o, b) ==
  /\ pc[o] = "op"
  /\ \A q \in Ops : b \notin cur[q]
  /\ Cardinality(wrote[o] \cup {b}) <= MaxWrites
  /\ bread(b) < MaxData
  /\ IF Len(lh) >= LOGSIZE \/ Len(lh) >= LogData \/ outstanding < 1
     THEN panicked' = TRUE /\ UNCHANGED <<buf, pc, wrote, cur>>
     ELSE /\ buf' = [buf EXCEPT ![b] = bread(b) + 1]
          /\ cur' = [cur EXCEPT ![o] = {b}]
          /\ wrote' = [wrote EXCEPT ![o] = @ \cup {b}]
          /\ Goto(o, "logging")
          /\ UNCHANGED panicked
  /\ UNCHANGED <<disk, dirty, log, tail, boot, btail, crashes>>

\* log_write pins the buffer with B_DIRTY.
Pin(b) == dirty' = dirty \cup {b}

\* log_write, with log.lock: absorb or append the block, pin it; brelse.
log_write(o) ==
  /\ pc[o] = "logging"
  /\ LET b == CHOOSE b \in cur[o] : TRUE IN
     /\ lh' = IF \E i \in 1..Len(lh) : lh[i] = b THEN lh ELSE Append(lh, b)
     /\ Pin(b)
  /\ cur' = [cur EXCEPT ![o] = {}]
  /\ Goto(o, "op")
  /\ UNCHANGED <<disk, buf, outstanding, committing, wrote, tail, boot, btail, crashes, panicked>>

\* Mutant: commit() skips a transaction of one block.
NothingLogged_OffByOne == Len(lh) <= 1

\* commit's test of log.lh.n.
NothingLogged == lh = <<>>

\* end_op, up to commit(): commit() does nothing if the log is empty.
end_op(o) ==
  /\ pc[o] = "op"
  /\ IF committing
     THEN panicked' = TRUE /\ UNCHANGED <<outstanding, committing, pc, tail>>
     ELSE /\ outstanding' = outstanding - 1
          /\ IF outstanding = 1
             THEN /\ committing' = TRUE
                  /\ tail' = [tail EXCEPT ![o] = 1]
                  /\ Goto(o, IF NothingLogged THEN "committed" ELSE "write_log")
             ELSE /\ pc' = Wake([pc EXCEPT ![o] = "idle"])
                  /\ UNCHANGED <<committing, tail>>
          /\ UNCHANGED panicked
  /\ UNCHANGED <<disk, buf, dirty, lh, wrote, cur, boot, btail, crashes>>

\* write_log: one block copied from the cache to the log on disk, or done.
write_log(o) ==
  /\ pc[o] = "write_log"
  /\ IF tail[o] <= Len(lh)
     THEN /\ logBlk' = [logBlk EXCEPT ![tail[o]] = bread(lh[tail[o]])]
          /\ buf' = [buf EXCEPT ![lh[tail[o]]] = bread(lh[tail[o]])]
          /\ tail' = [tail EXCEPT ![o] = @ + 1]
          /\ UNCHANGED pc
     ELSE Goto(o, "write_head") /\ UNCHANGED <<logBlk, buf, tail>>
  /\ UNCHANGED <<home, head, dirty, log, wrote, cur, boot, btail, crashes, panicked>>

\* write_head: the header block, the point of commit.
write_head(o) ==
  /\ pc[o] = "write_head"
  /\ head' = lh
  /\ tail' = [tail EXCEPT ![o] = 1]
  /\ Goto(o, "install")
  /\ UNCHANGED <<home, logBlk, buf, dirty, log, wrote, cur, boot, btail, crashes, panicked>>

\* install_trans: the log block at index i goes to its home block; bwrite makes
\* the buffer clean.
Install(i) ==
  /\ buf' = [buf EXCEPT ![lh[i]] = logBlk[i]]
  /\ home' = [home EXCEPT ![lh[i]] = logBlk[i]]
  /\ dirty' = dirty \ {lh[i]}

\* commit's install_trans: one block, or on to clearing the log.
install_trans(o) ==
  /\ pc[o] = "install"
  /\ IF tail[o] <= Len(lh)
     THEN Install(tail[o]) /\ tail' = [tail EXCEPT ![o] = @ + 1] /\ UNCHANGED pc
     ELSE Goto(o, "clear") /\ UNCHANGED <<buf, home, dirty, tail>>
  /\ UNCHANGED <<logBlk, head, log, wrote, cur, boot, btail, crashes, panicked>>

\* commit: log.lh.n = 0 and write_head.
clear(o) ==
  /\ pc[o] = "clear"
  /\ lh' = <<>> /\ head' = <<>>
  /\ Goto(o, "committed")
  /\ UNCHANGED <<home, logBlk, buf, dirty, outstanding, committing, wrote, cur, tail,
                 boot, btail, crashes, panicked>>

\* Mutant: the end of end_op forgets to wake the callers of begin_op.
Woken_None(f) == f

\* The processes after end_op's last wakeup(&log).
Woken(f) == Wake(f)

\* end_op, after commit().
committed(o) ==
  /\ pc[o] = "committed"
  /\ committing' = FALSE
  /\ pc' = Woken([pc EXCEPT ![o] = "idle"])
  /\ UNCHANGED <<disk, buf, dirty, lh, outstanding, wrote, cur, tail, boot, btail,
                 crashes, panicked>>

\* bget recycles a buffer that is neither B_DIRTY nor referenced.
evict(b) ==
  /\ buf[b] # Absent /\ b \notin dirty
  /\ \A o \in Ops : b \notin cur[o]
  /\ buf' = [buf EXCEPT ![b] = Absent]
  /\ UNCHANGED <<disk, dirty, log, local, boot, btail, crashes, panicked>>

-----------------------------------------------------------------------------
\* The machine stops; the disk stays.
crash ==
  /\ crashes < MaxCrashes
  /\ crashes' = crashes + 1
  /\ buf' = [b \in Blocks |-> Absent]
  /\ dirty' = {}
  /\ lh' = <<>> /\ outstanding' = 0 /\ committing' = FALSE
  /\ pc' = [o \in Ops |-> "idle"]
  /\ wrote' = [o \in Ops |-> {}]
  /\ cur' = [o \in Ops |-> {}]
  /\ tail' = [o \in Ops |-> 1]
  /\ boot' = "read_head" /\ btail' = 1
  /\ UNCHANGED <<disk, panicked>>

\* initlog: read the header.
read_head ==
  /\ boot = "read_head"
  /\ lh' = head
  /\ boot' = "install"
  /\ UNCHANGED <<disk, buf, dirty, outstanding, committing, local, btail, crashes, panicked>>

\* Mutant: recovery clears the log without installing it.
Recovered_Early == TRUE

\* Recovery has installed the whole log.
Recovered == btail > Len(lh)

\* recover_from_log: install one block, or clear the log and let init go on.
recover_from_log ==
  /\ boot = "install"
  /\ IF ~Recovered
     THEN Install(btail) /\ btail' = btail + 1 /\ UNCHANGED <<boot, lh, head>>
     ELSE /\ lh' = <<>> /\ head' = <<>>
          /\ boot' = "up"
          /\ UNCHANGED <<buf, home, dirty, btail>>
  /\ UNCHANGED <<logBlk, outstanding, committing, local, crashes, panicked>>

-----------------------------------------------------------------------------
Step(o) ==
  \/ begin_op(o) \/ (\E b \in Blocks : modify(o, b)) \/ log_write(o) \/ end_op(o)
  \/ write_log(o) \/ write_head(o) \/ install_trans(o) \/ clear(o) \/ committed(o)

Next ==
  /\ ~panicked
  /\ \/ \E o \in Ops : call(o) \/ Step(o)
     \/ \E b \in Blocks : evict(b)
     \/ crash \/ read_head \/ recover_from_log

Spec == Init /\ [][Next]_vars

\* The scheduler runs every process again and again, the disk answers, and a file
\* system call reaches its end_op: begin_op to end_op is a finite kernel path.
Fairness ==
  /\ WF_vars(Next /\ (read_head \/ recover_from_log))
  /\ \A o \in Ops :
       WF_vars(Next /\ (begin_op(o) \/ log_write(o) \/ end_op(o) \/ write_log(o)
                        \/ write_head(o) \/ install_trans(o) \/ clear(o) \/ committed(o)))

FairSpec == Spec /\ Fairness

-----------------------------------------------------------------------------
\* The contents that recovery would leave on the disk: a header with blocks in it
\* means a committed transaction, whose log blocks replace the home blocks.
Durable == [b \in Blocks |->
  IF \E i \in 1..Len(head) : head[i] = b
  THEN logBlk[CHOOSE i \in 1..Len(head) : head[i] = b] ELSE home[b]]

\* What file system calls read.
View == IF boot = "up" THEN [b \in Blocks |-> bread(b)] ELSE Durable

\* The calls between begin_op and end_op.
InOp == {o \in Ops : pc[o] \in {"op", "logging"}}

AD == INSTANCE AtomicDisk WITH
        Data <- 0..MaxData, mem <- View, disk <- Durable, active <- InOp

\* The log implements the atomic disk: crash and recovery at any point of commit,
\* evictions and concurrent calls included.
ImplementsAtomicDisk == AD!Spec

\* Once no call is in progress and the log is not committing, everything the
\* calls did is durable (end_op returns only after commit()).
DurableWhenQuiet ==
  boot = "up" /\ outstanding = 0 /\ ~committing => Durable = View

\* log_write never panics with "too big a transaction", and the log on disk has a
\* block for every entry of the header, though log_write tests the size before it
\* takes log.lock: what begin_op reserves for the calls is enough.
LogSpaceSuffices == ~panicked /\ Len(lh) <= LogData

\* Every process asleep in begin_op is eventually woken.
SleeperWoken == \A o \in Ops : pc[o] = "asleep" ~> pc[o] # "asleep"
=============================================================================
