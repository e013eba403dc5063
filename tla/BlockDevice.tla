---------------------------- MODULE BlockDevice ----------------------------
(***************************************************************************)
(* What the buffer cache promises to the log and the file system: blocks   *)
(* that one process at a time may hold, each with one current contents,    *)
(* whatever is recycled, queued or written back underneath.                *)
(***************************************************************************)
CONSTANTS Procs, Blocks, Data, NoBlock

VARIABLES mem,   \* the current contents of each block
          disk,  \* the contents on the disk
          held,  \* the block each process holds
          bad    \* the blocks whose last read from the disk failed

Init ==
  /\ mem \in [Blocks -> Data] /\ disk = mem
  /\ held = [p \in Procs |-> NoBlock]
  /\ bad = {}

Hold(p, b) ==
  /\ held[p] = NoBlock /\ \A q \in Procs : held[q] # b
  /\ held' = [held EXCEPT ![p] = b]
  /\ UNCHANGED <<mem, disk, bad>>

Let(p) ==
  /\ held[p] # NoBlock
  /\ held' = [held EXCEPT ![p] = NoBlock]
  /\ UNCHANGED <<mem, disk, bad>>

\* Only the holder changes a block.
Change(p) ==
  /\ held[p] # NoBlock
  /\ \E d \in Data : mem' = [mem EXCEPT ![held[p]] = d]
  /\ bad' = bad \ {held[p]}
  /\ UNCHANGED <<disk, held>>

\* The disk receives the current contents, never older ones.
Sync(b) ==
  /\ disk' = [disk EXCEPT ![b] = mem[b]]
  /\ UNCHANGED <<mem, held, bad>>

\* The driver takes a failed read for a good one: the contents are anything,
\* until the block is read again.
Fail(b) ==
  /\ mem[b] = disk[b]
  /\ \E d \in Data : mem' = [mem EXCEPT ![b] = d]
  /\ bad' = bad \cup {b}
  /\ UNCHANGED <<disk, held>>

Forget(b) ==
  /\ b \in bad
  /\ mem' = [mem EXCEPT ![b] = disk[b]]
  /\ bad' = bad \ {b}
  /\ UNCHANGED <<disk, held>>

Next ==
  \/ \E p \in Procs : (\E b \in Blocks : Hold(p, b)) \/ Let(p) \/ Change(p)
  \/ \E b \in Blocks : Sync(b) \/ Fail(b) \/ Forget(b)

Spec == Init /\ [][Next]_<<mem, disk, held, bad>>
=============================================================================
