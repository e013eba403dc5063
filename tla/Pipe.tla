-------------------------------- MODULE Pipe --------------------------------
(***************************************************************************)
(* A pipe (src/lab6/lab6/pipe.c) and the reference counts of its two open  *)
(* files (file.c): several processes write, several read, any of them may  *)
(* be killed, close its end, or share it with a new process.  p->lock is   *)
(* explicit and bytes move one at a time.  nread and nwrite are unsigned   *)
(* and wrap at UINT; data is indexed modulo PIPESIZE.                      *)
(***************************************************************************)
EXTENDS Integers, Sequences, FiniteSets

CONSTANTS Writers, Readers,   \* the processes that use each end
          NoProc,
          PIPESIZE,
          UINT,               \* 2^32 in the code: a multiple of PIPESIZE
          Byte,
          Counts,             \* the arguments n of pipewrite and piperead
          MaxKills            \* bound: how many of the processes are killed

Procs == Writers \cup Readers
End(p) == IF p \in Writers THEN "w" ELSE "r"

VARIABLES
  data, nread, nwrite, open,   \* struct pipe; open: writeopen and readopen
  lock,                        \* holder of p->lock
  freed,                       \* how often kfree(p) was called
  ref,                         \* struct file: ref, for each end
  pc, i, n,                    \* per process: label and locals
  killed

vars == <<data, nread, nwrite, open, lock, freed, ref, pc, i, n, killed>>

\* After pipealloc: one process has each end open, the others do not exist yet.
Init ==
  /\ data = [k \in 0..PIPESIZE - 1 |-> CHOOSE b \in Byte : TRUE]
  /\ nread = 0 /\ nwrite = 0
  /\ open = [e \in {"w", "r"} |-> TRUE]
  /\ lock = NoProc
  /\ freed = 0
  /\ ref = [e \in {"w", "r"} |-> 1]
  /\ \E w \in Writers, r \in Readers :
       pc = [p \in Procs |-> IF p \in {w, r} THEN "idle" ELSE "none"]
  /\ i = [p \in Procs |-> 0]
  /\ n = [p \in Procs |-> 0]
  /\ killed = [p \in Procs |-> FALSE]

-----------------------------------------------------------------------------
Goto(p, l) == pc' = [pc EXCEPT ![p] = l]

\* wakeup(&p->nread) or wakeup(&p->nwrite), applied to the labels f.
Wake(f, e) == [p \in Procs |->
  IF f[p] = "asleep" /\ End(p) = e THEN (IF e = "w" THEN "write" ELSE "read") ELSE f[p]]

\* Mutant: one byte too many fits.
Full_OffByOne == nwrite = (nread + PIPESIZE + 1) % UINT

\* pipewrite's test.
Full == nwrite = (nread + PIPESIZE) % UINT

Empty == nread = nwrite

\* write(fd, addr, count) or read(fd, addr, count) enters the pipe code.
call(p, count) ==
  /\ pc[p] = "idle" /\ ~killed[p]
  /\ Goto(p, IF p \in Writers THEN "write" ELSE "read")
  /\ n' = [n EXCEPT ![p] = count]
  /\ UNCHANGED <<data, nread, nwrite, open, lock, freed, ref, i, killed>>

\* acquire(&p->lock), at the start and when sleep() returns.
acquire(p) ==
  /\ pc[p] \in {"write", "read"} /\ lock = NoProc
  /\ lock' = p
  /\ UNCHANGED <<data, nread, nwrite, open, freed, ref, pc, i, n, killed>>

\* pipewrite's loop, one turn, with p->lock.
pipewrite(p) ==
  /\ lock = p /\ pc[p] = "write"
  /\ \/ /\ i[p] < n[p] /\ ~Full
        /\ \E b \in Byte : data' = [data EXCEPT ![nwrite % PIPESIZE] = b]
        /\ nwrite' = (nwrite + 1) % UINT
        /\ i' = [i EXCEPT ![p] = @ + 1]
        /\ UNCHANGED <<pc, lock, n>>
     \/ /\ i[p] < n[p] /\ Full /\ (~open["r"] \/ killed[p])
        /\ Goto(p, "idle") /\ lock' = NoProc
        /\ i' = [i EXCEPT ![p] = 0] /\ n' = [n EXCEPT ![p] = 0]
        /\ UNCHANGED <<data, nwrite>>
     \/ /\ i[p] < n[p] /\ Full /\ open["r"] /\ ~killed[p]
        /\ pc' = Wake([pc EXCEPT ![p] = "asleep"], "r") /\ lock' = NoProc
        /\ UNCHANGED <<data, nwrite, i, n>>
     \/ /\ i[p] = n[p]
        /\ pc' = Wake([pc EXCEPT ![p] = "idle"], "r") /\ lock' = NoProc
        /\ i' = [i EXCEPT ![p] = 0] /\ n' = [n EXCEPT ![p] = 0]
        /\ UNCHANGED <<data, nwrite>>
  /\ UNCHANGED <<nread, open, freed, ref, killed>>

\* piperead's loop condition.
MustWait == Empty /\ open["w"]

\* piperead waits for bytes, with p->lock.
piperead(p) ==
  /\ lock = p /\ pc[p] = "read"
  /\ \/ /\ MustWait /\ killed[p]
        /\ Goto(p, "idle") /\ lock' = NoProc
        /\ n' = [n EXCEPT ![p] = 0]
     \/ /\ MustWait /\ ~killed[p]
        /\ Goto(p, "asleep") /\ lock' = NoProc
        /\ UNCHANGED n
     \/ /\ ~MustWait
        /\ Goto(p, "copy")
        /\ UNCHANGED <<lock, n>>
  /\ UNCHANGED <<data, nread, nwrite, open, freed, ref, i, killed>>

\* Mutant: piperead wakes nobody.
AfterRead_Silent(p) == Goto(p, "idle")

\* piperead: wakeup(&p->nwrite) and return.
AfterRead(p) == pc' = Wake([pc EXCEPT ![p] = "idle"], "w")

\* piperead copies bytes out, one turn of its loop, with p->lock.
copyOut(p) ==
  /\ lock = p /\ pc[p] = "copy"
  /\ \/ /\ i[p] < n[p] /\ ~Empty
        /\ nread' = (nread + 1) % UINT
        /\ i' = [i EXCEPT ![p] = @ + 1]
        /\ UNCHANGED <<pc, lock, n>>
     \/ /\ i[p] = n[p] \/ Empty
        /\ AfterRead(p) /\ lock' = NoProc
        /\ i' = [i EXCEPT ![p] = 0] /\ n' = [n EXCEPT ![p] = 0]
        /\ UNCHANGED nread
  /\ UNCHANGED <<data, nwrite, open, freed, ref, killed>>

\* Mutant: filedup does not count.
filedup_NoCount(p, q) ==
  /\ pc[p] = "idle" /\ ~killed[p] /\ pc[q] = "none" /\ End(p) = End(q)
  /\ Goto(q, "idle")
  /\ UNCHANGED <<data, nread, nwrite, open, lock, freed, ref, i, n, killed>>

\* fork by p: the child q shares its end (filedup).
filedup(p, q) ==
  /\ pc[p] = "idle" /\ ~killed[p] /\ pc[q] = "none" /\ End(p) = End(q)
  /\ ref' = [ref EXCEPT ![End(p)] = @ + 1]
  /\ Goto(q, "idle")
  /\ UNCHANGED <<data, nread, nwrite, open, lock, freed, i, n, killed>>

\* fileclose, with ftable.lock: the last reference goes on to pipeclose.
fileclose(p) ==
  /\ pc[p] = "idle"
  /\ ref' = [ref EXCEPT ![End(p)] = @ - 1]
  /\ Goto(p, IF ref[End(p)] > 1 THEN "closed" ELSE "closing")
  /\ UNCHANGED <<data, nread, nwrite, open, lock, freed, i, n, killed>>

\* pipeclose wakes the other end; whoever finds both ends closed frees the pipe.
pipeclose(p) ==
  /\ pc[p] = "closing" /\ lock = NoProc
  /\ open' = [open EXCEPT ![End(p)] = FALSE]
  /\ pc' = Wake([pc EXCEPT ![p] = "closed"], IF p \in Writers THEN "r" ELSE "w")
  /\ freed' = IF \A e \in {"w", "r"} : ~open'[e] THEN freed + 1 ELSE freed
  /\ UNCHANGED <<data, nread, nwrite, lock, ref, i, n, killed>>

\* kill() makes a sleeping process RUNNABLE.
KillWakes(p) ==
  pc' = [pc EXCEPT ![p] = IF @ # "asleep" THEN @
                          ELSE IF p \in Writers THEN "write" ELSE "read"]

\* kill(p) by any process.
kill(p) ==
  /\ pc[p] \notin {"none", "closed"} /\ ~killed[p]
  /\ Cardinality({q \in Procs : killed[q]}) < MaxKills
  /\ killed' = [killed EXCEPT ![p] = TRUE]
  /\ KillWakes(p)
  /\ UNCHANGED <<data, nread, nwrite, open, lock, freed, ref, i, n>>

Next ==
  \E p \in Procs :
    \/ \E count \in Counts : call(p, count)
    \/ acquire(p) \/ pipewrite(p) \/ piperead(p) \/ copyOut(p)
    \/ \E q \in Procs : filedup(p, q)
    \/ fileclose(p) \/ pipeclose(p) \/ kill(p)

Spec == Init /\ [][Next]_vars

-----------------------------------------------------------------------------
\* The bytes in the pipe, oldest first: the queue of module BoundedFifo.
Inside == [k \in 1..(nwrite - nread) % UINT |-> data[(nread + k - 1) % PIPESIZE]]

\* No wakeup is lost: when p->lock is free, a writer asleep has no room, a reader
\* asleep has nothing to read, the other end is open, and neither was killed.  The
\* one exception is what a killed writer leaves behind: it returns from a full pipe
\* without the wakeup of the readers.
NoLostWakeup ==
  lock = NoProc =>
    \A p \in Procs : pc[p] = "asleep" =>
      /\ ~killed[p]
      /\ p \in Readers => open["w"] /\ (Empty \/ \E w \in Writers : killed[w])
      /\ p \in Writers => Full /\ open["r"]

\* The pipe's page is freed at most once, not before both ends have no user left,
\* and once everyone has closed its end it has been freed: no use after free, no
\* double free, no leak.
FreedOnce ==
  LET using == {p \in Procs : pc[p] \notin {"none", "closed"}} IN
  /\ freed = IF using = {} THEN 1 ELSE 0
=============================================================================
