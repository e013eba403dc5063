----------------------------- MODULE AtomicDisk -----------------------------
(***************************************************************************)
(* What the file system log promises: the disk changes only in one step,   *)
(* from the result of some whole system calls to the result of more whole  *)
(* system calls, and a crash goes back to the disk.                        *)
(***************************************************************************)
CONSTANTS Ops, Blocks, Data

VARIABLES mem,     \* the contents of every block as system calls see them
          disk,    \* the contents that survive a crash
          active   \* the system calls between begin_op and end_op

avars == <<mem, disk, active>>

Init == mem = disk /\ disk \in [Blocks -> Data] /\ active = {}

Begin(o) ==
  /\ o \notin active
  /\ active' = active \cup {o}
  /\ UNCHANGED <<mem, disk>>

Write(o, b) ==
  /\ o \in active
  /\ \E v \in Data : mem' = [mem EXCEPT ![b] = v]
  /\ UNCHANGED <<disk, active>>

End(o) ==
  /\ o \in active
  /\ active' = active \ {o}
  /\ UNCHANGED <<mem, disk>>

\* Only when no system call is half done.
Commit == active = {} /\ disk' = mem /\ UNCHANGED <<mem, active>>

Crash == mem' = disk /\ active' = {} /\ UNCHANGED disk

Next ==
  \/ \E o \in Ops : Begin(o) \/ End(o) \/ \E b \in Blocks : Write(o, b)
  \/ Commit \/ Crash

Spec == Init /\ [][Next]_avars
=============================================================================
