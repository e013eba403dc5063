------------------------------- MODULE Mutex -------------------------------
(***************************************************************************)
(* What a sleep lock promises: at most one process holds it, and only the  *)
(* holder gives it up.                                                     *)
(***************************************************************************)
CONSTANT Procs

VARIABLE holders   \* the processes between acquiresleep and releasesleep

Init == holders = {}

Acquire(p) == holders = {} /\ holders' = {p}

Release(p) == holders = {p} /\ holders' = {}

Spec == Init /\ [][\E p \in Procs : Acquire(p) \/ Release(p)]_holders
=============================================================================
