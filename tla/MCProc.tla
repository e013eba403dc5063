------------------------------- MODULE MCProc -------------------------------
(* Proc on small tables: the configurations name the CPUs and the bounds. *)
EXTENDS Proc
CONSTANTS c0, c1

MC_TwoCpus == {c0, c1}
=============================================================================
