---------------------------- MODULE MCProcTimes ----------------------------
(* ProcTimes on one CPU and a small table. *)
EXTENDS ProcTimes
CONSTANTS c0

MC_Naps == {1, 2}
MC_OneCpu == {c0}
=============================================================================
