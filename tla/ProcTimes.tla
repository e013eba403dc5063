------------------------------ MODULE ProcTimes ------------------------------
(***************************************************************************)
(* Proc with history variables: for each slot, how many ticks its process  *)
(* has spent running and waiting, counted tick by tick; whether kill() or  *)
(* a fault hit this process since allocproc made it; and whether a mark    *)
(* was left on its slot before that.                                       *)
(***************************************************************************)
EXTENDS Proc

VARIABLES ran, waited, hit, stray

tvars == <<vars, ran, waited, hit, stray>>

TInit ==
  /\ Init
  /\ ran = [p \in Slots |-> 0]
  /\ waited = [p \in Slots |-> 0]
  /\ hit = [p \in Slots |-> FALSE]
  /\ stray = [p \in Slots |-> FALSE]

\* What a step does to the history: allocproc starts it afresh, a tick counts
\* for the state it finds the process in, killed is set on a process that exists.
\* The two ways to leave a mark on a free slot are kill(0), whose pid is 0, and a
\* fork that fails after its child was killed.
Record ==
  LET fresh(p) == state[p] = "UNUSED" /\ state'[p] = "EMBRYO"
      count(f, S) == [p \in Slots |->
        IF fresh(p) THEN 0
        ELSE IF ticks' # ticks /\ state[p] \in S THEN f[p] + 1 ELSE f[p]]
  IN
  /\ ran' = count(ran, {"RUNNING"})
  /\ waited' = count(waited, {"EMBRYO", "RUNNABLE"})
  /\ hit' = [p \in Slots |->
       IF fresh(p) THEN FALSE
       ELSE hit[p] \/ (state[p] # "UNUSED" /\ ~killed[p] /\ killed'[p])]
  /\ stray' = [p \in Slots |->
       IF state[p] = "UNUSED" THEN stray[p] \/ (~killed[p] /\ killed'[p])
       ELSE IF state'[p] = "UNUSED" THEN state[p] # "ZOMBIE" /\ (hit[p] \/ stray[p])
       ELSE stray[p]]

TSpec == TInit /\ [][(Next \/ Halted) /\ Record]_tvars

\* The run and wait times that wait2 reports are the ticks the process really ran
\* and waited: rutime and wtime, brought up to date by the time since snapticks,
\* always agree with the tick-by-tick counts, though scheduler, yield, sleep,
\* wakeup1, kill and exit each update only some of the three fields.
TimesExact ==
  \A p \in Slots :
    LET since == ticks - snapticks[p] IN
    /\ state[p] \in {"EMBRYO", "RUNNABLE"} =>
         rutime[p] = ran[p] /\ wtime[p] + since = waited[p]
    /\ state[p] = "RUNNING" =>
         rutime[p] + since = ran[p] /\ wtime[p] = waited[p]
    /\ state[p] \in {"SLEEPING", "ZOMBIE"} =>
         rutime[p] = ran[p] /\ wtime[p] = waited[p]

\* proc.h: "killed: If non-zero, have been killed".  A process is marked killed if and
\* only if kill() or a fault hit it after allocproc made it, or a stray mark was on its
\* slot: no kill is lost, whatever the target was doing, and wait leaves none behind.
KilledExact ==
  \A p \in Slots : state[p] # "UNUSED" => killed[p] = (hit[p] \/ stray[p])
=============================================================================
